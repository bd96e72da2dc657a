# TLA+ verification of engram-repl

engram-repl runs a JavaScript REPL session inside a Cloudflare Durable Object:
every cell runs in a QuickJS heap that is snapshotted after the cell, so a
session survives eviction, crashes and deploys. Around that core are the
session's files, its outbound channels, an SDK that retries over an unreliable
WebSocket, a container that shares the session's files, and a cloud control
plane. This directory holds TLA+ models of these parts, TLC configurations that
check them on small instances, and TLAPS proofs, for every value of the constants:
every safety property that a passing run checks is also a theorem, under the
hypotheses section 4 names.

Paths below are relative to the repository; `lib.rs` is
`apps/kernel/src/lib.rs`, the glue is `apps/kernel/src/kernel-glue.ts`, the SDK
is `packages/sdk/src/index.ts`.

## 1. The system

| Component | State it keeps | Operations | Hard behaviour |
|---|---|---|---|
| **Durability core** (`lib.rs`, glue dump/restore) | SQLite: `snap_manifest`, chunks, `oplog`, meta rows; base objects in R2; the alarm; in memory the live heap and the images retained for the next delta | eval, create, flush, alarm, websocket-close, reset, evict; restore and checkpoint underneath | crash or evict between any two awaits; R2 failures; engine change on deploy; deltas against a moving base |
| **Snapshot codec** (glue) | the memory image, the retained one, stored rows | dumpW4, restoreW4 | growth, size gates, codecs of two builds |
| **Session file system** (`host.fs`, `vfs-*`) | `fs_files` rows, `fsVersion`, bodies in R2, exported manifest; `staged_fs` | staged write/delete, flush, vfs-write, vfs-sync, container writes | vfs-write is mutex-free; body and row live in two stores |
| **Eval queue** | queue depth, mutex, `eval_replies` | admit, run, reserve, replay, answer; evict | duplicated frames, crash between reservation and reply, an evict under a parked cell |
| **SDK transport** (`WsTransport`) | current socket, attached handlers, one pending rpc, keep-alive windows | request, open, retry, time-out, onMessage, onClose | replies carry no id; late replies and close events |
| **R2 breaker** | failure count and `open_until` in meta | resilient GET and PUT | concurrent requests, persisted counters |
| **Host-call bridge, streams** (glue) | parked calls, recorded results, streams, budgets | host call, result, time-out, replay, reset | late results, budget overrun, effects fired twice, cell numbers that start again |
| **Host TCP sockets** (`host-sockets.mjs`, `net.js`, `tls.js`) | handle table; the VM's Socket objects | open, read, write, startTls, close | one shared call tail; handles outlive the table |
| **VM WebSocket** (glue, engine bootstrap) | bounded inbound queue, the VM's cursor | open, poll, recv, close | overflow, hibernation |
| **Fetch policy** (glue) | none | host classification, redirects | spellings of an address, hops |
| **Session configuration** (glue, `lib.rs`) | persisted config, extension meta, stdlib in the heap | create, restore, replay | four ways to come up, other build |
| **engram-fs** (`packages/engram-fs`) | staged map, cache, rows, bodies | write, delete, flushStaged, read | three awaited writes per file, each of which may reject |
| **Sandbox worker** (`apps/sandbox`) | the container's mount, what s3fs buffers | ensureSessionMount, file and shell requests | check, clear, mount without a lock; mount errors that are ignored; an s3fs that lags |
| **Supervisor** (`apps/cloud/src/supervisor.ts`) | session registry, cadence, alarm | route, touch, sweep, evict | sweep acts on rows read before its awaits |
| **Credential gate** (same file) | credential cache, JWKS keys, tenants | resolve, permission check, admin routes | refusals and revoked keys are cached |
| **SDK helpers** | finals, ctx, host modules, client pool | bootstrap, eval, writeFile, streams, session() | reconnects and concurrent calls |
| Kernel auth gate, worker registry code, REPL transform, engine, CLI, UI | – | – | see section 6 |

How they interact. A client's frames reach the supervisor's entry, which resolves
the credential and routes to the shard, which admits the session's facet and
forwards to the kernel's `websocket_message`. There create, eval, flush, artifact
and reset take a permit and the FIFO mutex; evict, vfs-*, worker, sandbox and
hostcall-result frames take none and run at any await of the mutex owner. An eval
restores the heap if none is live, runs the cell in the host-call loop of the glue
(which serves fetch, streams, files, sockets, WebSockets, extensions, the sandbox
and the client's own host functions), and either checkpoints (`eagerDurable`) or
marks the session dirty and arms the alarm (`warmBuffered`). A checkpoint flushes
the staged files, commits one SQLite transaction, exports the file index and
promotes the dumped image to delta base.

What makes each part correct:

- *snapshots*: what a reply called durable is what a cold wake restores; the
  stored chain rebuilds the image the manifest describes, or the restore refuses
  it; a dirty session is eventually committed or reported lost;
- *files*: no row without its body; heap and files commit together; an
  acknowledged write is not destroyed by an older one; all surfaces see the same
  bytes under the same key;
- *requests*: a cell runs at most once; an eval gets the answer to its own frame;
  every request settles and the queue drains;
- *host calls and channels*: a call gets its own answer; a replay fires nothing;
  bytes and events arrive in order; handles are given back; every cell ends;
- *policy and configuration*: a request starts at a host `config.fetch` permits and
  no hop reaches an internal address (the hops after the first are not held to the
  allowlist); a session's config is enforced however its kernel came up;
- *cloud*: revocation takes effect within the cache's TTL, refusals heal, idle
  facets hibernate.

The hazards behind these statements are listed, each at its line, in
`PROJECT.json`.

## 2. Modules

| Module | Models |
|---|---|
| `KernelSnapshots` | the durability core |
| `DurableSession` | what a session promises: an abstract committed/live/snapshot machine |
| `KernelSnapshotsProofs` | theorems about the two, the refinement included |
| `HostFsProofs`, `WsTransportProofs`, `HostCallsProofs` | theorems about `HostFs`; `EvalQueue` and `WsTransport`; `HostCalls` |
| `ChannelsProofs` | theorems about `Sockets` and `VmWebSocket` |
| `GlueDataProofs` | theorems about the nine machines of `MCGlueData` |
| `CloudProofs` | theorems about `Gate` |
| `FoldTheorems` | induction over sets of numbers, and the community modules' folds taken step by step |
| `HostFs` | the session file system and its writers |
| `EvalQueue` | the kernel side of create and eval frames |
| `WsTransport` | the SDK transport, composed with `EvalQueue` (EXTENDS) |
| `HostCalls` | the host-call loop, client bridge, streams, journal and replay |
| `Sockets`, `VmWebSocket` | TCP sockets and WebSockets of the VM |
| `ImageChain` | dumpW4 and restoreW4 down to bytes |
| `Egress` | host classification, fetch checks, redirects |
| `SessionSetup` | configuration, extensions and stdlib at every way a kernel comes up |
| `EngramFs` | the engram-fs package and the gateway that shares its keys |
| `Sandbox` | the container worker's mount and its requests |
| `SdkFiles`, `SdkSession`, `EngramClient` | the SDK's transfers, session helpers and client pool |
| `R2Breaker` | resilient R2 requests and their breaker |
| `Supervisor`, `Gate` | a shard of the control plane; the credential gate |
| `MCKernelSnapshots`, `MCHostFs`, `MCWsTransport`, `MCHostCalls` | instances for TLC |
| `MCChannels` | `Sockets` and `VmWebSocket` |
| `MCGlueData` | the nine independent machines from `ImageChain` to `R2Breaker` |
| `MCCloud` | `Supervisor` and `Gate` |

Conventions. One action is the code between two awaits. SQLite statements with no
await between them are one step (the Durable Object coalesces such writes). An
action named *X* models the handler or the stretch of it that `map` gives; a
definition whose comment starts with "Mutant" is a deliberately wrong variant of
its neighbour, used to show that a property notices the bug. `MCChannels`,
`MCGlueData` and `MCCloud` put machines that share no state side by side: the
variable `which` picks one at the start and the others keep their initial values,
so the state space is the sum and not the product.

### KernelSnapshots

A heap image is the sequence of the evaluations that built it, a CRC is the image
it was taken of, and a byte delta is the pair (image diffed against, image
produced): applying it to anything else gives `Corrupt`. `job` is the mutex owner:
its `pc` walks `restore → eval → put → verify → txn → promote → deleteOld`
(eager cell or flush) and each value is an await in the code. `glue` holds the live
heap with `lastImage` (`last`) and `pendingImage` (`pending`). `Shapes` says how a
dump may turn out: admitted by the size gates, sparse enough for a delta, small
enough to retain, large enough to spill to R2. `Evict` and `Crash` may strike
between any two steps; `Crash` also decides which R2 requests in flight land, and
may install another build. `ReplayR2Unavailable`, `ReplayEngineMigration` and
`ReplaySanityFallback` are the three oplog fallbacks of `ensure_glue`. `EvalTraps`
is the `unwrap` on a kernel that was evicted while its cell ran: the handler never
returns and keeps the mutex. `acked` and `handles` are observations: what replies
have said. Host effects during a replay are in `HostCalls`, the encoding in
`ImageChain`.

### HostFs

Each write has a fresh number and a body is the sequence of the writes it is made
of, so an append keeps what was there and a replacement does not. `bucket` and
`rows` are the two stores; `job` is the mutex owner (a cell, its flush path by
path, the export, or a reconciliation), `frames` the vfs-write handlers, which
interleave with it at every await. A checkpoint is the commit of its transaction;
the rest of it is in `KernelSnapshots`.

### EvalQueue and WsTransport

A frame carries its request `<<client, n>>` (the reqId) and its socket
`<<client, k>>`. `queue` holds the permits, owner first. `rows` is `eval_replies`
with its limit. The replies carry the request they answer as an observation only:
the transport cannot see it, and resolves whatever is pending, as `onMessage` does.
`listening` is the set of sockets our handlers are attached to, which differs from
the current socket exactly when something went wrong. `EventGap` allows a socket's
`readyState` to leave OPEN some time before its close event. `Evict` takes `glue`
without the mutex; `ExecuteEvicted` is what the parked cell then comes back to: a
buffered cell answers as usual, an eager one runs into the `unwrap` in
`checkpoint_impl` and is `"trapped"`: its permit and the mutex are held until the
isolate goes away. (`KernelSnapshots` has the same as `EvalTraps`.)

### HostCalls

The engine parks on one host call at a time. A cell is a sequence of calls chosen
from `Kinds`, each charged to its class's budget (`Budget`, per cell, with the
code's `<=`); the glue serves it, records the result, and resumes the engine. The
client bridge keeps its pending calls by sequence number; `ResolveHostCall` models
a hostcall-result frame with any known number, late and duplicated ones included,
`HostCallTimeout` the timer. `CellEnds` runs the sweep of streams and writes the
journal; `Evict` drops the memory, `RestoreImage` and `ReplayCell` are the two
ways back, and a replay feeds the recorded results. `Reset` empties journal and
snapshot and starts the cell numbers again, while the fence has no `epoch`; `epoch`
and `done` (the cells ever committed) are observations. Streams are counted in units
of `STREAM_CHUNK_BYTES`, with the leftover that a read keeps.

### Sockets and VmWebSocket

`net` is everything the shim keeps in the VM heap (sockets, queued turns, the tail
of host calls): it is what a snapshot saves. `table`, `nextId` and `conn` belong to
the instance and die with it. While a call is parked no VM code runs. In
`VmWebSocket`, `reg` is the glue's queue with its limit and `droppedThrough`, `vm`
the handle and cursor in the heap.

### The machines of MCGlueData

- `ImageChain`: an image is a sequence of bytes; `Changed` is the grain diff,
  `DumpW4` the choice of encoding and the size gates, `Restart` a restore by the
  same or another build.
- `Egress`: `NormalizeV4`, `ParseV6`, `IsPrivateV4`, `IsBlockedV6` are operators;
  `ClassifiedByAddress` compares them with the documented address blocks over all
  spellings of an address (TLC takes all 65536 pairs of first octets). `FetchPrep`
  and `Follow` are the hops.
- `SessionSetup`: the config a frame persists, what each way of coming up applies.
- `EngramFs`: `Resolve` is the path algebra; `Put`, `Upsert`, `Bump` the three
  awaits of a write, for two callers and the gateway; `Rejects` ends a call at any of
  them, and what it had changed stays. `landed` and `torn` are observations: what a
  call, and the calls that rejected, changed since the version rose last.
- `Sandbox`: `CheckMount`, `ClearSeed`, `MountBucket` per request, then the
  operation; `MountSwallowed` is a mount error the worker ignores, after which the
  operation runs on whatever is at `/workspace`. `cache` is what s3fs keeps to itself
  of a file: a write to be uploaded later (`Uploads`) or a body it read before.
  `KernelWrites` is the kernel on the same prefix. `adrift` is an observation: files
  whose last acknowledged body s3fs, or the disk of an unmounted container, has and
  R2 has not.
- `SdkFiles`: one action per frame of a transfer, which may be lost before or after
  it was applied, and whose GET may fail (`unread`), which `vfs_write` takes for an
  empty file.
- `SdkSession`: bootstrap on every (re)connect, ctx, host modules, finals. The cell of
  a `ctx.set` commits, or runs and fails its checkpoint, or is refused; `ctx.set`
  resolves in each case. `unkept` is an observation: the keys whose last set did not
  commit.
- `EngramClient`: registered sessions and connects under way.
- `R2Breaker`: attempts with their age, the counter, what is left of the cool-down.

### Supervisor and Gate

Time is kept as ages with a saturating bound, one unit being the sweep interval
(shard) or a validation (gate). `AlarmFires` takes the rows of the sweep,
`SweepPinged` is the return of one awaited ping, and requests arrive in between.
`Gate` follows `resolveCredential` await by await: cache look-up, WorkOS call, JWKS
fetch and import key by key, with the cache's limit and TTL.

## 3. Runs

Passing runs:

| Run | Bounds | States | Shows |
|---|---|---|---|
| `snapshots` | one build, reliable R2, artifacts, 4 evals, 1 reset, BaseEvery 3, fairness | 955k | acknowledged = restored; refinement of `DurableSession`; artifact handles serve their own cell; dirty sessions settle |
| `snapshots_faults` | two builds, R2 and probe faults, 3 evals | 653k | the chain survives every partial failure |
| `hostfs` | 2 paths, 1 frame writer, a container, R2 and dump faults, 3 writes, 2 cells | 6.1M | rows, bodies, flush, commit and protected acknowledgements |
| `requests` | 1 keep-alive client, 2 evals, queue of 2, evicts, crashes, fairness | 839k | at most once, own answers, final answers, queue drains (or an evict trapped its owner), every request settles |
| `hostcalls` | 2 cells, 4 calls of 11 kinds, budgets of 1, evictions, replays, 1 reset, fairness | 1.6M | calls and answers match, silent replay, whole streams, keys committed in one epoch differ, cells end |
| `channels` | 3 sockets in 2 slots, resets, 1 hibernation; a WebSocket with a queue of 2 and 4 events; fairness | 484k | order, no leak, end closes, recv returns |
| `gluedata` | nine machines, bounds in the cfg | 2.2M | one or two properties per machine |
| `cloud` | 2 facets, 3 requests; 2 concurrent validations, a cache of 1; fairness | 594k | revocation bound, hibernation, outages heal |

Why the bounds are enough. Four cells (`snapshots`) make a base, two deltas and the
forced full base at BaseEvery = 3; the three of `snapshots_faults` stop short of it,
and that the chain stays below BaseEvery is what the theorem shows for every value.
One reset makes two epochs; two builds make a migration. Two paths let a flush be interrupted between them, and
three writes by cell, frame and container cover each pair in each order. Two
requests let a late reply meet the next rpc, and with onReady's create frames they
fill a queue of two; the kind of a source only selects the wording of a replayed
reservation, which no property of `requests` looks at, so one kind is enough there
(`requests_crosstalk` has all three). With budgets of one, the second call of a
class is the one the code's `<=` lets through and the third overruns. Three sockets
in two slots meet the limit; a queue of two with four events overflows twice.
Images of up to eight bytes in grains of two have whole, partial and new grains and
reach every size gate. A cache of one entry evicts at the second credential.

Restrictions, each because the code does not have the property beyond them (the
findings in `PROJECT.json` say why):

- `snapshots` has one build, an R2 that answers and dumps that the size gates admit:
  `snapshots_replay` shows what fails without the first two, and with every shape
  allowed `ArtifactServesItsCell` fails.
- `hostfs` has `FrameWindow = "parked"`: vfs-write frames come between cells or
  while a cell waits for a host call, the case the BUG-3 fix in `flush_staged_fs`
  is about; and `GetFaults = FALSE`.
- `DirtySettles` therefore says nothing of an alarm whose flush R2 refuses; with
  `R2Faults = TRUE` it fails, which is the finding at lib.rs:620.
- With `FrameWindow = "parked"`, `ParkedAckSurvives` does not meet a frame during a
  flush (lib.rs:1288) or a listing (2235), nor one between two buffered cells.
- `QueueDrains` exempts a mutex owner that an evict frame has trapped.
- `hostcalls` has `Faults = {"evict"}`: with `"clamp"` (results too large for the
  journal) `ReplayIsSilent` fails, with `"refuse"` a cell number, and with it keys and
  stream ids, is used twice. A reset, which the run has, starts the numbers again:
  `CommittedKeysDiffer` compares the effects of one epoch.
- `channels` opens plain sockets with `allowHalfOpen = false`, so `startTls` is
  refused. With `"starttls"` among `Modes`, `NoHandleLeak` and `BytesInOrder` fail;
  with half-open sockets `BytesInOrder` fails, but only after an eviction. The
  theorems cover what lies between: sockets of the other modes, half open or not.
- `gluedata` has `Reconfigure = FALSE` (a second config is persisted but not
  applied) and one sandbox requester at a time whose `exec` does not throw.
- Exemptions of the `gluedata` properties, each an observation of the model:
  `OneSessionPerId` ids raced by closeAll; `FinalIsOwn` evals that overlapped;
  `CacheIsFresh` files a rejected call had changed (`torn`), until the version rises
  next; `SameBytes` files s3fs has yet to upload or an ignored mount took (`adrift`)
  and reads that s3fs answers by itself; `TransfersWhole` writes one of whose frames
  was not given the file by R2 (`unread`), and transfers another write overlapped;
  `CtxKeepsLatest` keys whose last set did not commit (`unkept`).
- `RequestsStayInPolicy` holds the first hop to `config.fetch` and every hop to the
  SSRF block, as the code does; a redirect may lead to a public host that is not on
  the allowlist.
- `RestoresOrRefuses` takes the checksum as telling every damage apart (it is the
  identity there), and builds only move forward.

Runs that show a disagreement between the code and what the repository says of it:

| Run | Property | What happens |
|---|---|---|
| `snapshots_replay` | RestoreRecoversCommitted | the oplog is truncated at each full base, so the "always correct" replay loses the cells before it |
| `requests_crosstalk` | RepliesMatch | a socket replaced while closing keeps its handlers; an eval is resolved with a create reply |
| `sockets_reuse` | StaleHandleFails | handle numbers restart after a hibernation; a restored socket writes into another one's connection |
| `sandbox_clear` | ClearTouchesOnlySeed | two requests on a cold container: the second clears the live mount |

Properties that are stated in the modules and that the code does not have, with the
instance that refutes them: `HostFs` `UncommittedInvisible` and `AckedFrameSurvives`
(`FrameWindow = "any"`), `WsTransport` `CheckpointMeansCommitted`, `HostCalls`
`KeyNamesOneEffect`, `OwnReply` and `CommittedKeysNeverRepeat` (a reset), `EvalQueue`'s
trap as `WsTransport` `EvictLeavesServed`, `VmWebSocket` `LossIsAnnounced`, `EngramFs`
`EveryMutationBumps` (a rejected await), `Sandbox` `OpsRunMounted` (an ignored mount
error), `SdkFiles` `WritesKeepTheRest` (a failed GET), `SdkSession` `HostSurface` and
`CtxSetPersists` (a set whose cell did not commit), `Supervisor` `EgressIsTenants` and
`AbortsOnlyIdle`;
`KernelSnapshots` `DirtySettles` with `R2Faults = TRUE` and `ArtifactServesItsCell`
with `Shapes = AllShapes`; `ReplayIsSilent` with `"clamp"`. Each has its finding.

### Fairness

- `KernelSnapshots!FairSpec`: weak fairness of `Progress` (a started job goes on:
  host calls time out after 60 s and R2 requests are bounded) and strong fairness
  of `AlarmFires` (a due alarm gets its turn on the FIFO mutex however often other
  requests come first). Nothing is assumed of clients, evicts, crashes or resets.
- `WsTransport!FairSpec`: weak fairness of `Serve` (the mutex owner's next step), of
  the client's timers (`Reopen`, `Timeout`), and of a connection attempt ending one
  way or the other. Nothing is assumed of frames, callers or the keep-alive window.
- `HostCalls!FairSpec`: the engine runs, the glue serves the parked call (its own
  effects are bounded by timers) and the time-out of a client's host call fires. No
  client ever has to answer.
- `MCChannels!FairSpec`: queued turns run, parked calls are served, and a peer
  eventually closes its connection. The last is an assumption on the environment:
  a TCP read has no time-out in `host-sockets.mjs`, and net.js leaves it to its
  caller that the peer closes. For the WebSocket only the VM's own receive and its
  idle deadline are fair.
- `MCCloud!FairSpec`: a due alarm fires, pings return, validations proceed, time
  passes.

`channels`, `gluedata`, `cloud`, `sockets_reuse` and `sandbox_clear` switch deadlock
checking off: their machines end when the bounded number of calls, frames or
requests is used up. In the other runs it is on.

## 4. Proofs

Every theorem holds for every value of the constants that the named assumptions of
its modules allow (types and positive limits: `ConstantsAssumption`,
`HostFsAssumption`, `QueueAssumption` and so on, which TLC evaluates in the runs).
Where a theorem has a hypothesis of its own it is an ASSUME in its statement; each
of them is met by the passing run of the same property, and is there because the
code does not have the property without it. The theorems about machines that a run
puts side by side are about that machine's own specification (`BreakerSpec`,
`SandboxSpec`, `EgressSpec`, `SetupSpec`, `FsSpec`, `UpSpec`, `ClientSpec`,
`SessionSpec`, `ImageSpec`, `SocketsSpec`, `WsSpec`, `GateSpec`), whose steps are the
ones the run takes.

Each proof module has the same shape: the inductive invariant as a conjunction of
named parts at the top, lemmas about the operators, one lemma per action (or per
shape that several actions share), and the theorems, which combine them BY PTL.

Folds. The models compute with `FoldLeft` over queues, paths, frames and delta
chains, and what a fold computes for every sequence takes induction, whose library
theorems have an operator as a parameter. `FoldTheorems` states it with a set
instead (`SetInduction`, by a pigeonhole argument) and shows that the recursive
function behind a fold exists and what each of its steps is; the proofs then take
the prefixes of the folded sequence one by one.

### Snapshots

`KernelSnapshotsProofs` proves `Spec => []IInv` (`SpecIInv`) and from it
`TypeCorrect`, `ChainAlwaysReconstructs`, `DeltaBaseAlwaysChainTail`,
`BaseAlwaysReadable` and the action property `CommitsMoveForward`. None of the
properties is inductive alone: that a commit extends the chain correctly depends
on what the job in progress remembers from before its awaits. So

    IInv = TypeOK /\ StoreInv /\ JobInv /\ ChainReconstructs /\ DeltaBaseIsChainTail

where `JobInv` says, for each `pc`, what the job knows (its cell is beyond
`committedCell` until the transaction, its image is the live heap if there still
is one, a delta was diffed against the committed image, an R2 base is in the
bucket before the commit) and `StoreInv` what rows and bucket say of each other
(an R2 base is named by the current epoch and a cell not beyond the committed one,
so a new base never overwrites the one in use). The proof has one lemma per action.
`TypeOK`, `DeltaBaseIsChainTail`, `BaseReadable` and `CommitMovesForward` are
proved and therefore in no run.

It also proves, under the hypothesis `NoFallback` (R2 answers,
the probe passes, one build), `AckedAlwaysSurvives`, `RestoresCommitted` and
`Refinement` (`Spec => Session!Spec`). The extra invariant is `LineageInv`: the
live heap and the image being checkpointed contain everything committed.
`NoFallback` cannot be dropped: `snapshots_replay` is the counterexample.

With `NoFallback` and `Admitted` (the size gates refuse no dump; the finding at
`lib.rs:2970` is what happens otherwise) the same module proves `ArtifactsServeTheirCell`.
`ArtifactInv` says that handles are given out for committed cells only, that the one
of the committed cell names the last cell of the committed image, and that the live
heap is that image for as long as `lastArtifactCell` is the committed cell.

### Files (`HostFsProofs`)

With no hypothesis on when clients write: `FsInvariant` (types, and `HandlerInv`:
a flush is always at a path with an operation it has taken) and
`FlushesAlwaysLive`, whose `LiveInv` says that what is staged, or on its way to
R2, was written by the heap that is live or being committed, and never by one that
was lost.

With `FrameWindow = "parked"` (vfs-write frames come between cells or while a cell
waits for the client): `ParkedFrames` (no frame is under way while a checkpoint
flushes or a listing is out), `RowAlwaysHasBody` and `CommitAlwaysPublishes`.
`RowInv` adds to `RowHasBody` what a deletion in progress and a listing on its way
back contribute: a row is gone before its body, and what a listing still shows is
still there. `HeapInv` follows each operation of the heap from staged to taken to
published. With `FrameWindow = "any"` these fail, as the findings at lib.rs:1288
and 1298 describe.

With one connection (`\A f, g \in Frames : f = g`) and `GetFaults = FALSE`:
`AckedAlwaysSurvive`. `AckInv` relates an acknowledged write to `fsVersion`, so
that a flush recognises that its file was overtaken, and to the body a frame has
read and is about to put.

### Requests (`WsTransportProofs`)

`TransportInvariant` is type correctness. `CellsRunOnce` has the hypothesis
`NoRollOver`, that `eval_replies` (256 rows in the code) holds a row per request:
a row that was pushed out no longer stops a retry, a hazard no run can reach. Its `OnceInv` says that every cell of the live or committed heap has its
reservation, one row per request, and that the owner's row is written before it
runs. No hypothesis on keep-alive, closing sockets or crashes is needed for it.

`RepliesAlwaysMatch` has `KeepAlive = TRUE`; without it `requests_crosstalk` is the
counterexample. Replies carry no id, so the argument is about sockets: `MatchInv`
says that our handlers are only on the current socket, that at most one message
(frame, queued request or reply) is under way on a socket, and that it belongs to
the request its client waits for or to a socket nobody listens to.

`AnswersAreFinal` needs both hypotheses: `FinalInv` says that a request with an
answer, delivered or not, is settled, that is reserved and not the one that runs.

### Host calls (`HostCallsProofs`)

`LoopInvariant` is `TypeInv` and `PcInv` (a call that is served has no result yet;
only the call the cell is parked on is pending at the bridge), from which
`AnswerAlwaysMatches` follows under every fault. `CommittedKeysAlwaysDiffer`, also
under every fault and any number of resets, is about effects of one epoch (across a
reset the keys repeat, `CommittedKeysNeverRepeat`) and rests on `FenceInv`: what was
sent under a key carries its own ordinal, and in its own epoch its cell's number once
that cell is committed, and the epochs that are over are settled. `ReplayAlwaysSilent`
has `"clamp" \notin Faults` (lib.rs:3376 stores oversized results as `[]`): by
`ReplayInv` the journal row of a cell has a result for each of its calls, budget
overruns included, and a replay charges the same budget at the same calls, so it
follows the row to its end.

`StreamsAlwaysDeliver` has `"clamp"` and `"refuse"` not in `Faults`: with either, two
streams may get one id. A stream's id comes from its cell and call, and what the VM
has read of it is spread over the journal, the results of the cell in progress, the
saved heap and the registry of open streams, so `StreamInv` ties the four together:
`PlaceInv` (which cell runs, and how far a replay has come along its row),
`BudgetInv` (every call that has a result was within the budgets, so a replay makes
the same calls), `RegistryInv` (what an open stream has read is what its handle has
received and the pending leftover), `Built` (the handles and reads of the heap, and
of the saved one, are those their logs have built) and `Mirrors` (a replay makes the
saved handles anew, under the same ids).

### Channels (`ChannelsProofs`)

`WebSocketDeliversInOrder` has no hypothesis. `WsInv`: frames in the queue are
numbered without gaps from what it last pushed out (`QueueInv`); every frame that was
pushed out or lies before the cursor was dispatched, or is one of the lost
(`Covers`); a parked recv waits for the next frame (`Waits`). The saved
heap is an older VM, and a wake puts it against an empty queue.

`NoHandleEverLeaks` has `"starttls" \notin Modes`: a successful upgrade gives a
socket a second handle. By `ReachInv` every host handle is within reach of the heap:
a socket that has not closed holds it, or its `close` is on the tail of calls.
`SockInv` says, per socket, which of its commands may be on the
tail in each stage of its life, and `CountInv` that the counter is the cardinality
of the sockets that hold a slot.

`BytesAlwaysInOrder` also has `TRUE \notin HalfOpen \/ MaxEvictions = 0`: a
half-open socket outlives its cell, and after an eviction its handle may name
another's connection (`sockets_reuse` shows the reuse). `ByteInv` adds what each
wire carries (`Wires`: a handle names a connection of its own socket, the peer has
a prefix of what that socket wrote, the rest is on the tail or still in the
socket), what was delivered (`GotInv`, `RxOk`) and that a saved heap is `Quiet`:
no call, no turn, no live handle.

### SDK (`GlueDataProofs`)

`OneConnectionPerId`: `RegistryInv` (what the two maps name) and `OwnedInv`, its
converse (every connect under way is the pending one, every open connection the
registered one, for ids that no closeAll raced). `CtxAlwaysLatest` and
`FinalAlwaysOwn`: `CtxInv` (heap and snapshot have the value the user expects of every
key whose last set committed) and
`FinalInv` (an eval that shared its session with nobody is the only one asked, and
`captureFinal` holds what its cell sent). No hypotheses.

`TransfersAlwaysWhole` is about writes whose frames R2 gave the file to (a failed GET
zeroes what was there, `WritesKeepTheRest`), and has `TruncatesAtStart` (a write that truncates starts at
offset 0; at another offset the first frame replaces the file by its own bytes and
the later ones are spliced behind a gap of zeros). `UpInv` follows each transfer
that no other write overlaps, frame by frame: the frames still to come cut the
rest of the data (`CallOk`, from a lemma on how the input is cut), and the file is
what it was with the part already sent spliced in; for a read, what was collected
is the part of the file up to the offset. `AloneInv` says that nobody else is
writing then.

### Glue and sandbox (`GlueDataProofs`)

| Theorem | Invariant and why |
|---|---|
| `BreakerAlwaysHeals` | `AttemptInv`, `CooldownInv`: an attempt R2 will never answer is older than the recovery and younger than a time-out, so the last cool-down it can start ends in time |
| `SandboxSameBytes` | `MountInv`: between the check and the mount nothing is mounted. Hypotheses: one request at a time (`sandbox_clear` is the counterexample) and `"exec" \notin SbFaults` (a check that throws counts as not mounted). Mounts may be ignored and s3fs may lag: every file is what was acknowledged or `adrift`, and a file s3fs holds unsent is |
| `EgressStaysInPolicy` | `HopInv`: the hop counter counts the requests that left. The first hop is permitted by `config.fetch`; all hops are outside the SSRF block, and only that |
| `ConfigAlwaysSurvives` | `SetupInv`: a live kernel is as its config says and the snapshot holds what a restore seeds on. Hypothesis `~Reconfigure` (a second config is persisted and not applied) |
| `CacheAlwaysFresh` | `SeenInv`: no reader has seen a version that is yet to come; `StaleInv`: a stale file is accounted for by the gateway, by a call under way that has changed it, or by one that rejected |
| `PathsStayUnderRoot`, `KeysAlwaysUnderRoot` | the first is about `Resolve` alone: paths of any length over any names are refused exactly if a prefix climbs above the root, and by induction along the path the depth of what was resolved so far is names less climbs; the second applies it to the paths of `FsSpec` |
| `SpellingsAgree`, `AlwaysClassified` | the first is about the classification alone, for all four octets: one lemma per number of parts (what `NormalizeV4` makes of it), one per IPv6 form (where `ParseV6` puts the zeros and the tail), and `PrivateIsInBlock`, which compares the ranges with the blocks; the second applies it to `EgressSpec` |
| `AlwaysRestoresOrRefuses` | `ImageInv`: the rows stand for a chain of images that ends in the committed one, each delta carrying what the next image changed (unless the rows were damaged, when lengths and CRCs still tell, the CRC being taken as the identity); the retained image is the committed one; a dump on its way is the next. Rebuilding goes along the chain by induction, each delta by a fold over its grains |

### Credential gate (`CloudProofs`)

`RevocationAlwaysBound`, with no hypothesis on WorkOS, its keys, the cache's size or
the number of concurrent requests. `GateInv` measures everything by the age of the
revocation: an accepted cache entry that still has time left was valid at most
`CACHE_TTL - left + MaxLatency` ago, an accepted validation in progress at most the
age of its request ago, and a request that came late is about a credential gone
longer than both together.

### Only model-checked

- Liveness under fairness, which is outside the prover's reach: `DirtySettles`,
  `QueueDrains`, `RequestSettles`, `CellTerminates`, `EndCloses`, `RecvReturns`,
  `Hibernates`, `OutageHeals`.
- The properties of the four runs that expect a violation, and the properties that
  section 3 lists as stated and not held by the code.
- Theorems with a hypothesis say nothing beyond it; each hypothesis is named with its
  theorem above.

## 5. Plan

Done: all models of the inventory, and a theorem for every safety property of the
passing runs. The parts of section 6 are what a further model could add, the limit
of `eval_replies` (a hazard no run reaches) first.

## 6. Not modelled

- The REPL transform and the QuickJS engine: a compiler pass and a virtual machine.
  Of the engine only the WebSocket class of its bootstrap is modelled.
- The compressors of the codec (taken as lossless and tagged), URL parsing (taken
  from the platform), hashes and signatures (abstract).
- The kernel's auth gate: one guard on the socket's own attachment.
- The worker registry's code runs in another isolate; its effect on the session's
  files is in `HostFs` and `EngramFs`.
- Usage counters, session sharing and the /connect proxy of the supervisor; typed
  errors and the Effect adapter of the SDK; outgoing WebSocket frames: they keep no
  state that another step reads.
- `eval_replies` overflowing its 256 rows within one retry window, and reset's wipe
  of it.
- CLI and UI: presentation. Vendored code, benchmarks and stress scripts.

`PROJECT.json` lists every component with its status and reason.
