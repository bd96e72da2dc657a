------------------------------ MODULE Sandbox ------------------------------
(***************************************************************************)
(* The sandbox worker (apps/sandbox/src/index.ts): a container per session *)
(* whose /workspace is an s3fs mount of the session's R2 prefix, the same  *)
(* objects host.fs serves.  Requests come from a running cell              *)
(* (kernel-glue.ts, _doSandbox: one at a time, under the eval mutex), from *)
(* the SDK's session.sandbox frames (no mutex) and from the stand-alone    *)
(* SandboxClient; each request mounts first, in four awaited steps.        *)
(*                                                                         *)
(* A body is a number; 0 is no file.  A shell command or a git checkout is *)
(* what it does to a file.                                                 *)
(***************************************************************************)
EXTENDS Integers, FiniteSets

CONSTANTS
    SbRequesters,   \* who may have a request in progress, one each
    SbFiles,        \* names under /workspace
    SbFaults,       \* subset of {"exec", "swallow", "lag"}: sandbox.exec throws; a mount
                    \* that did not come up is ignored; s3fs is not coherent
    SbMade          \* bound: requests and kernel writes

VARIABLE sb
    \* r2: the objects; disk: the container's own /workspace; mounts: how many
    \* s3fs mounts are stacked on it; cache: what s3fs holds of a file by
    \* itself, a write it has not uploaded (dirty) or a body it read before;
    \* reqs; made; want: observation, the body last acknowledged for each file;
    \* adrift: observation, the files of which s3fs, or no mount at all, took
    \* the last acknowledged body and R2 has not got it; wiped: observation,
    \* objects a clear removed; misread: observation, a read through the mount
    \* that missed an acknowledged body

SbOps == {"write", "delete", "read", "mount", "unmount", "expose"}
Quiet == [pc |-> "idle", op |-> "none", file |-> "none", body |-> 0, bare |-> FALSE]
NoFiles == [f \in SbFiles |-> 0]
SeedFiles == [f \in SbFiles |-> -1]    \* the image's own files, under any name
Held(body, dirty) == [body |-> body, dirty |-> dirty]
NotHeld == Held(-2, FALSE)
NoCache == [f \in SbFiles |-> NotHeld]

SandboxInit ==
    sb = [r2 |-> NoFiles, disk |-> SeedFiles, mounts |-> 0, cache |-> NoCache, reqs |-> [w \in SbRequesters |-> Quiet],
          made |-> 0, want |-> NoFiles, adrift |-> {}, wiped |-> {}, misread |-> FALSE]

-----------------------------------------------------------------------------
(* What a process in the container sees at /workspace/f.                   *)
Seen(f) ==
    IF sb.mounts = 0 THEN sb.disk[f]
    ELSE IF sb.cache[f] # NotHeld THEN sb.cache[f].body ELSE sb.r2[f]

(* fetch: an authorised request for a valid session, routed by its path.   *)
(* /unmount and /expose do not mount.                                      *)
SbRequest(w, op, f) ==
    /\ sb.reqs[w].pc = "idle" /\ sb.made < SbMade
    /\ sb' = [sb EXCEPT !.made = @ + 1,
                        !.reqs[w] = [pc |-> IF op \in {"unmount", "expose"} THEN "op" ELSE "check",
                                     op |-> op, file |-> f,
                                     body |-> IF op = "write" THEN sb.made + 1 ELSE 0,
                                     bare |-> FALSE]]

(* Mutant: the worker mounts on every request, as it once did.             *)
CheckMountNever(w, throws) ==
    /\ sb.reqs[w].pc = "check"
    /\ sb' = [sb EXCEPT !.reqs[w].pc = "clear"]

(* ensureSessionMount: mountpoint -q; a check that throws counts as "not   *)
(* mounted".                                                               *)
CheckMount(w, throws) ==
    /\ sb.reqs[w].pc = "check"
    /\ throws => "exec" \in SbFaults
    /\ sb' = [sb EXCEPT !.reqs[w].pc = IF sb.mounts > 0 /\ ~throws THEN "op" ELSE "clear"]

(* rm -rf of everything under /workspace, whatever is there by now; its    *)
(* failure is ignored.                                                     *)
ClearSeed(w, throws) ==
    /\ sb.reqs[w].pc = "clear"
    /\ throws => "exec" \in SbFaults
    /\ sb' = IF throws THEN [sb EXCEPT !.reqs[w].pc = "mount"]
             ELSE IF sb.mounts > 0
             THEN [sb EXCEPT !.reqs[w].pc = "mount", !.r2 = NoFiles, !.cache = NoCache,
                             !.wiped = @ \cup {f \in SbFiles : sb.r2[f] # 0}]
             ELSE [sb EXCEPT !.reqs[w].pc = "mount", !.disk = NoFiles]

(* mountBucket with nonempty: stacks on what is there, and what the mount  *)
(* below had not uploaded is lost.                                         *)
MountBucket(w) ==
    /\ sb.reqs[w].pc = "mount"
    /\ sb' = [sb EXCEPT !.mounts = @ + 1, !.cache = NoCache, !.reqs[w].pc = "op"]

(* A genuine failure answers 500; one whose message says "already          *)
(* mounted", "mountpoint busy" or "is not empty" is ignored, and the       *)
(* operation proceeds although this request has mounted nothing.           *)
MountFails(w) ==
    /\ sb.reqs[w].pc = "mount"
    /\ sb' = [sb EXCEPT !.reqs[w] = Quiet]

MountSwallowed(w) ==
    /\ sb.reqs[w].pc = "mount" /\ "swallow" \in SbFaults
    /\ sb' = [sb EXCEPT !.reqs[w].pc = "op", !.reqs[w].bare = TRUE]

(* The operation itself, and its answer.  Without a mount it is the        *)
(* container's disk; s3fs may keep a write for later.                      *)
WriteOrDelete(w, keeps) ==
    LET q == sb.reqs[w]
        done == [sb EXCEPT !.want[q.file] = q.body, !.reqs[w] = Quiet] IN
    /\ q.pc = "op" /\ q.op \in {"write", "delete"}
    /\ q.op = "delete" => Seen(q.file) # 0
    /\ keeps => "lag" \in SbFaults /\ sb.mounts > 0
    /\ sb' = IF sb.mounts = 0
             THEN [done EXCEPT !.disk[q.file] = q.body,
                               !.adrift = IF q.bare THEN @ \cup {q.file} ELSE @]
             ELSE IF keeps
             THEN [done EXCEPT !.cache[q.file] = Held(q.body, TRUE), !.adrift = @ \cup {q.file}]
             ELSE [done EXCEPT !.r2[q.file] = q.body, !.cache[q.file] = NotHeld,
                               !.adrift = @ \ {q.file}]

(* s3fs uploads what it kept, or forgets a body it had read.               *)
Uploads(f) ==
    LET held == sb.cache[f] IN
    /\ held # NotHeld
    /\ sb' = IF held.dirty
             THEN [sb EXCEPT !.r2[f] = held.body, !.cache[f] = NotHeld,
                             !.adrift = IF held.body = sb.want[f] THEN @ \ {f} ELSE @]
             ELSE [sb EXCEPT !.cache[f] = NotHeld]

(* Is the answer to a read owed to s3fs, or to a mount that was ignored?   *)
Excused(q) == sb.cache[q.file] # NotHeld \/ q.file \in sb.adrift \/ (q.bare /\ sb.mounts = 0)

ReadBack(w) ==
    LET q == sb.reqs[w] IN
    /\ q.pc = "op" /\ q.op = "read"
    /\ sb' = [sb EXCEPT !.misread = @ \/ (Seen(q.file) # sb.want[q.file] /\ ~Excused(q)),
                        !.reqs[w] = Quiet]

OtherOp(w) ==
    LET q == sb.reqs[w]
        unmounts == q.op = "unmount" /\ sb.mounts > 0 IN
    /\ q.pc = "op"
    /\ q.op \in {"mount", "unmount", "expose"} \/ (q.op = "delete" /\ Seen(q.file) = 0)
    /\ sb' = [sb EXCEPT !.mounts = IF unmounts THEN @ - 1 ELSE @,
                        !.cache = IF unmounts THEN NoCache ELSE @, !.reqs[w] = Quiet]

(* The container sleeps or dies: its disk is the image's again, the mount  *)
(* is gone with what it had not uploaded, and the requests it was serving  *)
(* fail.                                                                   *)
ContainerGone ==
    /\ sb.mounts > 0 \/ sb.disk # SeedFiles
    /\ sb' = [sb EXCEPT !.disk = SeedFiles, !.mounts = 0, !.cache = NoCache,
                        !.reqs = [w \in SbRequesters |-> Quiet]]

(* host.fs writes or deletes through the kernel.  s3fs may still hold the  *)
(* body of before; one it has yet to upload will replace this one.         *)
KernelWrites(f, deletes, holds) ==
    LET body == IF deletes THEN 0 ELSE sb.made + 1
        held == sb.cache[f] # NotHeld IN
    /\ sb.made < SbMade
    /\ holds => "lag" \in SbFaults /\ sb.mounts > 0 /\ ~held
    /\ sb' = [sb EXCEPT !.made = @ + 1, !.r2[f] = body, !.want[f] = body,
                        !.cache[f] = IF holds THEN Held(sb.r2[f], FALSE) ELSE @,
                        !.adrift = IF held THEN @ ELSE @ \ {f}]

SandboxNext ==
    \/ \E w \in SbRequesters :
        \/ \E op \in SbOps, f \in SbFiles : SbRequest(w, op, f)
        \/ \E throws \in BOOLEAN : CheckMount(w, throws) \/ ClearSeed(w, throws)
        \/ \E keeps \in BOOLEAN : WriteOrDelete(w, keeps)
        \/ MountBucket(w) \/ MountFails(w) \/ MountSwallowed(w) \/ ReadBack(w) \/ OtherOp(w)
    \/ ContainerGone
    \/ \E f \in SbFiles : \/ Uploads(f)
                          \/ \E deletes, holds \in BOOLEAN : KernelWrites(f, deletes, holds)

SandboxSpec == SandboxInit /\ [][SandboxNext]_sb

-----------------------------------------------------------------------------
(* The kernel's files and the container's are the same bytes: with one     *)
(* request at a time, every acknowledged write or delete, from either      *)
(* side, is what R2 holds, unless s3fs keeps it or no mount took it, and   *)
(* what a read through the mount returns, unless s3fs answers it by        *)
(* itself; across container sleeps, unmounts, remounts and failed mounts,  *)
(* and the image's seed never shows (index.ts, header and                  *)
(* ensureSessionMount).                                                    *)
SameBytes == (\A f \in SbFiles \ sb.adrift : sb.r2[f] = sb.want[f]) /\ ~sb.misread

(* Not of every request: "Already-mounted (or an idempotent re-mount of    *)
(* the same path) is fine" (index.ts:154) is decided by the message alone, *)
(* and a request whose mount did not come up writes to the container's     *)
(* disk, which the next request clears.  It does not hold.                 *)
OpsRunMounted ==
    \A w \in SbRequesters :
        sb.reqs[w].pc = "op" /\ sb.reqs[w].op \notin {"unmount", "expose"} => sb.mounts > 0

(* Clearing the image's seed never removes a durable file                  *)
(* (ensureSessionMount: "clearing them is safe and never touches durable   *)
(* data").                                                                 *)
ClearTouchesOnlySeed == sb.wiped = {}

=============================================================================
