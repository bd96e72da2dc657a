------------------------------ MODULE EngramFs ------------------------------
(***************************************************************************)
(* The @engram/fs package (packages/engram-fs/src): the resolution of a    *)
(* path to its object key, which every file surface of a session shares    *)
(* (keys.ts; VfsGateway of apps/kernel/entry.ts goes through it too), and  *)
(* the EngramFs class over an R2 bucket and a manifest, whose methods are  *)
(* async: each await lets another call in, and each may reject.            *)
(*                                                                         *)
(* A path is a sequence of segments, absolute or relative.  Bodies are     *)
(* small numbers; 0 is no object.                                          *)
(***************************************************************************)
EXTENDS Integers, Sequences, FiniteSets, SequencesExt

CONSTANTS
    FsPaths,        \* the paths calls name: [abs, segs]
    FsSegments,     \* the segments of the paths that are only resolved
    FsCallers,      \* concurrent callers of one EngramFs
    FsCalls         \* bound: calls made

VARIABLE fs
    \* cwd, staged, bucket, rows, version; calls: what each caller is doing;
    \* foreign: objects written past the manifest; made; seen: observation,
    \* what a version-keyed read cache holds; torn: observation, the files
    \* that a rejected call had changed, until the version rises next;
    \* probe: a path only resolved

Here == {"", "."}
Parent == ".."

(* No resolved path has a ".." in it.                                      *)
FsError == <<Parent>>

-----------------------------------------------------------------------------
(* normalizeSegments: "" and "." vanish, ".." pops, never below the root.  *)
NormalizeSegments(segs) ==
    FoldLeft(LAMBDA out, seg :
                IF out = FsError \/ seg \in Here THEN out
                ELSE IF seg # Parent THEN Append(out, seg)
                ELSE IF out = <<>> THEN FsError ELSE Front(out),
             <<>>, segs)

(* One leading /workspace is the root itself.                              *)
StripWsPrefix(segs) == IF segs # <<>> /\ Head(segs) = "workspace" THEN Tail(segs) ELSE segs

(* Mutant: a relative path forgets the working directory.                  *)
ResolveFromRoot(path, cwd) == NormalizeSegments(StripWsPrefix(path.segs))

(* resolve: root-relative with a leading slash, else under the cwd (which  *)
(* is a resolved path).  The result is the part of the key after           *)
(* fs/<doId>/.                                                             *)
Resolve(path, cwd) ==
    IF path.abs THEN NormalizeSegments(StripWsPrefix(path.segs))
    ELSE NormalizeSegments(cwd \o path.segs)

(* liveKey: a file key; the bare root is a directory.                      *)
LiveKey(rel) ==
    LET p == Resolve([abs |-> FALSE, segs |-> rel], <<>>) IN IF p = <<>> THEN FsError ELSE p

(* Bound: working directories are the root and what a path names from it.  *)
Cwds == ({<<>>} \cup {Resolve(q, <<>>) : q \in FsPaths}) \ {FsError}
Files == {Resolve(p, c) : p \in FsPaths, c \in Cwds} \ {FsError, <<>>}

-----------------------------------------------------------------------------
\* landed: observation, what the call changed since the version rose last.
Rest == [pc |-> "idle", rel |-> <<>>, body |-> 0, todo |-> <<>>, flush |-> FALSE, landed |-> {}]

NoProbe == [path |-> [abs |-> FALSE, segs |-> <<>>], cwd |-> <<"none">>]
Probes == [path : [abs : BOOLEAN, segs : BoundedSeq(FsSegments, 3)],
           cwd : {Resolve([abs |-> TRUE, segs |-> q], <<>>) : q \in BoundedSeq(FsSegments, 2)} \ {FsError}]

FsInit(probe) ==
    fs = [probe |-> probe, foreign |-> FALSE, cwd |-> <<>>, staged |-> [f \in Files |-> 0], bucket |-> [f \in Files |-> 0],
          rows |-> [f \in Files |-> 0], version |-> 0, calls |-> [c \in FsCallers |-> Rest],
          torn |-> {}, made |-> IF probe = NoProbe THEN 0 ELSE FsCalls,
          seen |-> [f \in Files |-> [version |-> -1, body |-> 0]]]

Starts(c) == fs.calls[c].pc = "idle" /\ fs.made < FsCalls
Moves(c, call) == [fs EXCEPT !.calls[c] = call, !.made = @ + 1]

Chdir(p) ==
    /\ fs.made < FsCalls /\ Resolve(p, fs.cwd) \in Cwds
    /\ fs' = [fs EXCEPT !.made = @ + 1, !.cwd = Resolve(p, fs.cwd)]

(* writeFile, mode direct: the body, the row, the version.  A path that    *)
(* does not resolve to a file throws and does nothing.                     *)
WriteDirect(c, p) ==
    LET rel == Resolve(p, fs.cwd) IN
    /\ Starts(c) /\ rel \in Files
    /\ fs' = Moves(c, [pc |-> "put", rel |-> rel, body |-> fs.made + 1, todo |-> <<>>, flush |-> FALSE,
                       landed |-> {}])

(* writeFile, mode txn, and stageWrite.                                    *)
StageWrite(p) ==
    LET rel == Resolve(p, fs.cwd) IN
    /\ fs.made < FsCalls /\ rel \in Files
    /\ fs' = [fs EXCEPT !.staged[rel] = fs.made + 1, !.made = @ + 1]

DiscardStaged ==
    /\ fs.made < FsCalls
    /\ fs' = [fs EXCEPT !.staged = [f \in Files |-> 0], !.made = @ + 1]

(* flushStaged: the staged writes as they are now, one after the other.    *)
FlushStaged(c) ==
    LET writes == {f \in Files : fs.staged[f] # 0}
        order == SetToSeq({[rel |-> f, body |-> fs.staged[f]] : f \in writes}) IN
    /\ Starts(c) /\ writes # {}
    /\ fs' = Moves(c, [pc |-> "put", rel |-> Head(order).rel, body |-> Head(order).body,
                       todo |-> Tail(order), flush |-> TRUE, landed |-> {}])

(* The call has changed an object: the manifest is next.                   *)
Lands(call, key) == [call EXCEPT !.pc = "upsert", !.landed = @ \cup {key}]

(* commitOne: r2.put at the live key ...                                   *)
Put(c) ==
    LET call == fs.calls[c]
        key == LiveKey(call.rel) IN
    /\ call.pc = "put"
    /\ fs' = [fs EXCEPT !.bucket[key] = call.body, !.calls[c] = Lands(call, key)]

NextWrite(call) ==
    [call EXCEPT !.pc = "put", !.rel = Head(call.todo).rel, !.body = Head(call.todo).body,
                 !.todo = Tail(call.todo)]

(* Mutant: a direct write does not bump the version.                       *)
UpsertNoBump(c) ==
    LET call == fs.calls[c] IN
    /\ call.pc = "upsert"
    /\ fs' = [fs EXCEPT !.rows[call.rel] = call.body,
                        !.calls[c] = IF ~call.flush THEN Rest
                                     ELSE IF call.todo = <<>> THEN [call EXCEPT !.pc = "bump"]
                                     ELSE NextWrite(call)]

(* ... then the manifest row; the next staged write, if any.               *)
Upsert(c) ==
    LET call == fs.calls[c] IN
    /\ call.pc = "upsert"
    /\ fs' = [fs EXCEPT !.rows[call.rel] = call.body,
                        !.calls[c] = IF call.todo = <<>> THEN [call EXCEPT !.pc = "bump"]
                                     ELSE NextWrite(call)]

(* The version rises: what was changed before it is read again.            *)
Settled == [c \in FsCallers |-> [fs.calls[c] EXCEPT !.landed = {}]]

(* flushStaged clears the staged map before it raises the version.         *)
StagedAfter(call) == IF call.pc = "bump" /\ call.flush THEN [f \in Files |-> 0] ELSE fs.staged

Bump(c) ==
    LET call == fs.calls[c] IN
    /\ call.pc = "bump"
    /\ fs' = [fs EXCEPT !.version = @ + 1, !.torn = {}, !.calls = [Settled EXCEPT ![c] = Rest],
                        !.staged = StagedAfter(call)]

(* The await of a put, a delete, a row or the version rejects: the method  *)
(* throws, whatever it has changed stays, and no version is raised.  (A    *)
(* put or a delete that takes place and still rejects is Put or Unput, and *)
(* this.)                                                                  *)
Rejects(c) ==
    LET call == fs.calls[c] IN
    /\ call.pc # "idle"
    /\ fs' = [fs EXCEPT !.calls[c] = Rest, !.torn = @ \cup call.landed, !.staged = StagedAfter(call)]

(* deleteFile: unstaged at once; the object, the row, the version.         *)
DeleteFile(c, p) ==
    LET rel == Resolve(p, fs.cwd) IN
    /\ Starts(c) /\ rel \in Files
    /\ fs' = [Moves(c, IF fs.rows[rel] = 0 THEN Rest
                       ELSE [pc |-> "unput", rel |-> rel, body |-> 0, todo |-> <<>>, flush |-> FALSE,
                             landed |-> {}])
              EXCEPT !.staged[rel] = 0]

Unput(c) ==
    /\ fs.calls[c].pc = "unput"
    /\ fs' = [fs EXCEPT !.bucket[fs.calls[c].rel] = 0, !.calls[c] = Lands(fs.calls[c], fs.calls[c].rel)]

(* readFile by a reader that keys its cache by fsVersion.                  *)
ReadFile(f) ==
    /\ fs.rows[f] # 0 /\ fs.seen[f].version # fs.version
    /\ fs' = [fs EXCEPT !.seen[f] = [version |-> fs.version, body |-> fs.bucket[f]]]

(* VfsGateway.writeFile and deleteFile: the object only; the kernel's      *)
(* reconcile_fs_files takes the rows up from a listing after the invoke.   *)
GatewayWrites(p, body) ==
    LET rel == Resolve(p, <<>>) IN
    /\ fs.made < FsCalls /\ rel \in Files
    /\ fs' = [fs EXCEPT !.bucket[rel] = IF body THEN fs.made + 1 ELSE 0, !.made = @ + 1,
                        !.foreign = TRUE]

GatewayReconciled ==
    /\ fs.foreign
    /\ fs' = [fs EXCEPT !.rows = fs.bucket, !.version = @ + 1, !.foreign = FALSE, !.torn = {},
                        !.calls = Settled]

FsNext ==
    \/ \E c \in FsCallers : Put(c) \/ Upsert(c) \/ Bump(c) \/ Rejects(c) \/ Unput(c) \/ FlushStaged(c)
    \/ \E c \in FsCallers, p \in FsPaths : WriteDirect(c, p) \/ DeleteFile(c, p)
    \/ \E p \in FsPaths : Chdir(p) \/ StageWrite(p) \/ \E body \in BOOLEAN : GatewayWrites(p, body)
    \/ DiscardStaged \/ GatewayReconciled
    \/ \E f \in Files : ReadFile(f)

FsSpec == (\E probe \in {NoProbe} \cup Probes : FsInit(probe)) /\ [][FsNext]_fs

-----------------------------------------------------------------------------
FsTypeOK ==
    /\ fs.cwd \in Cwds
    /\ \A f \in Files : {fs.staged[f], fs.bucket[f], fs.rows[f]} \subseteq 0..FsCalls

Ups(segs) == Cardinality({i \in 1..Len(segs) : segs[i] = Parent})
Names(segs) == Cardinality({i \in 1..Len(segs) : segs[i] \notin Here \cup {Parent}})

(* A path is refused exactly when some prefix of it climbs above the       *)
(* session's root; otherwise its key has no dots, is as deep as its names  *)
(* less its climbs, starts with the working directory's segments it did    *)
(* not climb, and resolving it again changes nothing (commitOne passes a   *)
(* resolved path through liveKey again) (keys.ts:38-92, 139-145).          *)
StaysUnderRoot(p, cwd) ==
    LET all == IF p.abs THEN StripWsPrefix(p.segs) ELSE cwd \o p.segs
        rel == Resolve(p, cwd) IN
    /\ (rel = FsError) = \E i \in 0..Len(all) : Ups(SubSeq(all, 1, i)) > Names(SubSeq(all, 1, i))
    /\ rel # FsError =>
        /\ Ups(rel) = 0 /\ Names(rel) = Len(rel) /\ Len(rel) = Names(all) - Ups(all)
        /\ ~p.abs /\ Ups(p.segs) = 0 => IsPrefix(cwd, rel)
        /\ rel # <<>> => LiveKey(rel) = rel

(* That, of the path and the working directory a behaviour asks about.     *)
KeysStayUnderRoot == fs.probe # NoProbe => StaysUnderRoot(fs.probe.path, fs.probe.cwd)

(* Once every call has returned, a body read under the present version is  *)
(* the body ("EVERY durable write bumps fsVersion", index.ts:143): a cache *)
(* keyed by fsVersion never serves a stale body to a reader that comes     *)
(* after the writes, even if it read in the middle of them; only a file    *)
(* that a rejected call had changed is stale, and no longer than to the    *)
(* next change of the version.                                             *)
Returned == (\A c \in FsCallers : fs.calls[c].pc = "idle") /\ ~fs.foreign
Fresh(f) == fs.seen[f].version = fs.version => fs.seen[f].body = fs.bucket[f]
CacheIsFresh == Returned => \A f \in Files \ fs.torn : Fresh(f)

(* Not of all files: "Every durable mutation bumps `fsVersion` (so a read  *)
(* cache can never serve stale bytes" (index.ts:10-11) forgets a flush     *)
(* whose second put rejects when the first has landed, a row that rejects  *)
(* after its put.  It does not hold.                                       *)
EveryMutationBumps == Returned => \A f \in Files : Fresh(f)

=============================================================================
