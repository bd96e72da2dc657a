------------------------------ MODULE SdkFiles ------------------------------
(***************************************************************************)
(* File transfer of the SDK (packages/sdk/src/index.ts): writeFile cuts    *)
(* its input into frames that carry an absolute offset, streamReadFile and *)
(* streamArtifact ask for one window after the other.  Every frame is one  *)
(* rpc of the session's transport, so calls on one session interleave      *)
(* frame by frame; a file or artifact frame is not retried (canRetryFrame) *)
(* and its loss ends the call.  The kernel's part is vfs_write and         *)
(* vfs_read of apps/kernel/src/lib.rs; a PUT that R2 refused has not       *)
(* landed.                                                                 *)
(*                                                                         *)
(* A byte is a number that tells which call wrote it; 0 is the filler.     *)
(***************************************************************************)
EXTENDS Integers, Sequences, SequencesExt

CONSTANTS
    UpCallers,      \* concurrent callers on the session
    UpWrites,       \* the writeFile calls: [parts: lengths, offset, truncate]
    UpChunk,        \* chunkBytes
    UpArtifact,     \* length of the artifact
    UpCalls         \* bound: calls made

ASSUME SdkFilesAssumption ==
    /\ UpChunk \in Nat \ {0} /\ {UpArtifact, UpCalls} \subseteq Nat
    /\ \A w \in UpWrites : w.parts \in Seq(Nat) /\ w.offset \in Nat /\ w.truncate \in BOOLEAN

(* A truncating call starts at 0 (at another offset its frames after the   *)
(* first leave a gap of zeros).                                            *)
TruncatesAtStart == \A w \in UpWrites : w.truncate => w.offset = 0

VARIABLE up
    \* exists, body: the session's file; calls; made.  Of a call, alone and
    \* unread are observations: no other write overlapped it; R2 did not give
    \* the file to one of its frames

AtRest ==
    [pc |-> "idle", from |-> 0, frames |-> <<>>, offset |-> 0, first |-> TRUE, truncate |-> FALSE,
     written |-> 0, got |-> <<>>, base |-> <<>>, alone |-> TRUE, unread |-> FALSE, data |-> <<>>]

UpInit == up = [exists |-> FALSE, body |-> <<>>, calls |-> [c \in UpCallers |-> AtRest], made |-> 0]

Artifact == [i \in 1..UpArtifact |-> -i]

-----------------------------------------------------------------------------
(* The slices of one part ...                                              *)
Slices(bytes) ==
    [k \in 1..((Len(bytes) + UpChunk - 1) \div UpChunk) |->
        SubSeq(bytes, (k - 1) * UpChunk + 1, IF k * UpChunk < Len(bytes) THEN k * UpChunk ELSE Len(bytes))]

(* ... sendChunk: an empty part is a frame only when nothing was sent yet. *)
SendChunk(sent, part) ==
    IF part # <<>> THEN sent \o Slices(part) ELSE IF sent = <<>> THEN <<part>> ELSE sent

(* writeFile: the frames of all parts, and one that truncates if there     *)
(* would be none.                                                          *)
FramesOf(parts) ==
    LET sent == FoldLeft(SendChunk, <<>>, parts) IN IF sent = <<>> THEN << <<>> >> ELSE sent

(* The bytes of all parts.                                                 *)
Joined(parts) == FoldLeft(LAMBDA all, part : all \o part, <<>>, parts)

(* vfs_write: replace, or read the file and splice at an offset over       *)
(* zeros; a file R2 does not give (unread) counts as an empty one.         *)
Splice(base, at, new) ==
    LET end == at + Len(new) IN
    [i \in 1..(IF end > Len(base) THEN end ELSE Len(base)) |->
        IF at < i /\ i <= end THEN new[i - at] ELSE IF i <= Len(base) THEN base[i] ELSE 0]

VfsWrite(body, offset, new, truncate, unread) ==
    IF truncate THEN new ELSE Splice(IF unread THEN <<>> ELSE body, offset, new)

(* Is there anything for this frame of the call to read?                   *)
Reads(call) == up.exists /\ ~(call.first /\ call.truncate)

(* vfs_read, and artifact_critical: a window, and whether it reaches the   *)
(* end.                                                                    *)
Window(body, offset) == SubSeq(body, offset + 1, IF offset + UpChunk < Len(body) THEN offset + UpChunk ELSE Len(body))

-----------------------------------------------------------------------------
UpFree(c) == up.calls[c].pc \in {"idle", "wrote", "read", "failed"} /\ up.made < UpCalls

(* A write disturbs every call under way or just returned, and a write     *)
(* under way disturbs whatever starts.                                     *)
Starting(c, call, writes) ==
    LET busy == \E d \in UpCallers \ {c} : up.calls[d].pc = "writing" IN
    [up EXCEPT !.made = @ + 1,
               !.calls = [d \in UpCallers |->
                    IF d = c THEN [call EXCEPT !.alone = ~busy]
                    ELSE [up.calls[d] EXCEPT !.alone = @ /\ ~writes]]]

WriteFile(c, w) ==
    LET byte(p, i) == 10 * (up.made + 1) + 3 * p + i
        parts == [p \in DOMAIN w.parts |-> [i \in 1..w.parts[p] |-> byte(p, i)]] IN
    /\ UpFree(c)
    /\ up' = Starting(c, [AtRest EXCEPT !.pc = "writing", !.from = w.offset, !.offset = w.offset,
                                        !.frames = FramesOf(parts), !.truncate = w.truncate,
                                        !.base = IF w.truncate THEN <<>> ELSE up.body,
                                        !.data = Joined(parts)], TRUE)

(* Mutant: every frame carries the call's truncate flag.                   *)
WriteFrameAlwaysFirst(c, unread) ==
    LET call == up.calls[c]
        slice == Head(call.frames) IN
    /\ call.pc = "writing"
    /\ unread => Reads(call)
    /\ up' = [up EXCEPT !.exists = TRUE, !.body = VfsWrite(@, call.offset, slice, call.truncate, unread),
                        !.calls[c] = [call EXCEPT !.frames = Tail(@), !.offset = @ + Len(slice),
                                                  !.written = @ + Len(slice), !.unread = @ \/ unread,
                                                  !.pc = IF Len(call.frames) = 1 THEN "wrote" ELSE "writing"]]

(* One vfs-write frame and its reply.                                      *)
WriteFrame(c, unread) ==
    LET call == up.calls[c]
        slice == Head(call.frames) IN
    /\ call.pc = "writing"
    /\ unread => Reads(call)
    /\ up' = [up EXCEPT !.exists = TRUE,
                        !.body = VfsWrite(@, call.offset, slice, call.first /\ call.truncate, unread),
                        !.calls[c] = [call EXCEPT !.frames = Tail(@), !.offset = @ + Len(slice),
                                                  !.written = @ + Len(slice), !.first = FALSE,
                                                  !.unread = @ \/ unread,
                                                  !.pc = IF Len(call.frames) = 1 THEN "wrote" ELSE "writing"]]

(* The socket drops or the rpc times out, before or after the kernel has   *)
(* written: the call throws.                                               *)
WriteLost(c, applied, unread) ==
    LET call == up.calls[c]
        body == VfsWrite(up.body, call.offset, Head(call.frames), call.first /\ call.truncate, unread) IN
    /\ call.pc = "writing"
    /\ unread => applied /\ Reads(call)
    /\ up' = [up EXCEPT !.exists = @ \/ applied, !.body = IF applied THEN body ELSE @,
                        !.calls[c].pc = "failed"]

(* streamReadFile from an offset inside the file, and streamArtifact.      *)
ReadFileFrom(c, offset) ==
    /\ UpFree(c) /\ up.exists /\ offset <= Len(up.body)
    /\ up' = Starting(c, [AtRest EXCEPT !.pc = "reading", !.from = offset, !.offset = offset], FALSE)

StreamArtifact(c) ==
    /\ UpFree(c)
    /\ up' = Starting(c, [AtRest EXCEPT !.pc = "artifact"], FALSE)

ReadWindow(c) ==
    LET call == up.calls[c]
        body == IF call.pc = "artifact" THEN Artifact ELSE up.body
        bytes == Window(body, call.offset)
        eof == call.offset + Len(bytes) >= Len(body) IN
    /\ call.pc \in {"reading", "artifact"}
    /\ up' = [up EXCEPT !.calls[c] = [call EXCEPT
                    !.got = @ \o bytes, !.offset = @ + Len(bytes),
                    !.base = body,
                    !.pc = IF eof \/ bytes = <<>> THEN "read" ELSE call.pc]]

ReadLost(c) ==
    /\ up.calls[c].pc \in {"reading", "artifact"}
    /\ up' = [up EXCEPT !.calls[c].pc = "failed"]

UpNext ==
    \E c \in UpCallers :
        \/ \E w \in UpWrites : WriteFile(c, w)
        \/ \E offset \in 0..1 : ReadFileFrom(c, offset)
        \/ StreamArtifact(c) \/ ReadWindow(c) \/ ReadLost(c)
        \/ \E unread \in BOOLEAN : WriteFrame(c, unread)
        \/ \E applied, unread \in BOOLEAN : WriteLost(c, applied, unread)

UpSpec == UpInit /\ [][UpNext]_up

-----------------------------------------------------------------------------
(* A call that returned, and that no other write of the session overlapped,*)
(* did exactly what it was asked: writeFile leaves its bytes at the offset *)
(* of the file it started from (of nothing, with truncate), whatever a     *)
(* call that failed half way left there, and however the input was split   *)
(* into parts (none, empty ones, ones longer than a frame), provided R2    *)
(* gave the file to each of its frames; a read returns the rest of the     *)
(* file or artifact without a gap or a repeat (index.ts:1470-1660).        *)
TransfersWhole ==
    \A c \in UpCallers :
        LET call == up.calls[c] IN
        call.alone =>
            /\ call.pc = "wrote" => /\ call.written = Len(call.data)
                                    /\ ~call.unread => up.body = Splice(call.base, call.from, call.data)
            /\ call.pc = "read" => call.got = SubSeq(call.base, call.from + 1, Len(call.base))

(* Without the proviso: a frame at an offset is a "read-modify-write of    *)
(* the whole object" (lib.rs:1378), but a GET that fails counts as an      *)
(* empty file and the frame is answered ok: zeros replace what was there,  *)
(* the call's own earlier frames too.  It does not hold.                   *)
WritesKeepTheRest ==
    \A c \in UpCallers :
        LET call == up.calls[c] IN
        call.alone /\ call.pc = "wrote" => up.body = Splice(call.base, call.from, call.data)

=============================================================================
