----------------------------- MODULE ImageChain -----------------------------
(***************************************************************************)
(* Snapshot images down to their bytes (apps/kernel/src/kernel-glue.ts):   *)
(* what dump admits, how dumpW4 encodes the linear memory as a full base   *)
(* or as the grains that changed since the retained image, and how         *)
(* restoreW4 decodes, reassembles, checks and admits them.  KernelSnapshots *)
(* treats an image as a value; here it is a sequence of bytes, and the     *)
(* stored rows are what the DO keeps of each dump.                         *)
(*                                                                         *)
(* Sizes are in bytes of a small memory; the compressors are lossless and  *)
(* tagged, and CRC-32 is taken to tell apart the images that occur.        *)
(***************************************************************************)
EXTENDS Integers, Sequences, FiniteSets, SequencesExt

CONSTANTS
    Grain,          \* DELTA_GRAIN_BYTES
    Page,           \* what memory.grow adds, a multiple of Grain
    SafeBuffer,     \* SAFE_SERIALIZE_BUFFER_BYTES = MAX_RESTORE_RAW_BYTES
    ScratchDelta,   \* SCRATCH_DELTA_BYTES
    Incompressible, \* INCOMPRESSIBLE_BUFFER_CEILING_BYTES
    NoRetain,       \* FULL_BASE_NO_RETAIN_BYTES
    MaxDeltas,      \* bound: the DO forces a full base after so many deltas
    MaxWrites       \* bound: writes to the memory

ASSUME ImageAssumption ==
    /\ Grain \in Nat \ {0} /\ Page \in Nat \ {0} /\ Page % Grain = 0
    /\ {SafeBuffer, ScratchDelta, Incompressible, NoRetain, MaxDeltas, MaxWrites} \subseteq Nat

VARIABLES
    live,       \* the engine's linear memory
    last,       \* _lastImage: the image deltas are taken against, or None
    pending,    \* _pendingImage: staged by the last dump, or None
    dumped,     \* the dump result on its way to the DO's transaction, or None
    rows,       \* the DO's rows: base, deltas, and the manifest's length and CRC
    build,      \* the deployed build: "old" writes untagged gzip, "new" zstd
    damaged,    \* fault: a stored delta has been altered
    writes,     \* writes made, for the bound
    committed   \* observation: the image of the last committed dump

imageVars == <<live, last, pending, dumped, rows, build, damaged, writes, committed>>

None == <<>>
Byte == {0, 1}
Zeros(n) == [i \in 1..n |-> 0]

-----------------------------------------------------------------------------
(* The codecs: a blob is readable by the codec that wrote it only.  A      *)
(* missing tag means gzip.                                                 *)
NormCodec(tag) == IF tag = "zstd" THEN "zstd" ELSE "gzip"
Tag == IF build = "old" THEN "" ELSE "zstd"
Compress(data) == [codec |-> NormCodec(Tag), data |-> data]
Readable(blob, tag) == blob.codec = NormCodec(tag)

NGrains(img) == (Len(img) + Grain - 1) \div Grain

(* Mutant: a grain that reaches past the retained image is compared on the *)
(* old bytes only.                                                         *)
ChangedIgnoresGrowth(img, prev) ==
    {i \in 0..(NGrains(img) - 1) : \E j \in (i * Grain + 1)..((i + 1) * Grain) :
        j <= Len(prev) /\ img[j] # prev[j]}

(* The grains a delta carries: new bytes, or bytes that differ.            *)
Changed(img, prev) ==
    {i \in 0..(NGrains(img) - 1) : \E j \in (i * Grain + 1)..((i + 1) * Grain) :
        j > Len(prev) \/ img[j] # prev[j]}

(* Half the image or more has changed (DELTA_FALLBACK_PCT).                *)
Dense(img, idx) == 2 * Cardinality(idx) * Grain >= Len(img)

(* The indices in ascending order, and the grains they name, one after the *)
(* other.                                                                  *)
Pushed(idx, grains) == FoldLeft(LAMBDA out, i : IF i \in idx THEN Append(out, i) ELSE out, <<>>, grains)

Payload(img, order) ==
    [p \in 1..(Len(order) * Grain) |->
        img[order[(p - 1) \div Grain + 1] * Grain + ((p - 1) % Grain) + 1]]

Delta(img, idx) ==
    LET order == Pushed(idx, [i \in 1..NGrains(img) |-> i - 1]) IN
    [idx |-> Compress(order), payload |-> Compress(Payload(img, order)), codec |-> Tag]

(* _serializeForDump: the buffer and what cannot be compressed away must   *)
(* fit.  used is the allocator's tally after the GC of a bloated buffer.   *)
Admitted(img, used) ==
    /\ Len(img) <= SafeBuffer
    /\ used < Incompressible /\ Len(img) - ScratchDelta < Incompressible

-----------------------------------------------------------------------------
(* restoreW4: decode each row by its own tag, grow to the largest grain of *)
(* the chain, apply the deltas in order; then the manifest's length and    *)
(* CRC, and the admission of the result.                                   *)
Refused == <<"refused">>

Grow(img, n) == IF n > Len(img) THEN img \o Zeros(n - Len(img)) ELSE img

ApplyDelta(img, d) ==
    [j \in 1..Len(img) |->
        LET hit == {k \in 1..Len(d.idx.data) : d.idx.data[k] = (j - 1) \div Grain} IN
        IF hit = {} THEN img[j]
        ELSE d.payload.data[((CHOOSE k \in hit : TRUE) - 1) * Grain + ((j - 1) % Grain) + 1]]

(* The end of the last grain of the chain.                                 *)
Extent(base, deltas) ==
    Max({Len(base)} \cup {(i + 1) * Grain : i \in UNION {Range(d.idx.data) : d \in Range(deltas)}})

Rebuild(base, deltas) == FoldLeft(ApplyDelta, Grow(base, Extent(base, deltas)), deltas)

RestoreW4(r) ==
    LET image == Rebuild(r.base.data, r.deltas) IN
    IF \/ ~Readable(r.base, r.tag)
       \/ \E d \in Range(r.deltas) : ~Readable(d.idx, d.codec) \/ ~Readable(d.payload, d.codec)
       \/ Len(image) < r.len
       \/ SubSeq(image, 1, r.len) # r.crc
       \/ Len(image) > SafeBuffer
    THEN Refused ELSE image

-----------------------------------------------------------------------------
ImageInit ==
    /\ live = Zeros(Page)
    /\ last = None /\ pending = None /\ dumped = None
    /\ rows = None /\ build = "old" /\ damaged = FALSE /\ writes = 0
    /\ committed = None

(* A cell writes memory, or makes it grow (it never shrinks).              *)
Write(j, b) ==
    /\ dumped = None /\ writes < MaxWrites /\ j <= Len(live) /\ live[j] # b
    /\ live' = [live EXCEPT ![j] = b]
    /\ writes' = writes + 1
    /\ UNCHANGED <<last, pending, dumped, rows, build, damaged, committed>>

GrowMemory ==
    /\ dumped = None /\ Len(live) <= SafeBuffer
    /\ live' = live \o Zeros(Page)
    /\ UNCHANGED <<last, pending, dumped, rows, build, damaged, writes, committed>>

(* dumpW4: a delta against the retained image when there is one, it is not *)
(* longer, the change is sparse and the blobs fit a row; else a full base, *)
(* retained only when small.  Nothing is retained for good before          *)
(* commitDump.  The DO forces a full base when its chain is long or gone.  *)
DumpW4(forceFull, used, fits) ==
    LET idx == Changed(live, last)
        delta == ~forceFull /\ last # None /\ Len(live) >= Len(last) /\ ~Dense(live, idx) /\ fits IN
    /\ dumped = None /\ Admitted(live, used)
    /\ forceFull = (rows = None \/ (rows # None /\ Len(rows.deltas) >= MaxDeltas))
    /\ dumped' = [mode |-> IF delta THEN "delta" ELSE "full", image |-> live,
                  blob |-> IF delta THEN Delta(live, idx) ELSE Compress(live)]
    /\ pending' = IF delta \/ Len(live) <= NoRetain THEN live ELSE None
    /\ last' = IF ~delta /\ Len(live) > NoRetain THEN None ELSE last
    /\ UNCHANGED <<live, rows, build, damaged, writes, committed>>

(* The DO's transaction stores the dump, then commitDump promotes the      *)
(* staged image; or the transaction fails and nothing is promoted.         *)
TxnCommits ==
    /\ dumped # None
    /\ rows' = IF dumped.mode = "delta"
               THEN [rows EXCEPT !.deltas = Append(@, dumped.blob), !.len = Len(dumped.image),
                                 !.crc = dumped.image]
               ELSE [base |-> dumped.blob, tag |-> Tag, deltas |-> <<>>,
                     len |-> Len(dumped.image), crc |-> dumped.image]
    /\ damaged' = IF dumped.mode = "delta" THEN damaged ELSE FALSE
    /\ committed' = dumped.image
    /\ last' = IF pending # None THEN pending ELSE last
    /\ pending' = None /\ dumped' = None
    /\ UNCHANGED <<live, build, writes>>

TxnFails ==
    /\ dumped # None
    /\ dumped' = None
    /\ UNCHANGED <<live, last, pending, rows, build, damaged, writes, committed>>

(* The isolate goes (perhaps for a deploy) and a new instance restores: the *)
(* rebuilt image is retained as it is.  A refused image goes to the oplog, *)
(* whose memory is not the image's.                                        *)
Restart(b) ==
    /\ rows # None
    /\ b \in {build, "new"} /\ build' = b
    /\ LET image == RestoreW4(rows) IN
       /\ live' = IF image = Refused THEN Zeros(Page) ELSE image
       /\ last' = IF image = Refused THEN None ELSE image
    /\ pending' = None /\ dumped' = None
    /\ UNCHANGED <<rows, damaged, writes, committed>>

(* Fault: a stored delta payload loses its bytes.                          *)
DamageRow(k) ==
    /\ rows # None /\ k \in DOMAIN rows.deltas /\ ~damaged /\ dumped = None
    /\ damaged' = TRUE
    /\ rows' = [rows EXCEPT !.deltas[k].payload.data = Zeros(Len(@))]
    /\ UNCHANGED <<live, last, pending, dumped, build, writes, committed>>

ImageNext ==
    \/ \E j \in 1..(SafeBuffer + Page), b \in Byte : Write(j, b)
    \/ GrowMemory
    \/ \E force, fits \in BOOLEAN, used \in {0, Incompressible} : DumpW4(force, used, fits)
    \/ TxnCommits \/ TxnFails
    \/ \E b \in {"old", "new"} : Restart(b)
    \/ \E k \in 1..MaxDeltas : DamageRow(k)

ImageSpec == ImageInit /\ [][ImageNext]_imageVars

-----------------------------------------------------------------------------
ImageTypeOK ==
    /\ live \in Seq(Byte) /\ last \in Seq(Byte) /\ pending \in Seq(Byte) /\ committed \in Seq(Byte)
    /\ Len(live) % Grain = 0
    /\ build \in {"old", "new"} /\ damaged \in BOOLEAN
    /\ (rows = None) = (committed = None)

(* What the stored rows decode to is, byte for byte, the memory of the     *)
(* last committed dump, whatever mix of bases, sparse deltas, growth,      *)
(* failed transactions, restores and codecs produced them, and a dump that *)
(* was admitted is admitted again by the restore; a damaged chain is       *)
(* refused (and recovered by replay), never restored as something else.    *)
RestoresOrRefuses ==
    rows # None => RestoreW4(rows) \in {committed} \cup IF damaged THEN {Refused} ELSE {}

=============================================================================
