---------------------------- MODULE SessionSetup ----------------------------
(***************************************************************************)
(* How a session's config reaches the VM and the glue                      *)
(* (apps/kernel/src/kernel-glue.ts): createFresh, the restores and         *)
(* replayJournal each configure a new GlueKernel, whose constructor's      *)
(* defaults are permissive, and seed the VM; the stdlib is injected once,  *)
(* at create, and rides in the heap.  A deploy brings another catalog.     *)
(***************************************************************************)
EXTENDS Integers, FiniteSets, FiniteSetsExt

CONSTANTS
    Catalogs,       \* the builds' __STDLIB_META: available, defaults, optIn, bytes
    Configs,        \* the configs sessions are created with
    MaxStdlibBytes, \* MAX_STDLIB_SOURCE_BYTES
    ExtMaxCalls,    \* EXT_MAX_CALLS_PER_CELL
    Reconfigure     \* a later connection may send another config

\* No build preloads what it calls opt-in (kernel.d.ts:27).
ASSUME SetupAssumption ==
    /\ ExtMaxCalls \in Nat \ {0}
    /\ \A cfg \in Configs : cfg.limit \in Int
    /\ \A cat \in Catalogs : cat.defaults \cap cat.optIn = {}

VARIABLE setup
    \* catalog: the deployed one; config: the DO's row; glue: the live
    \* GlueKernel; heap: the VM's globals; saved: the heap of the snapshot

NoConfig == [modules |-> "default", fetch |-> TRUE, typescript |-> TRUE, limit |-> 0, tools |-> {}, fs |-> "vfs"]
Off == [on |-> FALSE, allow |-> TRUE, ts |-> TRUE, calls |-> 0, tools |-> {}]
Bare == [mods |-> {}, wraps |-> 0, names |-> {}, meta |-> {}, fs |-> "vfs", base |-> -1]

SetupInit(cat) ==
    setup = [catalog |-> cat, config |-> NoConfig, glue |-> Off, heap |-> Bare, saved |-> Bare,
             stored |-> FALSE]

-----------------------------------------------------------------------------
(* config.modules: FALSE, TRUE, unset, or names on top of the defaults.    *)
ResolveStdlibModules(mods, cat) ==
    LET defaults == cat.defaults \cap cat.available IN
    CASE mods = "none" -> {}
      [] mods = "all" -> cat.available \ cat.optIn
      [] mods = "default" -> defaults
      [] OTHER -> defaults \cup {n \in cat.available : n = mods}

SourceBytes(mods, cat) == MapThenSumSet(LAMBDA n : cat.bytes[n], mods)

(* _resolveExtensions: the limits may only be lowered, and are at least 1. *)
CallsPerCell(limit) ==
    LET wanted == IF limit = 0 THEN ExtMaxCalls ELSE limit
        capped == IF wanted < ExtMaxCalls THEN wanted ELSE ExtMaxCalls IN
    IF capped < 1 THEN 1 ELSE capped

(* Mutant: the glue is left with its constructor's defaults.               *)
ApplyConfigNever(cfg) == [Off EXCEPT !.on = TRUE]

(* _applyConfig on a new GlueKernel.                                       *)
ApplyConfig(cfg) ==
    [on |-> TRUE, allow |-> cfg.fetch, ts |-> cfg.typescript, calls |-> CallsPerCell(cfg.limit),
     tools |-> cfg.tools]

(* _seedExtMeta: __hostBase captures the original proxy once, and host     *)
(* becomes a wrapper of it that knows the registered names.                *)
SeedExtMeta(heap, cfg) ==
    LET base == IF heap.base = -1 THEN heap.wraps ELSE heap.base IN
    [heap EXCEPT !.base = base, !.wraps = base + 1, !.names = cfg.tools]

ApplyFsProvider(heap, cfg) == [heap EXCEPT !.fs = cfg.fs]

SeedStdlibMeta(heap, cat) == [heap EXCEPT !.meta = cat.available]

(* What every way of coming up ends with.                                  *)
Seed(heap, cfg, cat) == SeedExtMeta(SeedStdlibMeta(ApplyFsProvider(heap, cfg), cat), cfg)

(* _injectStdlib: nothing when the selection is over the cap; a module     *)
(* whose source throws is skipped.                                         *)
Fits(cfg, cat) == SourceBytes(ResolveStdlibModules(cfg.modules, cat), cat) <= MaxStdlibBytes

Inject(cfg, skipped) == ResolveStdlibModules(cfg.modules, setup.catalog) \ skipped

(* create: the config is persisted in every case; a kernel that is warm or *)
(* has a snapshot is not created again.                                    *)
CreateFrame(cfg) ==
    /\ \/ Reconfigure \/ setup.config = cfg
       \/ setup.config = NoConfig /\ ~setup.glue.on /\ ~setup.stored
    /\ setup' = [setup EXCEPT !.config = cfg]

(* ensure_glue without a snapshot: createFresh, or its SizeAdmissionError. *)
CreateFresh(skipped) ==
    /\ ~setup.glue.on /\ ~setup.stored
    /\ Fits(setup.config, setup.catalog)
    /\ setup' = [setup EXCEPT !.glue = ApplyConfig(setup.config),
                              !.heap = Seed([Bare EXCEPT !.mods = Inject(setup.config, skipped)],
                                            setup.config, setup.catalog)]

(* A checkpoint saves the heap; the isolate goes; a deploy may follow.     *)
Save ==
    /\ setup.glue.on
    /\ setup' = [setup EXCEPT !.saved = setup.heap, !.stored = TRUE]

Lose ==
    /\ setup.glue.on
    /\ setup' = [setup EXCEPT !.glue = Off, !.heap = Bare]

Deploy(cat) ==
    /\ ~setup.glue.on /\ cat # setup.catalog
    /\ setup' = [setup EXCEPT !.catalog = cat]

(* restore and restoreW4: the image, then config and seeds.                *)
RestoreSeeds ==
    /\ ~setup.glue.on /\ setup.stored
    /\ setup' = [setup EXCEPT !.glue = ApplyConfig(setup.config),
                              !.heap = Seed(setup.saved, setup.config, setup.catalog)]

(* replayJournal: createFresh under the stored config, with today's        *)
(* catalog.                                                                *)
ReplaySeeds(skipped) ==
    /\ ~setup.glue.on /\ setup.stored
    /\ Fits(setup.config, setup.catalog)
    /\ setup' = [setup EXCEPT !.glue = ApplyConfig(setup.config),
                              !.heap = Seed([Bare EXCEPT !.mods = Inject(setup.config, skipped)],
                                            setup.config, setup.catalog)]

SetupNext ==
    \/ \E cfg \in Configs : CreateFrame(cfg)
    \/ \E skipped \in SUBSET setup.catalog.available : CreateFresh(skipped) \/ ReplaySeeds(skipped)
    \/ Save \/ Lose \/ RestoreSeeds
    \/ \E cat \in Catalogs : Deploy(cat)

SetupSpec == (\E cat \in Catalogs : SetupInit(cat)) /\ [][SetupNext]_setup

-----------------------------------------------------------------------------
(* Whichever way a kernel came up (created, restored, replayed after a     *)
(* deploy), it enforces the session's own config and not the constructor's *)
(* permissive defaults: egress, TypeScript, extension caps; the VM's       *)
(* namespaces are exactly the registered tools, host is wrapped once, and  *)
(* its heap holds no module that is opt-in everywhere unless config names  *)
(* it; the catalog it reports is the running build's.                      *)
ConfigSurvivesWake ==
    setup.glue.on =>
        /\ setup.glue.allow = setup.config.fetch /\ setup.glue.ts = setup.config.typescript
        /\ setup.glue.calls \in 1..ExtMaxCalls
        /\ setup.heap.names = setup.glue.tools /\ setup.heap.wraps = 1
        /\ setup.heap.fs = setup.config.fs /\ setup.heap.meta = setup.catalog.available
        /\ \A n \in setup.heap.mods :
              n = setup.config.modules \/ \E cat \in Catalogs : n \in cat.defaults \ cat.optIn
                \/ (setup.config.modules = "all" /\ n \notin cat.optIn)

=============================================================================
