----------------------------- MODULE MCGlueData -----------------------------
(***************************************************************************)
(* The data machines of the kernel glue, the sandbox and the SDK's helpers *)
(* side by side.  They share no state, so a behaviour runs one of them     *)
(* (which), the others keeping their initial values: the state space is    *)
(* their sum.                                                              *)
(***************************************************************************)
EXTENDS ImageChain, Egress, SessionSetup, EngramFs, Sandbox, SdkFiles, SdkSession, EngramClient, R2Breaker

VARIABLE which

glueVars == <<live, last, pending, dumped, rows, build, damaged, writes, committed, egress, setup, fs, sb, up, se, cl, br, which>>

\* Hosts: a public and an internal name, a public and a private address.
MCHosts == {[kind |-> "name", internal |-> FALSE], [kind |-> "name", internal |-> TRUE],
            V4(<<8, 8, 8, 8>>), V4(<<10, 1>>), V6(<<65152>>, TRUE, <<1>>, <<>>)}
MCAllow == {MCHosts, {}, {[kind |-> "name", internal |-> FALSE]}}

\* Two builds: the second drops a module, adds one and changes the defaults.
MCCatalogs ==
    {[available |-> {"zod", "nanoid", "mathjs"}, defaults |-> {"zod", "nanoid"}, optIn |-> {"mathjs"},
      bytes |-> [n \in {"zod", "nanoid", "mathjs"} |-> IF n = "mathjs" THEN 3 ELSE 1]],
     [available |-> {"zod", "yaml", "mathjs"}, defaults |-> {"zod", "gone"}, optIn |-> {"mathjs"},
      bytes |-> [n \in {"zod", "yaml", "mathjs"} |-> 2]]}
MCConfigs ==
    [modules : {"none", "all", "mathjs"}, fetch : {FALSE, TRUE}, typescript : BOOLEAN,
     limit : {-1, 0, 2, 9}, tools : {{}, {"t"}}, fs : {"vfs", "r2"}]

MCFsPaths == [abs : {FALSE}, segs : {<<"a">>, <<"..", "a">>}] \cup [abs : {TRUE}, segs : {<<"workspace", "d">>}]

AnyCatalog == CHOOSE c \in Catalogs : TRUE

\* Writes in one part of two frames, in parts with an empty one among them,
\* of nothing, and over the middle of the file.
MCWrites == {[parts |-> <<3>>, offset |-> 0, truncate |-> TRUE], [parts |-> <<0, 1, 3>>, offset |-> 0, truncate |-> TRUE],
             [parts |-> <<>>, offset |-> 0, truncate |-> TRUE], [parts |-> <<3, 0>>, offset |-> 1, truncate |-> FALSE]}

Machines == {"image", "egress", "setup", "fs", "sandbox", "files", "session", "client", "breaker"}

Init ==
    /\ which \in Machines
    /\ ImageInit /\ SandboxInit /\ UpInit /\ ClientInit /\ BreakerInit
    /\ \E a \in IF which = "egress" THEN Addresses ELSE {NoAddress} : EgressInit(a)
    /\ \E c \in IF which = "setup" THEN Catalogs ELSE {AnyCatalog} : SetupInit(c)
    /\ \E p \in IF which = "fs" THEN {NoProbe} \cup Probes ELSE {NoProbe} : FsInit(p)
    /\ \E http \in IF which = "session" THEN BOOLEAN ELSE {FALSE} : SessionInit(http)

Next ==
    /\ UNCHANGED which
    /\ \/ which = "image" /\ ImageNext /\ UNCHANGED <<egress, setup, fs, sb, up, se, cl, br>>
       \/ which = "egress" /\ EgressNext /\ UNCHANGED <<imageVars, setup, fs, sb, up, se, cl, br>>
       \/ which = "setup" /\ SetupNext /\ UNCHANGED <<imageVars, egress, fs, sb, up, se, cl, br>>
       \/ which = "fs" /\ FsNext /\ UNCHANGED <<imageVars, egress, setup, sb, up, se, cl, br>>
       \/ which = "sandbox" /\ SandboxNext /\ UNCHANGED <<imageVars, egress, setup, fs, up, se, cl, br>>
       \/ which = "files" /\ UpNext /\ UNCHANGED <<imageVars, egress, setup, fs, sb, se, cl, br>>
       \/ which = "session" /\ SessionNext /\ UNCHANGED <<imageVars, egress, setup, fs, sb, up, cl, br>>
       \/ which = "client" /\ ClientNext /\ UNCHANGED <<imageVars, egress, setup, fs, sb, up, se, br>>
       \/ which = "breaker" /\ BreakerNext /\ UNCHANGED <<imageVars, egress, setup, fs, sb, up, se, cl>>

Spec == Init /\ [][Next]_glueVars

(* Each machine keeps to its declared shape.                               *)
TypeOK ==
    /\ which \in Machines
    /\ ImageTypeOK /\ FsTypeOK

=============================================================================
