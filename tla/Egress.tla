------------------------------- MODULE Egress -------------------------------
(***************************************************************************)
(* Where a cell's outbound requests may go (apps/kernel/src/kernel-glue.ts): *)
(* the classification of a host, the checks of _fetchPrep and _wsOpen, and *)
(* the redirects ssrfSafeFetch and _wsOpen follow by hand, checking every  *)
(* hop.                                                                    *)
(*                                                                         *)
(* A host is a record: a name (internal or not), the numeric parts of an   *)
(* IPv4 spelling, or the groups of an IPv6 spelling (left and right of a   *)
(* "::", and a dotted tail).                                               *)
(***************************************************************************)
EXTENDS Integers, Sequences, SequencesExt

CONSTANTS
    EgressHosts,        \* the hosts requests and redirects name
    EgressAllow,        \* what config.fetch allows: a set of hosts (all of them for true)
    MaxRedirectHops     \* MAX_REDIRECT_HOPS

ASSUME EgressAssumption == MaxRedirectHops \in Nat

VARIABLE egress
    \* the request in progress: what it is, where it stands, and
    \* (observation) the requests that left the kernel

NoAddress == <<>>

-----------------------------------------------------------------------------
(* Mutant: the upper end of 172.16/12 is missed.                           *)
IsPrivateV4Short(a, b) ==
    \/ a \in {127, 10, 0} \/ (a = 169 /\ b = 254) \/ (a = 192 /\ b = 168)
    \/ (a = 172 /\ b \in 16..30) \/ (a = 100 /\ b \in 64..127)

IsPrivateV4(a, b) ==
    \/ a \in {127, 10, 0} \/ (a = 169 /\ b = 254) \/ (a = 192 /\ b = 168)
    \/ (a = 172 /\ b \in 16..31) \/ (a = 100 /\ b \in 64..127)

(* What one of each octet counts in the 32-bit value.                      *)
OctetUnit == <<16777216, 65536, 256, 1>>

(* inet_aton: the last part fills the octets the others leave.             *)
NormalizeV4(parts) ==
    LET k == Len(parts)  last == parts[k] IN
    IF \/ k \notin 1..4
       \/ \E i \in 1..(k - 1) : parts[i] > 255
       \/ last \div OctetUnit[k] > 255
    THEN NoAddress
    ELSE [i \in 1..4 |-> IF i < k THEN parts[i] ELSE (last \div OctetUnit[i]) % 256]

(* Eight 16-bit groups: "::" stands for the groups that are missing.       *)
ParseV6(h) ==
    LET v4 == IF h.tail = <<>> THEN NoAddress ELSE NormalizeV4(h.tail)
        tail == IF v4 = NoAddress THEN <<>> ELSE <<v4[1] * 256 + v4[2], v4[3] * 256 + v4[4]>>
        known == Len(h.left) + Len(h.right) + Len(tail)
        mid == IF h.dbl /\ known <= 8 THEN [i \in 1..(8 - known) |-> 0] ELSE <<>>
        groups == h.left \o mid \o h.right \o tail IN
    IF (h.tail # <<>> /\ v4 = NoAddress) \/ Len(groups) # 8 THEN NoAddress ELSE groups

AllOnes == 65535    \* 0xff, 0xff

IsBlockedV6(g) ==
    \/ (\A i \in 1..7 : g[i] = 0) /\ g[8] \in {0, 1}
    \/ g[1] \div 64 = 1018                                  \* fe80::/10
    \/ g[1] \div 512 = 126                                  \* fc00::/7
    \/ /\ \A i \in 1..5 : g[i] = 0
       /\ g[6] = AllOnes /\ IsPrivateV4(g[7] \div 256, g[7] % 256)

(* A spelling that looks numeric and does not parse is refused.            *)
IsBlockedSsrfHost(h) ==
    CASE h.kind = "name" -> h.internal
      [] h.kind = "v4" -> LET a == NormalizeV4(h.parts) IN a = NoAddress \/ IsPrivateV4(a[1], a[2])
      [] h.kind = "v6" -> LET g == ParseV6(h) IN g = NoAddress \/ IsBlockedV6(g)

Permitted(allow, h) == h \in allow

-----------------------------------------------------------------------------
(* Nothing is in progress; or an address whose spellings are compared.     *)
Addresses == {NoAddress} \cup ((0..255) \X (0..255))

EgressInit(a) ==
    egress = [pc |-> IF a = NoAddress THEN "idle" ELSE "probe", address |-> a, kind |-> "",
              hop |-> 0, method |-> "", body |-> FALSE, allow |-> {}, sent |-> <<>>]

Sent(h, method, body) == [host |-> h, method |-> method, body |-> body]

(* The checks before the first request.                                    *)
FetchPrep(kind, allow, h, method, body) ==
    /\ egress.pc = "idle"
    /\ kind = "ws" => method = "GET"
    /\ method = "GET" => ~body
    /\ egress' = IF IsBlockedSsrfHost(h) \/ ~Permitted(allow, h)
                 THEN [egress EXCEPT !.pc = "error", !.allow = allow]
                 ELSE [egress EXCEPT !.pc = "sent", !.kind = kind, !.method = method, !.body = body,
                                     !.allow = allow, !.sent = <<Sent(h, method, body)>>]

(* Mutant: a hop keeps its method and body.                                *)
FollowAsIs(to) ==
    /\ egress.pc = "sent"
    /\ egress' = IF egress.hop = MaxRedirectHops \/ IsBlockedSsrfHost(to)
                 THEN [egress EXCEPT !.pc = "error"]
                 ELSE [egress EXCEPT !.hop = @ + 1,
                                     !.sent = Append(@, Sent(to, egress.method, egress.body))]

(* A redirect: the next host is checked again, the body is dropped at the  *)
(* first hop, and the hops are counted.                                    *)
Follow(to) ==
    /\ egress.pc = "sent"
    /\ egress' = IF egress.hop = MaxRedirectHops \/ IsBlockedSsrfHost(to)
                 THEN [egress EXCEPT !.pc = "error"]
                 ELSE [egress EXCEPT !.hop = @ + 1, !.method = "GET", !.body = FALSE,
                                     !.sent = Append(@, Sent(to, "GET", FALSE))]

Respond ==
    /\ egress.pc = "sent"
    /\ egress' = [egress EXCEPT !.pc = "done"]

EgressNext ==
    \/ \E kind \in {"fetch", "ws"}, allow \in EgressAllow, h \in EgressHosts,
          method \in {"GET", "POST"}, body \in BOOLEAN : FetchPrep(kind, allow, h, method, body)
    \/ \E to \in EgressHosts : Follow(to)
    \/ Respond

EgressSpec == (\E a \in Addresses : EgressInit(a)) /\ [][EgressNext]_egress

-----------------------------------------------------------------------------
(* The documented blocks: first octets, and how many /16 networks they     *)
(* hold.                                                                   *)
Blocks == {<<127, 0, 256>>, <<10, 0, 256>>, <<0, 0, 256>>, <<169, 254, 1>>,
           <<172, 16, 16>>, <<192, 168, 1>>, <<100, 64, 64>>}
InBlock(a, b) ==
    \E c \in Blocks : (a * 256 + b) \div c[3] = (c[1] * 256 + c[2]) \div c[3]

V4(parts) == [kind |-> "v4", parts |-> parts]
V6(left, dbl, right, tail) == [kind |-> "v6", left |-> left, dbl |-> dbl, right |-> right, tail |-> tail]
(* One number for four octets; TLC's integers hold it while a < 128.       *)
Whole(a, b, c, d) == a * OctetUnit[1] + b * OctetUnit[2] + c * OctetUnit[3] + d
Spellings(a, b, c, d) ==
    {V4(<<a, b, c, d>>), V4(<<a, b, Whole(0, 0, c, d)>>), V4(<<a, Whole(0, b, c, d)>>),
     V6(<<>>, TRUE, <<AllOnes>>, <<a, b, c, d>>),
     V6(<<0, 0, 0, 0, 0, AllOnes>>, FALSE, <<>>, <<a, b, Whole(0, 0, c, d)>>),
     V6(<<0>>, TRUE, <<AllOnes, Whole(0, 0, a, b), Whole(0, 0, c, d)>>, <<>>)}
    \cup IF a < 128 THEN {V4(<<Whole(a, b, c, d)>>)} ELSE {}

(* Every spelling of an IPv4 address (dotted, inet_aton shorthand, one     *)
(* number, IPv4-mapped IPv6 in dots or in hex groups) is classified alike, *)
(* and as the CIDR blocks that isPrivateV4's comments name                 *)
(* (kernel-glue.ts:674-683).                                               *)
ClassifiedByAddress ==
    LET a == egress.address IN
    a # NoAddress => \A h \in Spellings(a[1], a[2], 0, 1) : (IsBlockedSsrfHost(h) <=> InBlock(a[1], a[2]))

(* However many redirects it follows, a request goes to no blocked host,   *)
(* starts at a permitted one, makes at most MaxRedirectHops + 1 requests,  *)
(* and its body goes to the first host only ("so we never replay a body to *)
(* a new (re-checked) origin", kernel-glue.ts:848).                        *)
RequestsStayInPolicy ==
    LET sent == egress.sent IN
    /\ Len(sent) <= MaxRedirectHops + 1
    /\ \A i \in DOMAIN sent : ~IsBlockedSsrfHost(sent[i].host) /\ (i > 1 => ~sent[i].body)
    /\ sent # <<>> => Permitted(egress.allow, sent[1].host)

=============================================================================
