----------------------------- MODULE MCResolver -----------------------------
(* Values for the constants of Resolver: entries whose load balancers are    *)
(* tried in different orders, over members in two datacenters.               *)
EXTENDS Resolver

CONSTANTS east, west, here, nowhere, m1, m2, m3, g1, g2

TwoAddrs == {here, nowhere}
OneAddr == {here}
TwoDcs == {east, west}
TwoGoroutines == {g1, g2}
OneGoroutine == {g1}

\* No CIDR holds an address; here is nearer to east, nowhere cannot be looked up.
NoCidr == [a \in Addrs |-> <<>>]
EastFirst == [a \in Addrs |-> IF a = here THEN <<east, west>> ELSE <<>>]

M(ip, ratio, dc) == [ip |-> ip, ratio |-> ratio, dc |-> dc]
E(ipv4, algos, max) == [ipv4 |-> ipv4, ipv6 |-> <<>>, algos |-> algos, maxAnswers |-> max]

Descending == <<M(m1, 2, east), M(m2, 1, west)>>
Ascending == <<M(m1, 1, east), M(m2, 2, west)>>
Unweighted == <<M(m1, 0, east), M(m2, 0, east)>>

AllMembers == {M(ip, ratio, dc) : ip \in {m1, m2, m3}, ratio \in 0 .. 2, dc \in TwoDcs}

AllAlgos == {
    E(Descending, <<"TOPOLOGY", "RATIO", "ROUND_ROBIN">>, 1),
    E(Ascending \o <<M(m3, 0, east)>>, <<"TOPOLOGY", "TOPOLOGY", "ROUND_ROBIN">>, 2),
    E(Descending, <<"RATIO", "RANDOM", "RANDOM">>, 1) }
AscendingOnly == {E(Ascending, <<"RATIO", "RANDOM", "RANDOM">>, 2)}
UnweightedOnly == {E(Unweighted, <<"RATIO", "RANDOM", "RANDOM">>, 1)}
Moving == {
    E(<<M(m1, 1, east)>>, <<"TOPOLOGY", "RANDOM", "RANDOM">>, 1),
    E(<<M(m2, 1, west)>>, <<"TOPOLOGY", "RANDOM", "RANDOM">>, 1) }

Ipv4Only == {"Ipv4"}
AandAny == {"Ipv4", "All"}
=============================================================================
