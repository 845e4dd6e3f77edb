---------------------------- MODULE MCGslbServer ----------------------------
(* Values for the constants of GslbServer: one entry with two members that   *)
(* two clients change, and several entries for SetMembersStatus.             *)
EXTENDS GslbServer, TLC

CONSTANTS f1, f2, f3, ip1, ip2, here, gone, plain, noplugin, c1, c2

OneFqdn == {f1}
ThreeFqdns == {f1, f2, f3}
OneIp == {ip1}
TwoIps == {ip1, ip2}
TwoDcs == {here, gone}
OneDc == {here}
TwoHcs == {plain, noplugin}
OneHc == {plain}
OneClient == {c1}
TwoClients == {c1, c2}

Symmetry == Permutations(Fqdns) \union Permutations(Ips)
=============================================================================
