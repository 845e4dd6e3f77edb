--------------------------- MODULE MCApplication ---------------------------
(* Values for the constants of Application: two entries, two addresses, two  *)
(* targets one of which labels its metrics with a target itself.             *)
EXTENDS Application

CONSTANTS f1, f2, ip1, ip2, one, both, consulAgent, other

TwoFqdns == {f1, f2}
TwoIps == {ip1, ip2}
TwoContents == {one, both}
MembersOfContents == [c \in TwoContents |-> IF c = one THEN {ip1} ELSE {ip1, ip2}]
AllPassOrOneFails == {
    [ip \in TwoIps |-> "passing"],
    [ip \in TwoIps |-> IF ip = ip1 THEN "critical" ELSE "none"] }
BothStored == {[f \in TwoFqdns |-> IF f = f1 THEN one ELSE both]}

OneHealth == {[f \in TwoFqdns |-> CHOOSE h \in AllPassOrOneFails :
                                    h[ip1] = IF f = f1 THEN "passing" ELSE "critical"]}

TwoTargets == <<consulAgent, other>>
TargetFamilies == [t \in {consulAgent, other} |->
    IF t = consulAgent THEN [up |-> <<[node |-> "a"], [node |-> "b"]>>]
    ELSE [up |-> <<[node |-> "a", target |-> consulAgent]>>, load |-> <<[node |-> "a"]>>]]
OwnFamilies == [load |-> <<[node |-> "a"]>>]

\* The process starts and stops with simple requests in flight ...
Started(onlyServeDns, noServeDns, listenLocal) ==
    [onlyServeDns |-> onlyServeDns, noServeDns |-> noServeDns, listenLocal |-> listenLocal,
     signals |-> 2, disturbances |-> 0, requests |-> 2, kinds |-> {"query", "check"}]
\* ... or is scraped, by one request, while Consul changes or fails.
Scraped(kind, nbSignals, nbDisturbances) ==
    [onlyServeDns |-> FALSE, noServeDns |-> TRUE, listenLocal |-> FALSE, signals |-> nbSignals,
     disturbances |-> nbDisturbances, requests |-> 1, kinds |-> {kind}]
AllScenarios ==
    { Started(TRUE, FALSE, FALSE), Started(FALSE, TRUE, TRUE), Started(FALSE, FALSE, FALSE),
      Started(TRUE, TRUE, FALSE), Scraped("metrics", 1, 0),
      Scraped("status", 1, 1), Scraped("status", 0, 2) }
=============================================================================
