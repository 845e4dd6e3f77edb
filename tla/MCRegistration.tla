--------------------------- MODULE MCRegistration ---------------------------
(* One entry and two addresses: a member that is enabled, disabled, moved to *)
(* another datacenter or removed, beside one that stays.                      *)
EXTENDS Serving

CONSTANTS a, b, both, disabled, moved, alone, empty, ttl1, ttl2

TwoIps == {a, b}
OneIp == {a}
FourContents == {both, disabled, moved, empty}
ThreeContents == {both, disabled, moved}
SwitchContents == {both, disabled}
TwoContents == {both, alone}
OneContent == {alone}

Here == [own |-> TRUE, disabled |-> FALSE]
Off == [own |-> TRUE, disabled |-> TRUE]
Elsewhere == [own |-> FALSE, disabled |-> FALSE]

MembersIn == [c \in Contents |->
    CASE c = both -> [ip \in Ips |-> Here]
      [] c = disabled -> [ip \in Ips |-> IF ip = a THEN Off ELSE Here]
      [] c = moved -> [ip \in Ips |-> IF ip = a THEN Elsewhere ELSE Here]
      [] c = alone -> [ip \in {a} |-> Here]
      [] c = empty -> [ip \in {} |-> Here]]

\* A change that is only of the header, when the passing members stay.
Headers == [c \in Contents |-> IF c = moved THEN ttl2 ELSE ttl1]
=============================================================================
