---------------------------- MODULE MCRetriever ----------------------------
(* Values for the constants of Retriever.  Two contents that differ in their *)
(* members only have the same header, so that the catalog's signature can    *)
(* stay the same while the KV signature changes.                             *)
EXTENDS Retriever, TLC

CONSTANTS f1, f2, c1, c2, bad, up

OneFqdn == {f1}
TwoFqdns == {f1, f2}
TwoContents == {c1, c2}
AndBad == {c1, c2, bad}
OneAndBad == {c1, bad}
Bad == {bad}
Nothing == {}
TwoViews == {NoMembers, up}
OneView == {NoMembers}

OwnHeader == [c \in Contents |-> c]
SameHeader == [c \in Contents |-> c1]

Symmetry == Permutations(TwoFqdns)
=============================================================================
