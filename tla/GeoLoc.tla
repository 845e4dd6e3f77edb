------------------------------- MODULE GeoLoc -------------------------------
(***************************************************************************)
(* geolocs.GeoLoc: which datacenter is near a client.  A datacenter whose   *)
(* CIDRs hold the client's address comes first, then the nearest one by the *)
(* position the database gives; what was found is cached by address.        *)
(***************************************************************************)
EXTENDS Naturals, Sequences

CONSTANTS
    Addrs,     \* clients' addresses
    Dcs,       \* names of datacenters
    InCidrs,   \* InCidrs[a]: the datacenters with a CIDR that holds a, in dcPositions' order
    ByDistance,\* ByDistance[a]: the datacenters of dcPositions, nearest first to the
               \* position of a: (0, 0) if the database does not know a, and <<>> if
               \* the lookup is an error (no IP address, or one of the other family)
    None       \* no value

ASSUME GeoAssumption ==
    /\ InCidrs \in [Addrs -> Seq(Dcs)] /\ ByDistance \in [Addrs -> Seq(Dcs)]
    /\ None \notin Dcs

VARIABLE cachedLoc   \* the datacenter cached for each address, or None

\* The first element of s that is one of forDc, if forDc is not empty.
Fits(dc, forDc) == forDc = {} \/ dc \in forDc
First(s, forDc) ==
    IF \E i \in 1 .. Len(s) : Fits(s[i], forDc)
    THEN s[CHOOSE i \in 1 .. Len(s) :
              Fits(s[i], forDc) /\ \A j \in 1 .. i - 1 : ~Fits(s[j], forDc)]
    ELSE None

\* What FindDc finds without its cache; None is its error.
Locate(a, forDc) ==
    IF First(InCidrs[a], forDc) # None THEN First(InCidrs[a], forDc)
                                       ELSE First(ByDistance[a], forDc)

\* It caches what it found.
StoreLoc(a, dc) ==
    cachedLoc' = IF dc = None THEN cachedLoc ELSE [cachedLoc EXCEPT ![a] = dc]
=============================================================================
