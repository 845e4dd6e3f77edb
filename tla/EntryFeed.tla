----------------------------- MODULE EntryFeed -----------------------------
(***************************************************************************)
(* What the retriever promises those who listen to KV entries, whatever    *)
(* it caches, polls or queues on the way: for each FQDN they are told       *)
(* contents the key really had, in the order it had them, never the same    *)
(* content twice in a row, and they start again from nothing only when the  *)
(* process restarts.                                                        *)
(***************************************************************************)
EXTENDS Naturals, Sequences

CONSTANTS Fqdns,      \* the domain names an entry may be stored for
          Contents,   \* the values a key may hold
          None        \* the key does not exist

VARIABLES log,   \* log[f]: every content the key of f has had, oldest first
          told   \* told[f]: the position in log[f] of what listeners know

vars == <<log, told>>

Init == /\ log = [f \in Fqdns |-> <<None>>]
        /\ told = [f \in Fqdns |-> 1]

Write(f, c) == /\ log' = [log EXCEPT ![f] = Append(@, c)]
               /\ UNCHANGED told

\* Listeners may miss contents, never see an older or a repeated one.
Tell(f, n) == /\ n \in (told[f] + 1) .. Len(log[f])
              /\ log[f][n] # log[f][told[f]]
              /\ told' = [told EXCEPT ![f] = n]
              /\ UNCHANGED log

Restart == /\ told' = [f \in Fqdns |-> 1]
           /\ UNCHANGED log

Next == \/ \E f \in Fqdns, c \in Contents \union {None} : Write(f, c)
        \/ \E f \in Fqdns : \E n \in 1 .. Len(log[f]) : Tell(f, n)
        \/ Restart

Spec == Init /\ [][Next]_vars
=============================================================================
