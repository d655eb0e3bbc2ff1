------------------------- MODULE OneTimeCredential -------------------------
(***************************************************************************)
(* What the login flows promise of the secrets they hand out: a code or a  *)
(* state can be used only while the server holds it, every use takes it    *)
(* away, and once its owner has been told of it nothing brings it back.    *)
(***************************************************************************)
EXTENDS Naturals

CONSTANT Credentials

VARIABLES
    open,   \* credentials whose owner has not been told of them yet
    live,   \* credentials the server holds
    uses    \* uses[c]: how often c was accepted

vars == <<open, live, uses>>

Init == open = Credentials /\ live = {} /\ uses = [c \in Credentials |-> 0]

\* The server takes hold of a credential, at the expense of others or not, and perhaps not
\* for the last time.
Issue(c) ==
    /\ c \in open /\ open' \in {open, open \ {c}}
    /\ \E rest \in SUBSET live : live' = rest \cup {c}
    /\ UNCHANGED uses

\* The owner is told, or the attempt is given up.
Close(c) == open' = open \ {c} /\ UNCHANGED <<live, uses>>

\* A use is accepted.
Use(c) ==
    /\ c \in live /\ live' = live \ {c}
    /\ uses' = [uses EXCEPT ![c] = @ + 1]
    /\ UNCHANGED open

\* Credentials expire, are withdrawn, or are used up by a request that never learns it.
Lose == live' \in SUBSET live /\ UNCHANGED <<open, uses>>

Next == Lose \/ \E c \in Credentials : Issue(c) \/ Close(c) \/ Use(c)

Spec == Init /\ [][Next]_vars
=============================================================================
