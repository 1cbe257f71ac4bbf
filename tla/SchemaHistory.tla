--------------------------- MODULE SchemaHistory ---------------------------
(***************************************************************************)
(* What ADR-0007 promises of the schema of a PostgreSQL database, without  *)
(* runners, locks, sessions or transactions: the files under migrations/   *)
(* take effect whole, in order and once, nothing is ever taken back, and   *)
(* an API replica that verified its schema serves on all of it.            *)
(***************************************************************************)
EXTENDS Integers

CONSTANTS
    Server,     \* the API replicas
    Image,      \* Image[s]: the newest migration in the image of s
    Last        \* the newest migration of any image

VARIABLES
    schema,     \* the migrations in effect
    serving     \* the replicas that found their schema current

vars == <<schema, serving>>

Init == schema = {} /\ serving = {}

\* The next migration takes effect.
Upgrade == \E v \in 1..Last :
    /\ v \notin schema /\ 1..(v - 1) \subseteq schema
    /\ schema' = schema \cup {v}
    /\ UNCHANGED serving

\* A replica joins; by then newer migrations than its own may be in effect.
Join(s) ==
    /\ 1..Image[s] \subseteq schema
    /\ serving' = serving \cup {s}
    /\ UNCHANGED schema

Leave(s) ==
    /\ serving' = serving \ {s}
    /\ UNCHANGED schema

Next == Upgrade \/ \E s \in Server : Join(s) \/ Leave(s)

Spec == Init /\ [][Next]_vars
=============================================================================
