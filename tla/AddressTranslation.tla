-------------------------- MODULE AddressTranslation -------------------------
(***************************************************************************)
(* What the DNS redirector promises its clients, without tables, clocks,   *)
(* restarts or a network: a one-shot translation.  A client has at most    *)
(* one redirected query outstanding.  At most one answer is translated for *)
(* it, and that answer carries the address of the server this client       *)
(* asked, never that of another client's server nor the resolver's.  The   *)
(* translation may be forgotten at any time, for any clients, after which  *)
(* no answer is translated for them.  DnsRedir implements it.              *)
(***************************************************************************)
CONSTANTS
    Client,
    Server,
    Nobody         \* no query outstanding, not a server

VARIABLES
    asked,         \* client -> the server its outstanding query is for
    translated     \* the answers translated by the last step

vars == <<asked, translated>>

Init ==
    /\ asked = [c \in Client |-> Nobody]
    /\ translated = {}

(* The translations that are left when those of some clients are forgotten.*)
Forgetting(forgotten) ==
    [c \in Client |-> IF c \in forgotten THEN Nobody ELSE asked[c]]

Ask(c, s, forgotten) ==
    /\ Forgetting(forgotten)[c] = Nobody
    /\ asked' = [Forgetting(forgotten) EXCEPT ![c] = s]
    /\ translated' = {}

Translate(c, forgotten) ==
    /\ Forgetting(forgotten)[c] # Nobody
    /\ translated' = {[client |-> c, from |-> asked[c]]}
    /\ asked' = [Forgetting(forgotten) EXCEPT ![c] = Nobody]

Forget(forgotten) ==
    /\ asked' = Forgetting(forgotten)
    /\ translated' = {}

Next ==
    \E forgotten \in SUBSET Client :
        \/ \E c \in Client, s \in Server : Ask(c, s, forgotten)
        \/ \E c \in Client : Translate(c, forgotten)
        \/ Forget(forgotten)

Spec == Init /\ [][Next]_vars
=============================================================================
