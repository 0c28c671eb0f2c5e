------------------------------ MODULE DnsRedir -------------------------------
(***************************************************************************)
(* The DNS redirector: dnsredir.c, the DNS branch of the packet loop of    *)
(* hayalet.c that calls it, and the part of Hayalet_RunConfig that decides *)
(* which UDP ports are captured.                                           *)
(*                                                                         *)
(* A client is a local (address, port) pair, the key of a record.  It asks *)
(* the server of its choice on port 53; the engine sends the query to the  *)
(* configured resolver and remembers the server, so that the answer can be *)
(* given the source address the client expects.  `net` holds, for every    *)
(* query that left the machine, the query on its way or its answer on the  *)
(* way back.  Packets shorter than 16 bytes and packets that are not DNS   *)
(* only matter as NonDnsDatagram.                                          *)
(***************************************************************************)
EXTENDS Conntrack, FiniteSets

CONSTANTS
    Client,        \* local (address, port) pairs that run a stub resolver
    V6Client,      \* those of them that speak IPv6
    Server,        \* servers the clients were configured to ask
    Resolver,      \* dnsv4_addr / dnsv6_addr: where queries are redirected
    DnsPortV4,     \* dnsv4_port, or 0 when IPv4 DNS is not redirected
    DnsPortV6,     \* dnsv6_port, or 0 when IPv6 DNS is not redirected
    SelectApps,    \* active_filter_mode == 2
    Allowed,       \* clients whose process is known and allowed in that mode
    MaxDelay,      \* seconds after which a packet in flight is a late one
    MaxNet,        \* packets the network holds; one more is lost at once
    Nobody         \* no server

ASSUME ClientAssumption ==
    /\ V6Client \subseteq Client
    /\ Allowed \subseteq Client
    /\ Nobody \notin Server

ASSUME PortAssumption == DnsPortV4 \in Nat /\ DnsPortV6 \in Nat

ASSUME ModeAssumption ==
    /\ SelectApps \in BOOLEAN
    /\ MaxDelay \in Nat
    /\ MaxNet \in Nat

VARIABLES
    up,            \* the engine loop is running and its handle is open
    conntrack,     \* client -> [dst, age]
    sinceCleanup,  \* age of last_cleanup, or Never
    net,           \* packets in flight
    delivered,     \* what the last step handed to a client ({} if nothing)
    timely         \* history, read by no guard: clients with nothing late,
                   \* duplicated or from before a restart in flight

vars == <<up, conntrack, sinceCleanup, net, delivered, timely>>

Query   == [client : Client, server : Server]
Address == Server \cup {Resolver}
Record  == [dst : Server, age : Ages]
Packet  == [query : Query, redirected : BOOLEAN, age : 0..MaxDelay]
Answer  == [query : Query, from : Address, restored : BOOLEAN]

-----------------------------------------------------------------------------
(* What the WinDivert filter captures and what the loop then leaves alone. *)

StubPort == 53         \* the port stub resolvers ask

DnsPort(c) == IF c \in V6Client THEN DnsPortV6 ELSE DnsPortV4

(* Hayalet_RunConfig adds the configured ports, and only those, to the     *)
(* filter string.                                                          *)
FilterPorts == {DnsPortV4, DnsPortV6} \ {0}

RedirectEnabled(c) == DnsPort(c) # 0

(* In select-apps mode a packet needs the pid of an allowed process.  Only *)
(* outbound packets are given a pid.                                       *)
OutboundHandled(c) ==
    /\ up
    /\ StubPort \in FilterPorts
    /\ RedirectEnabled(c)
    /\ SelectApps => c \in Allowed

AnswerPort(p) == IF p.redirected THEN DnsPort(p.query.client) ELSE StubPort

InboundHandled(p) ==
    /\ up
    /\ AnswerPort(p) \in FilterPorts
    /\ RedirectEnabled(p.query.client)
    /\ ~SelectApps

SourceOf(p) == IF p.redirected THEN Resolver ELSE p.query.server

-----------------------------------------------------------------------------
(* The table after the cleanup that dns_handle_outgoing and                *)
(* dns_handle_incoming both start with.                                    *)
dns_cleanup == Cleaned(conntrack, sinceCleanup)

InFlight == {p.query.client : p \in net}

(* A query leaves; one with nothing of its client before it on the way     *)
(* starts afresh.                                                          *)
Sent(q, redirected) ==
    /\ net' = IF Cardinality(net) < MaxNet
              THEN net \cup {[query |-> q, redirected |-> redirected, age |-> 0]}
              ELSE net
    /\ timely' = IF q.client \in InFlight THEN timely ELSE timely \cup {q.client}

(* A query the engine never sees, or lets through: not running, port not   *)
(* captured, family not redirected, or process not selected.               *)
QueryUntouched(q) ==
    /\ q \in Query
    /\ ~OutboundHandled(q.client)
    /\ Sent(q, FALSE)
    /\ delivered' = {}
    /\ UNCHANGED <<up, conntrack, sinceCleanup>>

(* Slip: the key is made of the destination.                               *)
KeyedByServer(q) ==
    /\ q \in Query
    /\ OutboundHandled(q.client)
    /\ q.client \notin DOMAIN dns_cleanup
    /\ conntrack' = With(dns_cleanup, q.server, [dst |-> q.server, age |-> 0])
    /\ sinceCleanup' = SinceCleaned(sinceCleanup)
    /\ Sent(q, TRUE)
    /\ delivered' = {}
    /\ UNCHANGED up

(* Slip: a key in use is overwritten.                                      *)
RecordReplaced(q) ==
    /\ q \in Query
    /\ OutboundHandled(q.client)
    /\ conntrack' = With(dns_cleanup, q.client, [dst |-> q.server, age |-> 0])
    /\ sinceCleanup' = SinceCleaned(sinceCleanup)
    /\ Sent(q, TRUE)
    /\ delivered' = {}
    /\ UNCHANGED up

(* dns_handle_outgoing: the record is added and the query redirected.      *)
QueryRedirected(q) ==
    /\ q \in Query
    /\ OutboundHandled(q.client)
    /\ q.client \notin DOMAIN dns_cleanup
    /\ conntrack' = With(dns_cleanup, q.client, [dst |-> q.server, age |-> 0])
    /\ sinceCleanup' = SinceCleaned(sinceCleanup)
    /\ Sent(q, TRUE)
    /\ delivered' = {}
    /\ UNCHANGED up

(* Slip: the record in the way is deleted.                                 *)
DroppedWithRecord(q) ==
    /\ q \in Query
    /\ OutboundHandled(q.client)
    /\ q.client \in DOMAIN dns_cleanup
    /\ conntrack' = Without(dns_cleanup, q.client)
    /\ sinceCleanup' = SinceCleaned(sinceCleanup)
    /\ delivered' = {}
    /\ UNCHANGED <<up, net, timely>>

(* add_udp_conntrack finds the key in use: the query is dropped.           *)
QueryDropped(q) ==
    /\ q \in Query
    /\ OutboundHandled(q.client)
    /\ q.client \in DOMAIN dns_cleanup
    /\ conntrack' = dns_cleanup
    /\ sinceCleanup' = SinceCleaned(sinceCleanup)
    /\ delivered' = {}
    /\ UNCHANGED <<up, net, timely>>

(* Any other datagram of at least 16 bytes to or from a captured port:     *)
(* reinjected as it is, after the cleanup.                                 *)
NonDnsDatagram(c) ==
    /\ c \in Client
    /\ up /\ RedirectEnabled(c)
    /\ OutboundHandled(c) \/ ~SelectApps
    /\ conntrack' = dns_cleanup
    /\ sinceCleanup' = SinceCleaned(sinceCleanup)
    /\ delivered' = {}
    /\ UNCHANGED <<up, net, timely>>

-----------------------------------------------------------------------------
(* Answers.                                                                *)

(* A packet arrives, and perhaps a copy of it later.                       *)
Received(p) ==
    /\ p \in net
    /\ \/ net' = net \ {p} /\ UNCHANGED timely
       \/ net' = net /\ timely' = timely \ {p.query.client}

(* The engine does not see the answer, or lets it through.                 *)
AnswerUntouched(p) ==
    /\ Received(p)
    /\ ~InboundHandled(p)
    /\ delivered' = {[query |-> p.query, from |-> SourceOf(p),
                      restored |-> FALSE]}
    /\ UNCHANGED <<up, conntrack, sinceCleanup>>

(* Slip: the record is not deleted once it has matched.                    *)
RecordKept(p) ==
    /\ Received(p)
    /\ InboundHandled(p)
    /\ p.query.client \in DOMAIN dns_cleanup
    /\ conntrack' = dns_cleanup
    /\ sinceCleanup' = SinceCleaned(sinceCleanup)
    /\ delivered' = {[query |-> p.query,
                      from  |-> dns_cleanup[p.query.client].dst,
                      restored |-> TRUE]}
    /\ UNCHANGED up

(* dns_handle_incoming: the record of the destination (address, port) is   *)
(* consumed and the source address restored from it.                       *)
AnswerRewritten(p) ==
    /\ Received(p)
    /\ InboundHandled(p)
    /\ p.query.client \in DOMAIN dns_cleanup
    /\ conntrack' = Without(dns_cleanup, p.query.client)
    /\ sinceCleanup' = SinceCleaned(sinceCleanup)
    /\ delivered' = {[query |-> p.query,
                      from  |-> dns_cleanup[p.query.client].dst,
                      restored |-> TRUE]}
    /\ UNCHANGED up

(* No record for it: the answer is dropped.                                *)
AnswerDropped(p) ==
    /\ Received(p)
    /\ InboundHandled(p)
    /\ p.query.client \notin DOMAIN dns_cleanup
    /\ conntrack' = dns_cleanup
    /\ sinceCleanup' = SinceCleaned(sinceCleanup)
    /\ delivered' = {}
    /\ UNCHANGED up

(* The network loses the query or its answer.                              *)
Lose(p) ==
    /\ p \in net
    /\ net' = net \ {p}
    /\ delivered' = {}
    /\ UNCHANGED <<up, conntrack, sinceCleanup, timely>>

-----------------------------------------------------------------------------
(* One second passes.                                                      *)
Tick ==
    /\ conntrack' = OlderTable(conntrack)
    /\ sinceCleanup' = OlderSince(sinceCleanup)
    /\ net' = {[p EXCEPT !.age = IF @ = MaxDelay THEN MaxDelay ELSE @ + 1] :
                  p \in net}
    /\ timely' = timely \ {p.query.client : p \in {r \in net : r.age = MaxDelay}}
    /\ delivered' = {}
    /\ UNCHANGED up

(* The user stops the engine: the handle is closed, the records stay.      *)
Stop ==
    /\ up
    /\ up' = FALSE
    /\ timely' = timely \ InFlight
    /\ delivered' = {}
    /\ UNCHANGED <<conntrack, sinceCleanup, net>>

(* reset_hayalet_state calls dnsredir_clear before the filters are opened. *)
dnsredir_clear ==
    /\ conntrack' = << >>
    /\ sinceCleanup' = Never

Start ==
    /\ ~up
    /\ up' = TRUE
    /\ dnsredir_clear
    /\ timely' = timely \ InFlight
    /\ delivered' = {}
    /\ UNCHANGED net

Init ==
    /\ up = TRUE
    /\ conntrack = << >>
    /\ sinceCleanup = Never
    /\ net = {}
    /\ delivered = {}
    /\ timely = Client

Ask(q) == QueryUntouched(q) \/ QueryRedirected(q) \/ QueryDropped(q)

Receive(p) == AnswerUntouched(p) \/ AnswerRewritten(p) \/ AnswerDropped(p)

Next ==
    \/ \E q \in Query : Ask(q)
    \/ \E c \in Client : NonDnsDatagram(c)
    \/ \E p \in net : Receive(p) \/ Lose(p)
    \/ Tick
    \/ Stop
    \/ Start

Spec == Init /\ [][Next]_vars

(* Time passes, and a client that gets no answer asks again: stub          *)
(* resolvers retransmit.  Nothing is assumed of the network.               *)
Fairness ==
    /\ WF_vars(Tick)
    /\ \A c \in Client : WF_vars(\E s \in Server :
                                    Ask([client |-> c, server |-> s]))

FairSpec == Spec /\ Fairness

-----------------------------------------------------------------------------
(* Properties.                                                             *)

TypeOK ==
    /\ up \in BOOLEAN
    /\ DOMAIN conntrack \subseteq Client
    /\ \A c \in DOMAIN conntrack : conntrack[c] \in Record
    /\ sinceCleanup \in Ages \cup {Never}
    /\ net \subseteq Packet
    /\ delivered \subseteq Answer
    /\ timely \subseteq Client

(* The cleanup, although it runs only when a packet passes and at most     *)
(* once per Interval, never falls behind by more than Interval: dns_cleanup*)
(* starts its clock no later than the first record.                        *)
RecordsAreYoung == Young(conntrack, sinceCleanup)

(* A record that rewrites an answer is less than two cleanup intervals     *)
(* old: dns_cleanup runs before the lookup in dns_handle_incoming.         *)
FreshMatchStep ==
    \A c \in DOMAIN conntrack \ DOMAIN conntrack' :
        (\E a \in delivered' : a.query.client = c)
            => conntrack[c].age < 2 * Interval

FreshMatch == [][FreshMatchStep]_vars

(* No record is lost early: while the engine runs, a record disappears     *)
(* only when an answer to that client was delivered with the address it    *)
(* recorded, or once it is Interval seconds old.                           *)
NoEarlyExpiryStep ==
    \A c \in DOMAIN conntrack \ DOMAIN conntrack' :
        \/ conntrack[c].age >= Interval
        \/ ~up
        \/ \E a \in delivered' :
              a.query.client = c /\ a.from = conntrack[c].dst

NoEarlyExpiry == [][NoEarlyExpiryStep]_vars

(* An answer is never handed to a client under the resolver's own address  *)
(* unless the client asked that address: the redirection is transparent.   *)
ResolverHidden ==
    \A a \in delivered : a.from = Resolver => a.query.server = Resolver

(* Every answer to a timely client reaches it with the address its query   *)
(* was sent to, whatever happens to the packets of the others.             *)
Matched ==
    \A a \in delivered : a.query.client \in timely => a.from = a.query.server

(* No answer is stranded: the record that an answer in flight to a timely  *)
(* client needs is there, is the record of that very query, and no other   *)
(* answer in flight can consume it first.                                  *)
InFlightTracked ==
    \A p \in net :
        (p.redirected /\ p.query.client \in timely) =>
            /\ p.query.client \in DOMAIN conntrack
            /\ conntrack[p.query.client] =
                  [dst |-> p.query.server, age |-> p.age]
            /\ \A r \in net : r.query.client = p.query.client => r = p

(* With redirection configured, no query of that family leaves the machine *)
(* for the server it names while the engine runs: what the DNS settings    *)
(* promise, for every port of the resolver.  (A timely client has nothing  *)
(* in flight from before the engine was started.)                          *)
QueriesRedirected ==
    \A p \in net :
        (up /\ p.query.client \in timely /\ RedirectEnabled(p.query.client))
            => p.redirected

(* A client whose query or answer was lost is not locked out of a running  *)
(* engine: the record that makes it drop the retransmissions goes away, or *)
(* is replaced when a retransmission is redirected again.                  *)
ClientNotLockedOut ==
    \A c \in Client :
        (up /\ c \in DOMAIN conntrack /\ conntrack[c].age >= Interval)
            ~> (c \in DOMAIN conntrack /\ up => conntrack[c].age = 0)

-----------------------------------------------------------------------------
(* The translation this implements: a record is the query outstanding, and *)
(* only answers whose source dns_handle_incoming restored are translated.  *)
Asked ==
    [c \in Client |->
        IF c \in DOMAIN conntrack THEN conntrack[c].dst ELSE Nobody]

Translated ==
    {[client |-> a.query.client, from |-> a.from] :
        a \in {b \in delivered : b.restored}}

Translation == INSTANCE AddressTranslation WITH
    asked      <- Asked,
    translated <- Translated

(* Whatever is lost, late or duplicated, and however often the engine is   *)
(* restarted: a query is answered at most once, under an address its own   *)
(* client asked.  A late answer can only take the place of the answer to   *)
(* the same client's newer query.                                          *)
ImplementsTranslation == Translation!Spec
=============================================================================
