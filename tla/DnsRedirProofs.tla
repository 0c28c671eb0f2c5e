---------------------------- MODULE DnsRedirProofs ----------------------------
(***************************************************************************)
(* Proofs about DnsRedir, for any clients, servers, ports, modes and       *)
(* network, except where a theorem names what it assumes.                  *)
(***************************************************************************)
EXTENDS DnsRedir, ConntrackProofs

(* The invariant the safety theorems rest on.                              *)
Inv == TypeOK /\ RecordsAreYoung

-----------------------------------------------------------------------------
(* What dns_cleanup leaves, in a state of the invariant.                   *)
LEMMA CleanupType ==
    ASSUME Inv
    PROVE  /\ DOMAIN dns_cleanup \subseteq DOMAIN conntrack
           /\ \A c \in DOMAIN dns_cleanup :
                 /\ dns_cleanup[c] = conntrack[c]
                 /\ dns_cleanup[c] \in Record
                 /\ dns_cleanup[c].age < SinceCleaned(sinceCleanup) + Interval
                 /\ dns_cleanup[c].age < 2 * Interval
           /\ \A c \in DOMAIN conntrack :
                 conntrack[c].age < Interval => c \in DOMAIN dns_cleanup
           /\ SinceCleaned(sinceCleanup) \in Ages
<1>1. Aged(conntrack)
  BY DEF Inv, TypeOK, Record, Aged
<1>2. Young(conntrack, sinceCleanup) /\ sinceCleanup \in Ages \cup {Never}
  BY DEF Inv, TypeOK, RecordsAreYoung
<1>3. /\ DOMAIN dns_cleanup \subseteq DOMAIN conntrack
      /\ \A c \in DOMAIN dns_cleanup : dns_cleanup[c] = conntrack[c]
      /\ \A c \in DOMAIN conntrack :
            conntrack[c].age < Interval => c \in DOMAIN dns_cleanup
  BY CleanedKeeps DEF dns_cleanup
<1>4. /\ SinceCleaned(sinceCleanup) \in Ages
      /\ \A c \in DOMAIN dns_cleanup :
            /\ conntrack[c].age < SinceCleaned(sinceCleanup) + Interval
            /\ conntrack[c].age < 2 * Interval
  BY <1>1, <1>2, CleanedYoung DEF dns_cleanup
<1> QED  BY <1>3, <1>4 DEF Inv, TypeOK

(* A table that is the cleaned one, less some records, with the clock of   *)
(* the cleanup, satisfies the invariant's part about the table.            *)
LEMMA CleanedTable ==
    ASSUME Inv,
           sinceCleanup' = SinceCleaned(sinceCleanup),
           DOMAIN conntrack' \subseteq DOMAIN dns_cleanup,
           \A c \in DOMAIN conntrack' : conntrack'[c] = dns_cleanup[c]
    PROVE  /\ DOMAIN conntrack' \subseteq Client
           /\ \A c \in DOMAIN conntrack' : conntrack'[c] \in Record
           /\ sinceCleanup' \in Ages
           /\ RecordsAreYoung'
<1>1. DOMAIN conntrack' \subseteq Client
  BY CleanupType DEF Inv, TypeOK
<1>2. sinceCleanup' \in Ages /\ sinceCleanup' # Never
  BY CleanupType DEF Ages, Never
<1>3. \A c \in DOMAIN conntrack' :
         conntrack'[c] \in Record /\ conntrack'[c].age < sinceCleanup' + Interval
  BY CleanupType
<1> QED  BY <1>1, <1>2, <1>3 DEF RecordsAreYoung, Young

(* A query that is sent becomes a packet of age 0.                         *)
LEMMA SentPacket ==
    ASSUME NEW q \in Query, NEW redirected \in BOOLEAN,
           net \subseteq Packet, timely \subseteq Client, Sent(q, redirected)
    PROVE  net' \subseteq Packet /\ timely' \subseteq Client
<1>1. 0 \in 0..MaxDelay
  BY ModeAssumption
<1>2. [query |-> q, redirected |-> redirected, age |-> 0] \in Packet
  BY <1>1 DEF Packet
<1>3. q.client \in Client
  BY DEF Query
<1> QED  BY <1>2, <1>3 DEF Sent

-----------------------------------------------------------------------------
(* Inv is inductive.                                                       *)

LEMMA InvInit == Init => Inv
  BY IntervalAssumption DEF Init, Inv, TypeOK, RecordsAreYoung, Young, Ages, AgeCap, Never

LEMMA InvNext == Inv /\ [Next]_vars => Inv'
<1> SUFFICES ASSUME Inv, [Next]_vars PROVE Inv'
  OBVIOUS
<1> USE DEF Inv
<1>1. ASSUME NEW q \in Query, QueryUntouched(q) PROVE Inv'
  <2>1. net' \subseteq Packet /\ timely' \subseteq Client
    BY <1>1, SentPacket DEF QueryUntouched, TypeOK
  <2> QED  BY <1>1, <2>1 DEF QueryUntouched, TypeOK, RecordsAreYoung
<1>2. ASSUME NEW q \in Query, QueryRedirected(q) PROVE Inv'
  <2>1. net' \subseteq Packet /\ timely' \subseteq Client
    BY <1>2, SentPacket DEF QueryRedirected, TypeOK
  <2>2. /\ DOMAIN conntrack' = DOMAIN dns_cleanup \cup {q.client}
        /\ conntrack'[q.client] = [dst |-> q.server, age |-> 0]
        /\ \A c \in DOMAIN dns_cleanup : conntrack'[c] = dns_cleanup[c]
    BY <1>2 DEF QueryRedirected, With
  <2>3. q.client \in Client /\ q.server \in Server
    BY DEF Query
  <2>4. /\ sinceCleanup' = SinceCleaned(sinceCleanup)
        /\ sinceCleanup' \in Ages /\ sinceCleanup' # Never
    BY <1>2, CleanupType DEF QueryRedirected, Ages, Never
  <2>5. \A c \in DOMAIN conntrack' :
           conntrack'[c] \in Record /\ conntrack'[c].age < sinceCleanup' + Interval
    <3>1. /\ conntrack'[q.client] \in Record
          /\ conntrack'[q.client].age < sinceCleanup' + Interval
      <4>1. sinceCleanup' \in Nat /\ 0 < sinceCleanup' + Interval
        BY <2>4, IntervalAssumption DEF Ages, AgeCap
      <4>2. [dst |-> q.server, age |-> 0] \in Record
        BY <2>3, IntervalAssumption DEF Record, Ages, AgeCap
      <4> QED  BY <2>2, <4>1, <4>2
    <3>2. \A c \in DOMAIN dns_cleanup :
             conntrack'[c] \in Record /\ conntrack'[c].age < sinceCleanup' + Interval
      BY <2>2, <2>4, CleanupType
    <3> QED  BY <2>2, <3>1, <3>2
  <2>6. DOMAIN conntrack' \subseteq Client
    BY <2>2, <2>3, CleanupType DEF TypeOK
  <2>7. TypeOK'
    BY <1>2, <2>1, <2>4, <2>5, <2>6 DEF QueryRedirected, TypeOK
  <2> QED  BY <2>4, <2>5, <2>7 DEF RecordsAreYoung, Young
<1>3. ASSUME NEW q \in Query, QueryDropped(q) PROVE Inv'
  BY <1>3, CleanedTable DEF QueryDropped, TypeOK
<1>4. ASSUME NEW c \in Client, NonDnsDatagram(c) PROVE Inv'
  BY <1>4, CleanedTable DEF NonDnsDatagram, TypeOK
<1>5. ASSUME NEW p \in net, AnswerUntouched(p) PROVE Inv'
  <2>1. /\ net' \subseteq Packet /\ delivered' \subseteq Answer
        /\ timely' \subseteq Client
    BY <1>5 DEF AnswerUntouched, Received, TypeOK, Packet, Query, Answer, Address, SourceOf
  <2> QED  BY <1>5, <2>1 DEF AnswerUntouched, TypeOK, RecordsAreYoung
<1>6. ASSUME NEW p \in net, AnswerRewritten(p) PROVE Inv'
  <2>1. net' \subseteq Packet /\ timely' \subseteq Client
    BY <1>6 DEF AnswerRewritten, Received, TypeOK
  <2>2. dns_cleanup[p.query.client].dst \in Server
    BY <1>6, CleanupType DEF AnswerRewritten, Record
  <2>3. delivered' \subseteq Answer
    BY <1>6, <2>2 DEF AnswerRewritten, TypeOK, Packet, Answer, Address
  <2>4. /\ DOMAIN conntrack' \subseteq DOMAIN dns_cleanup
        /\ \A c \in DOMAIN conntrack' : conntrack'[c] = dns_cleanup[c]
    BY <1>6 DEF AnswerRewritten, Without
  <2> QED  BY <1>6, <2>1, <2>3, <2>4, CleanedTable DEF AnswerRewritten, TypeOK
<1>7. ASSUME NEW p \in net, AnswerDropped(p) PROVE Inv'
  <2>1. net' \subseteq Packet /\ timely' \subseteq Client
    BY <1>7 DEF AnswerDropped, Received, TypeOK
  <2> QED  BY <1>7, <2>1, CleanedTable DEF AnswerDropped, TypeOK
<1>8. ASSUME NEW p \in net, Lose(p) PROVE Inv'
  BY <1>8 DEF Lose, TypeOK, RecordsAreYoung
<1>9. CASE Tick
  <2>1. Aged(conntrack) /\ Young(conntrack, sinceCleanup)
    BY DEF TypeOK, Record, Aged, RecordsAreYoung
  <2>2. OlderSince(sinceCleanup) \in Ages \cup {Never}
    BY <2>1, OlderYoung DEF TypeOK
  <2>3. /\ DOMAIN conntrack' = DOMAIN conntrack
        /\ \A c \in DOMAIN conntrack :
              conntrack'[c] = [conntrack[c] EXCEPT !.age = Older(@)]
    BY <1>9 DEF Tick, OlderTable
  <2>4. \A c \in DOMAIN conntrack :
           /\ conntrack'[c] \in Record
           /\ conntrack'[c].age = Older(conntrack[c].age)
    BY <2>3, OlderInRange DEF TypeOK, Record
  <2>5. RecordsAreYoung'
    BY <1>9, <2>1, <2>3, <2>4, OlderYoung DEF Tick, RecordsAreYoung, Young, TypeOK
  <2>6. net' \subseteq Packet
    BY <1>9, ModeAssumption DEF Tick, TypeOK, Packet
  <2> QED  BY <1>9, <2>2, <2>3, <2>4, <2>5, <2>6 DEF Tick, TypeOK
<1>10. CASE Stop
  BY <1>10 DEF Stop, TypeOK, RecordsAreYoung
<1>11. CASE Start
  BY <1>11 DEF Start, dnsredir_clear, TypeOK, RecordsAreYoung, Young
<1>12. CASE UNCHANGED vars
  BY <1>12 DEF vars, TypeOK, RecordsAreYoung
<1> QED
  BY <1>1, <1>2, <1>3, <1>4, <1>5, <1>6, <1>7, <1>8, <1>9, <1>10, <1>11, <1>12
     DEF Next, Ask, Receive

LEMMA InvAlways == Spec => []Inv
  BY InvInit, InvNext, PTL DEF Spec

(* Every state variable stays within its declared range.                   *)
THEOREM TypeCorrect == Spec => []TypeOK
  BY InvAlways, PTL DEF Inv

(* No record is ever Interval seconds older than the last cleanup, however *)
(* packets, losses, duplicates and restarts interleave: the invariant that *)
(* makes dns_cleanup's lazy schedule sufficient.                           *)
THEOREM RecordsStayYoung == Spec => []RecordsAreYoung
  BY InvAlways, PTL DEF Inv
-----------------------------------------------------------------------------
(* How a record can leave the table: expired, its answer rewritten, or     *)
(* cleared by a restart.                                                   *)
LEMMA RecordLeaves ==
    ASSUME Inv, Next,
           NEW c \in DOMAIN conntrack, c \notin DOMAIN conntrack'
    PROVE  \/ conntrack[c].age >= Interval /\ c \notin DOMAIN dns_cleanup
           \/ \E p \in net : AnswerRewritten(p) /\ p.query.client = c
           \/ ~up /\ delivered' = {}
<1> DEFINE Goal ==
       \/ conntrack[c].age >= Interval /\ c \notin DOMAIN dns_cleanup
       \/ \E p \in net : AnswerRewritten(p) /\ p.query.client = c
       \/ ~up /\ delivered' = {}
<1>1. ASSUME c \notin DOMAIN dns_cleanup PROVE Goal
  <2>1. ~(conntrack[c].age < Interval)
    BY <1>1, CleanupType
  <2>2. conntrack[c].age \in Nat
    BY IntervalAssumption DEF Inv, TypeOK, Record, Ages, AgeCap
  <2> QED  BY <1>1, <2>1, <2>2, IntervalAssumption
<1>2. ASSUME NEW q \in Query, Ask(q) PROVE Goal
  <2>1. CASE QueryUntouched(q)
    BY <2>1 DEF QueryUntouched
  <2>2. CASE QueryRedirected(q)
    BY <2>2, <1>1 DEF QueryRedirected, With
  <2>3. CASE QueryDropped(q)
    BY <2>3, <1>1 DEF QueryDropped
  <2> QED  BY <1>2, <2>1, <2>2, <2>3 DEF Ask
<1>3. ASSUME NEW d \in Client, NonDnsDatagram(d) PROVE Goal
  BY <1>1, <1>3 DEF NonDnsDatagram
<1>4. ASSUME NEW p \in net, Receive(p) PROVE Goal
  <2>1. CASE AnswerUntouched(p)
    BY <2>1 DEF AnswerUntouched
  <2>2. CASE AnswerRewritten(p)
    <3>1. c \notin DOMAIN dns_cleanup \/ c = p.query.client
      BY <2>2 DEF AnswerRewritten, Without
    <3> QED  BY <1>1, <2>2, <3>1
  <2>3. CASE AnswerDropped(p)
    BY <2>3, <1>1 DEF AnswerDropped
  <2> QED  BY <1>4, <2>1, <2>2, <2>3 DEF Receive
<1>5. ASSUME NEW p \in net, Lose(p) PROVE Goal
  BY <1>5 DEF Lose
<1>6. CASE Tick
  BY <1>6 DEF Tick, OlderTable
<1>7. CASE Stop
  BY <1>7 DEF Stop
<1>8. CASE Start
  BY <1>8 DEF Start
<1> QED  BY <1>2, <1>3, <1>4, <1>5, <1>6, <1>7, <1>8 DEF Next

(* An answer is only ever rewritten from a record less than two cleanup    *)
(* intervals old.                                                          *)
THEOREM MatchesAreFresh == Spec => FreshMatch
<1>1. Inv /\ [Next]_vars => [FreshMatchStep]_vars
  <2> SUFFICES ASSUME Inv, Next,
                      NEW c \in DOMAIN conntrack \ DOMAIN conntrack',
                      NEW a \in delivered', a.query.client = c
               PROVE  conntrack[c].age < 2 * Interval
    BY DEF FreshMatchStep
  <2>1. CASE c \in DOMAIN dns_cleanup
    BY <2>1, CleanupType
  <2>2. CASE c \notin DOMAIN dns_cleanup
    <3>1. c \in DOMAIN conntrack' \/ delivered' = {}
            \/ \E p \in net : AnswerRewritten(p) \/ AnswerUntouched(p)
      BY DEF Next, Ask, Receive, QueryUntouched, QueryRedirected, QueryDropped,
             NonDnsDatagram, AnswerDropped, Lose, Tick, Stop, Start
    <3>2. PICK p \in net : AnswerRewritten(p) \/ AnswerUntouched(p)
      BY <3>1
    <3>3. CASE AnswerRewritten(p)
      BY <2>2, <3>3 DEF AnswerRewritten
    <3>4. CASE AnswerUntouched(p)
      BY <3>4 DEF AnswerUntouched
    <3> QED  BY <3>2, <3>3, <3>4
  <2> QED  BY <2>1, <2>2
<1> QED  BY <1>1, InvAlways, PTL DEF Spec, FreshMatch

(* While the engine runs, a record leaves the table only with its answer   *)
(* delivered under the recorded address, or at least Interval old.         *)
THEOREM RecordsKeptUntilDue == Spec => NoEarlyExpiry
<1>1. Inv /\ [Next]_vars => [NoEarlyExpiryStep]_vars
  <2> SUFFICES ASSUME Inv, Next,
                      NEW c \in DOMAIN conntrack \ DOMAIN conntrack'
               PROVE  \/ conntrack[c].age >= Interval
                      \/ ~up
                      \/ \E a \in delivered' :
                            a.query.client = c /\ a.from = conntrack[c].dst
    BY DEF NoEarlyExpiryStep
  <2>1. ASSUME NEW p \in net, AnswerRewritten(p), p.query.client = c
        PROVE  \E a \in delivered' :
                  a.query.client = c /\ a.from = conntrack[c].dst
    BY <2>1, CleanupType DEF AnswerRewritten
  <2> QED  BY <2>1, RecordLeaves
<1> QED  BY <1>1, InvAlways, PTL DEF Spec, NoEarlyExpiry

RefusedYoung ==
    \A q \in Query : QueryDropped(q) => conntrack[q.client].age < 2 * Interval

(* A client whose answer was lost is refused for less than two cleanup     *)
(* intervals: a query is only dropped for the sake of a younger record.    *)
(* This is the safety half of ClientNotLockedOut.                          *)
THEOREM LockOutBounded == Spec => [][RefusedYoung]_vars
<1>1. Inv => [RefusedYoung]_vars
  BY CleanupType DEF RefusedYoung, QueryDropped
<1> QED  BY <1>1, InvAlways, PTL

-----------------------------------------------------------------------------
(* The translation is correct for every timely client, one whose packets   *)
(* in flight left within Interval, once, and under the running engine,     *)
(* when every process is handled.                                          *)

Prompt == ~SelectApps /\ MaxDelay < Interval

Caught(c) == StubPort \in FilterPorts /\ RedirectEnabled(c)

(* InFlightTracked is not inductive by itself: that a query is redirected  *)
(* exactly when its answer will be caught has to be part of the invariant. *)
RedirectedIffCaught ==
    \A p \in net :
        p.query.client \in timely
            => (p.redirected <=> (up /\ Caught(p.query.client)))

TimelyInv ==
    /\ Inv
    /\ RedirectedIffCaught
    /\ InFlightTracked

LEMMA CaughtBothWays ==
    ASSUME Prompt
    PROVE  /\ \A c : OutboundHandled(c) <=> (up /\ Caught(c))
           /\ \A p : (p.redirected <=> (up /\ Caught(p.query.client)))
                        => (InboundHandled(p) <=> p.redirected)
<1>1. \A c : OutboundHandled(c) <=> (up /\ Caught(c))
  BY DEF Prompt, OutboundHandled, Caught
<1>2. ASSUME NEW p, p.redirected <=> (up /\ Caught(p.query.client))
      PROVE  InboundHandled(p) <=> p.redirected
  <2>1. CASE p.redirected
    <3>1. up /\ RedirectEnabled(p.query.client)
      BY <1>2, <2>1 DEF Caught
    <3>2. DnsPort(p.query.client) \in FilterPorts
      BY <3>1 DEF RedirectEnabled, DnsPort, FilterPorts
    <3> QED  BY <2>1, <3>1, <3>2 DEF Prompt, InboundHandled, AnswerPort
  <2>2. CASE ~p.redirected
    BY <1>2, <2>2 DEF InboundHandled, AnswerPort, Caught
  <2> QED  BY <2>1, <2>2
<1> QED  BY <1>1, <1>2

(* The packet of a timely client is younger than Interval, and so is its   *)
(* record, which therefore survives the cleanup.                           *)
LEMMA RecordSurvives ==
    ASSUME Prompt, TimelyInv, NEW p \in net, p.redirected,
           p.query.client \in timely
    PROVE  /\ p.query.client \in DOMAIN dns_cleanup
           /\ dns_cleanup[p.query.client] = [dst |-> p.query.server, age |-> p.age]
           /\ \A r \in net : r.query.client = p.query.client => r = p
<1>1. p.age < Interval
  BY ModeAssumption, IntervalAssumption DEF Prompt, TimelyInv, Inv, TypeOK, Packet
<1>2. /\ p.query.client \in DOMAIN conntrack
      /\ conntrack[p.query.client] = [dst |-> p.query.server, age |-> p.age]
      /\ \A r \in net : r.query.client = p.query.client => r = p
  BY DEF TimelyInv, InFlightTracked
<1>3. p.query.client \in DOMAIN dns_cleanup
  BY <1>1, <1>2, CleanupType DEF TimelyInv
<1> QED  BY <1>2, <1>3, CleanupType DEF TimelyInv

(* Packets that stay keep their records when the table is the cleaned one, *)
(* less records of clients with nothing left in flight.                    *)
LEMMA StillTracked ==
    ASSUME Prompt, TimelyInv, net' \subseteq net, timely' \subseteq timely, up' = up,
           \A p \in net' : p.query.client \in DOMAIN dns_cleanup \cap timely'
                              => /\ p.query.client \in DOMAIN conntrack'
                                 /\ conntrack'[p.query.client]
                                       = dns_cleanup[p.query.client]
    PROVE  InFlightTracked'
<1> SUFFICES ASSUME NEW p \in net', p.redirected, p.query.client \in timely'
             PROVE  /\ p.query.client \in DOMAIN conntrack'
                    /\ conntrack'[p.query.client]
                          = [dst |-> p.query.server, age |-> p.age]
                    /\ \A r \in net' : r.query.client = p.query.client => r = p
  BY DEF InFlightTracked
<1>1. p \in net /\ p.query.client \in timely
  OBVIOUS
<1> QED  BY <1>1, RecordSurvives

(* The same when nothing happens to the table.                             *)
LEMMA TableUnchanged ==
    ASSUME TimelyInv, net' \subseteq net, timely' \subseteq timely,
           UNCHANGED conntrack
    PROVE  InFlightTracked'
BY DEF TimelyInv, InFlightTracked

(* Packets that stay were redirected as before.                            *)
LEMMA FlagsUnchanged ==
    ASSUME TimelyInv, net' \subseteq net, timely' \subseteq timely, up' = up
    PROVE  RedirectedIffCaught'
BY DEF TimelyInv, RedirectedIffCaught, Caught, RedirectEnabled, DnsPort, FilterPorts

(* A query that is sent: it starts the client afresh, or the client had    *)
(* nothing timely in flight.                                               *)
LEMMA SentStep ==
    ASSUME Prompt, TimelyInv, NEW q \in Query, NEW redirected \in BOOLEAN,
           Sent(q, redirected), up' = up,
           redirected <=> (up /\ Caught(q.client))
    PROVE  /\ RedirectedIffCaught'
           /\ \A p \in net' : p.query.client \in timely' =>
                 \/ p \in net /\ p.query.client \in timely
                 \/ /\ p = [query |-> q, redirected |-> redirected, age |-> 0]
                    /\ q.client \notin timely => q.client \notin InFlight
<1>1. \A p \in net' : \/ p \in net
                      \/ p = [query |-> q, redirected |-> redirected, age |-> 0]
  BY DEF Sent
<1>2. ASSUME NEW p \in net', p.query.client \in timely'
      PROVE  \/ p \in net /\ p.query.client \in timely
             \/ /\ p = [query |-> q, redirected |-> redirected, age |-> 0]
                /\ q.client \notin timely => q.client \notin InFlight
  BY <1>1, <1>2 DEF Sent, InFlight
<1>3. ASSUME NEW p \in net', p.query.client \in timely'
      PROVE  p.redirected <=> (up /\ Caught(p.query.client))
  <2>1. CASE p \in net /\ p.query.client \in timely
    BY <2>1 DEF TimelyInv, RedirectedIffCaught
  <2>2. CASE p = [query |-> q, redirected |-> redirected, age |-> 0]
    BY <2>2
  <2> QED  BY <1>2, <1>3, <2>1, <2>2
<1> QED
  BY <1>2, <1>3 DEF RedirectedIffCaught, Caught, RedirectEnabled, DnsPort, FilterPorts

LEMMA RedirectedTracked ==
    ASSUME Prompt, TimelyInv, NEW q \in Query, QueryRedirected(q)
    PROVE  RedirectedIffCaught' /\ InFlightTracked'
<1>1. up /\ Caught(q.client) /\ up' = up
  BY CaughtBothWays DEF QueryRedirected
<1>2. Sent(q, TRUE)
  BY DEF QueryRedirected
<1>3. /\ RedirectedIffCaught'
      /\ \A p \in net' : p.query.client \in timely' =>
            \/ p \in net /\ p.query.client \in timely
            \/ /\ p = [query |-> q, redirected |-> TRUE, age |-> 0]
               /\ q.client \notin timely => q.client \notin InFlight
  BY <1>1, <1>2, SentStep
<1>4. ASSUME NEW p \in net, p.query.client \in timely
      PROVE  p.query.client # q.client
  <2> SUFFICES ASSUME p.query.client = q.client PROVE FALSE
    OBVIOUS
  <2>1. p.redirected
    BY <1>1, <1>4 DEF TimelyInv, RedirectedIffCaught
  <2> QED  BY <1>4, <2>1, RecordSurvives DEF QueryRedirected
<1>5. /\ DOMAIN conntrack' = DOMAIN dns_cleanup \cup {q.client}
      /\ conntrack'[q.client] = [dst |-> q.server, age |-> 0]
      /\ \A c \in DOMAIN dns_cleanup : conntrack'[c] = dns_cleanup[c]
  BY DEF QueryRedirected, With
<1>6. ASSUME NEW p \in net', p.redirected, p.query.client \in timely'
      PROVE  /\ p.query.client \in DOMAIN conntrack'
             /\ conntrack'[p.query.client]
                   = [dst |-> p.query.server, age |-> p.age]
             /\ \A r \in net' : r.query.client = p.query.client => r = p
  <2>1. CASE p \in net /\ p.query.client \in timely
    <3>1. p.query.client # q.client
      BY <2>1, <1>4
    <3>2. \A r \in net' : r.query.client = p.query.client => r \in net
      BY <1>3, <1>6, <3>1
    <3> QED  BY <1>5, <1>6, <2>1, <3>1, <3>2, RecordSurvives
  <2>2. CASE /\ p = [query |-> q, redirected |-> TRUE, age |-> 0]
             /\ q.client \notin timely => q.client \notin InFlight
    <3>1. \A r \in net : r.query.client # q.client
      BY <2>2, <1>4 DEF InFlight
    <3>2. \A r \in net' : r.query.client = q.client
                            => r = [query |-> q, redirected |-> TRUE, age |-> 0]
      BY <1>3, <1>6, <2>2, <3>1
    <3> QED  BY <1>5, <2>2, <3>2
  <2> QED  BY <1>3, <1>6, <2>1, <2>2
<1> QED  BY <1>3, <1>6 DEF InFlightTracked

LEMMA UntouchedTracked ==
    ASSUME Prompt, TimelyInv, NEW q \in Query, QueryUntouched(q)
    PROVE  RedirectedIffCaught' /\ InFlightTracked'
<1>1. ~(up /\ Caught(q.client)) /\ up' = up
  BY CaughtBothWays DEF QueryUntouched
<1>2. Sent(q, FALSE)
  BY DEF QueryUntouched
<1>3. /\ RedirectedIffCaught'
      /\ \A p \in net' : p.query.client \in timely' =>
            \/ p \in net /\ p.query.client \in timely
            \/ p = [query |-> q, redirected |-> FALSE, age |-> 0]
  BY <1>1, <1>2, SentStep
<1>4. ASSUME NEW p \in net', p.redirected, p.query.client \in timely'
      PROVE  /\ p.query.client \in DOMAIN conntrack'
             /\ conntrack'[p.query.client]
                   = [dst |-> p.query.server, age |-> p.age]
             /\ \A r \in net' : r.query.client = p.query.client => r = p
  <2>1. p \in net /\ p.query.client \in timely
    BY <1>3, <1>4
  <2>2. p.query.client # q.client
    BY <1>1, <1>4, <2>1 DEF TimelyInv, RedirectedIffCaught
  <2>3. \A r \in net' : r.query.client = p.query.client => r \in net
    BY <1>3, <1>4, <2>2
  <2> QED
    BY <1>4, <2>1, <2>3 DEF QueryUntouched, TimelyInv, InFlightTracked
<1> QED  BY <1>3, <1>4 DEF InFlightTracked

LEMMA TickTracked ==
    ASSUME Prompt, TimelyInv, Tick
    PROVE  RedirectedIffCaught' /\ InFlightTracked'
<1>1. \A p \in net : p \in Packet
  BY DEF TimelyInv, Inv, TypeOK
<1>2. ASSUME NEW p \in net', p.query.client \in timely'
      PROVE  \E r \in net : /\ r.query = p.query
                            /\ r.redirected = p.redirected
                            /\ p = [r EXCEPT !.age = r.age + 1]
                            /\ p.age = r.age + 1
                            /\ r.age # MaxDelay
                            /\ r.query.client \in timely
  <2>1. PICK r \in net :
             p = [r EXCEPT !.age = IF @ = MaxDelay THEN MaxDelay ELSE @ + 1]
    BY <1>2 DEF Tick
  <2>2. r.query = p.query /\ r.redirected = p.redirected
    BY <1>1, <2>1 DEF Packet
  <2>3. r.query.client \in timely /\ r.age # MaxDelay
    BY <1>2, <2>2 DEF Tick
  <2>4. p = [r EXCEPT !.age = r.age + 1] /\ p.age = r.age + 1
    BY <1>1, <2>1, <2>3 DEF Packet
  <2> QED  BY <2>2, <2>3, <2>4
<1>3. RedirectedIffCaught'
  <2> SUFFICES ASSUME NEW p \in net', p.query.client \in timely'
               PROVE  p.redirected <=> (up' /\ Caught(p.query.client)')
    BY DEF RedirectedIffCaught, Caught, RedirectEnabled, DnsPort, FilterPorts
  <2>1. p.redirected <=> (up /\ Caught(p.query.client))
    BY <1>2 DEF TimelyInv, RedirectedIffCaught
  <2> QED
    BY <2>1 DEF Tick, Caught, RedirectEnabled, DnsPort, FilterPorts
<1>4. /\ DOMAIN conntrack' = DOMAIN conntrack
      /\ \A c \in DOMAIN conntrack :
            conntrack'[c] = [conntrack[c] EXCEPT !.age = Older(@)]
  BY DEF Tick, OlderTable
<1>5. ASSUME NEW p \in net', p.redirected, p.query.client \in timely'
      PROVE  /\ p.query.client \in DOMAIN conntrack'
             /\ conntrack'[p.query.client]
                   = [dst |-> p.query.server, age |-> p.age]
             /\ \A t \in net' : t.query.client = p.query.client => t = p
  <2>1. PICK r \in net : /\ r.query = p.query
                         /\ r.redirected = p.redirected
                         /\ p = [r EXCEPT !.age = r.age + 1]
                         /\ p.age = r.age + 1
                         /\ r.age # MaxDelay
                         /\ r.query.client \in timely
    BY <1>2, <1>5
  <2>2. /\ r.query.client \in DOMAIN conntrack
        /\ conntrack[r.query.client] = [dst |-> r.query.server, age |-> r.age]
        /\ \A u \in net : u.query.client = r.query.client => u = r
    BY <1>5, <2>1 DEF TimelyInv, InFlightTracked
  <2>3. Older(r.age) = r.age + 1
    <3>1. r.age \in 0..MaxDelay
      BY <1>1 DEF Packet
    <3> QED  BY <2>1, <3>1, ModeAssumption, IntervalAssumption
             DEF Prompt, Older, AgeCap
  <2>4. conntrack'[p.query.client] = [dst |-> p.query.server, age |-> p.age]
    BY <1>4, <2>1, <2>2, <2>3
  <2>5. ASSUME NEW t \in net', t.query.client = p.query.client
        PROVE  t = p
    <3>1. PICK u \in net : u.query = t.query /\ t = [u EXCEPT !.age = u.age + 1]
      BY <1>2, <1>5, <2>5
    <3> QED  BY <2>1, <2>2, <2>5, <3>1
  <2> QED  BY <1>4, <2>1, <2>2, <2>4, <2>5
<1> QED  BY <1>3, <1>5 DEF InFlightTracked

(* A timely client's packet is received as it was sent.                    *)
LEMMA ReceivedTracked ==
    ASSUME Prompt, TimelyInv, NEW p \in net, Receive(p)
    PROVE  RedirectedIffCaught' /\ InFlightTracked' /\ Matched'
<1>1. /\ net' \subseteq net /\ timely' \subseteq timely
      /\ p.query.client \in timely' => net' = net \ {p}
  BY DEF Receive, AnswerUntouched, AnswerRewritten, AnswerDropped, Received
<1>2. up' = up
  BY DEF Receive, AnswerUntouched, AnswerRewritten, AnswerDropped
<1>3. RedirectedIffCaught'
  BY <1>1, <1>2, FlagsUnchanged
<1>4. p.query.client \in timely => (InboundHandled(p) <=> p.redirected)
  BY CaughtBothWays DEF TimelyInv, RedirectedIffCaught
<1>5. CASE AnswerUntouched(p)
  <2>1. p.query.client \in timely => SourceOf(p) = p.query.server
    BY <1>4, <1>5 DEF AnswerUntouched, SourceOf
  <2> QED
    BY <1>1, <1>3, <1>5, <2>1, TableUnchanged DEF AnswerUntouched, Matched
<1>6. CASE AnswerRewritten(p)
  <2>1. ASSUME p.query.client \in timely'
        PROVE  /\ dns_cleanup[p.query.client].dst = p.query.server
               /\ \A r \in net' : r.query.client # p.query.client
    <3>1. p.redirected /\ p.query.client \in timely
      BY <1>1, <1>4, <1>6, <2>1 DEF AnswerRewritten
    <3>2. /\ dns_cleanup[p.query.client] = [dst |-> p.query.server, age |-> p.age]
          /\ \A r \in net : r.query.client = p.query.client => r = p
      BY <3>1, RecordSurvives
    <3> QED  BY <1>1, <2>1, <3>2
  <2>2. InFlightTracked'
    BY <1>1, <1>2, <1>6, <2>1, StillTracked DEF AnswerRewritten, Without
  <2> QED  BY <1>3, <1>6, <2>1, <2>2 DEF AnswerRewritten, Matched
<1>7. CASE AnswerDropped(p)
  BY <1>1, <1>2, <1>3, <1>7, StillTracked DEF AnswerDropped, Matched
<1> QED  BY <1>5, <1>6, <1>7 DEF Receive

LEMMA TimelyStep ==
    ASSUME Prompt, TimelyInv, Next
    PROVE  RedirectedIffCaught' /\ InFlightTracked' /\ Matched'
<1> DEFINE Goal == RedirectedIffCaught' /\ InFlightTracked' /\ Matched'
<1>1. ASSUME NEW q \in Query, QueryUntouched(q) PROVE Goal
  BY <1>1, UntouchedTracked DEF QueryUntouched, Matched
<1>2. ASSUME NEW q \in Query, QueryRedirected(q) PROVE Goal
  BY <1>2, RedirectedTracked DEF QueryRedirected, Matched
<1>3. ASSUME NEW q \in Query, QueryDropped(q) PROVE Goal
  BY <1>3, StillTracked, FlagsUnchanged DEF QueryDropped, Matched
<1>4. ASSUME NEW c \in Client, NonDnsDatagram(c) PROVE Goal
  BY <1>4, StillTracked, FlagsUnchanged DEF NonDnsDatagram, Matched
<1>5. ASSUME NEW p \in net, Receive(p) PROVE Goal
  BY <1>5, ReceivedTracked
<1>6. ASSUME NEW p \in net, Lose(p) PROVE Goal
  BY <1>6, TableUnchanged, FlagsUnchanged DEF Lose, Matched
<1>7. CASE Tick
  BY <1>7, TickTracked DEF Tick, Matched
<1>8. CASE Stop \/ Start
  <2>1. \A p \in net' : p.query.client \notin timely'
    BY <1>8 DEF Stop, Start, InFlight
  <2> QED
    BY <1>8, <2>1 DEF Stop, Start, RedirectedIffCaught, InFlightTracked, Matched
<1> QED
  BY <1>1, <1>2, <1>3, <1>4, <1>5, <1>6, <1>7, <1>8 DEF Next, Ask

LEMMA TimelyAlways == Prompt /\ Spec => [](TimelyInv /\ Matched)
<1> SUFFICES ASSUME Prompt PROVE Spec => [](TimelyInv /\ Matched)
  OBVIOUS
<1>1. Init => TimelyInv /\ Matched
  BY InvInit DEF Init, TimelyInv, RedirectedIffCaught, InFlightTracked, Matched
<1>2. TimelyInv /\ Matched /\ [Next]_vars => (TimelyInv /\ Matched)'
  <2> SUFFICES ASSUME TimelyInv, Matched, [Next]_vars
               PROVE  (TimelyInv /\ Matched)'
    OBVIOUS
  <2>1. Inv'
    BY InvNext DEF TimelyInv
  <2>2. CASE Next
    BY <2>1, <2>2, TimelyStep DEF TimelyInv
  <2>3. CASE UNCHANGED vars
    <3>1. InFlightTracked' /\ RedirectedIffCaught'
      BY <2>3, TableUnchanged, FlagsUnchanged DEF vars
    <3> QED  BY <2>1, <2>3, <3>1 DEF vars, TimelyInv, Matched
  <2> QED  BY <2>2, <2>3
<1> QED  BY <1>1, <1>2, PTL DEF Spec

(* No answer in flight to a timely client is stranded: its record is in    *)
(* the table and is its own, whatever queries, losses, cleanups and        *)
(* restarts happen and whatever becomes of the packets of other clients.   *)
THEOREM AnswersStayTracked == Prompt /\ Spec => []InFlightTracked
  BY TimelyAlways, PTL DEF TimelyInv

(* Every answer reaches a timely client under the address the client       *)
(* asked: the redirection is transparent to it.                            *)
THEOREM AnswersMatch == Prompt /\ Spec => []Matched
  BY TimelyAlways, PTL

(* Which queries are redirected: those of a family that has a resolver,    *)
(* when port 53 is among the captured ports, and no others.  The captured  *)
(* ports are the resolvers' own, so with a resolver on any other port and  *)
(* none on 53 (the DnsOtherPort run) no query is redirected at all.        *)
THEOREM RedirectionExact == Prompt /\ Spec => []RedirectedIffCaught
  BY TimelyAlways, PTL DEF TimelyInv

-----------------------------------------------------------------------------
(* Outside select-apps mode, with the engine left running, the resolver is *)
(* hidden whatever the network does: the answers that reveal it are those  *)
(* the loop does not handle.                                               *)
HiddenInv ==
    /\ Inv
    /\ up
    /\ \A p \in net : p.redirected => RedirectEnabled(p.query.client)

LEMMA RedirectedHandled ==
    ASSUME ~SelectApps, HiddenInv, NEW p \in net, p.redirected
    PROVE  InboundHandled(p)
<1>1. RedirectEnabled(p.query.client)
  BY DEF HiddenInv
<1>2. DnsPort(p.query.client) \in FilterPorts
  BY <1>1 DEF RedirectEnabled, DnsPort, FilterPorts
<1> QED BY <1>1, <1>2 DEF HiddenInv, InboundHandled, AnswerPort

LEMMA HiddenStep ==
    ASSUME ~SelectApps, Resolver \notin Server,
           HiddenInv, ResolverHidden, Next, up' = up
    PROVE  /\ up'
           /\ \A p \in net' : p.redirected => RedirectEnabled(p.query.client)
           /\ ResolverHidden'
<1> USE DEF ResolverHidden
<1>0. /\ up
      /\ \A p \in net : p.redirected => RedirectEnabled(p.query.client)
  BY DEF HiddenInv
<1>1. ASSUME NEW q \in Query, Ask(q)
      PROVE  /\ up' /\ delivered' = {}
             /\ \A p \in net' : p.redirected => RedirectEnabled(p.query.client)
  <2>1. CASE QueryUntouched(q)
    BY <1>0, <2>1 DEF QueryUntouched, Sent
  <2>2. CASE QueryRedirected(q)
    <3>1. RedirectEnabled(q.client)
      BY <2>2 DEF QueryRedirected, OutboundHandled
    <3> QED BY <1>0, <2>2, <3>1 DEF QueryRedirected, Sent
  <2>3. CASE QueryDropped(q)
    BY <1>0, <2>3 DEF QueryDropped
  <2> QED BY <1>1, <2>1, <2>2, <2>3 DEF Ask
<1>2. ASSUME NEW p \in net, Receive(p)
      PROVE  up' /\ net' \subseteq net /\ ResolverHidden'
  <2>1. p.query.server \in Server
    BY DEF HiddenInv, Inv, TypeOK, Packet, Query
  <2>2. CASE AnswerUntouched(p)
    <3>1. ~p.redirected
      BY <2>2, RedirectedHandled DEF AnswerUntouched
    <3> QED BY <1>0, <2>1, <2>2, <3>1 DEF AnswerUntouched, Received, SourceOf
  <2>3. CASE AnswerRewritten(p)
    <3>1. dns_cleanup[p.query.client].dst \in Server
      BY <2>3, CleanupType DEF HiddenInv, AnswerRewritten, Record
    <3> QED BY <1>0, <2>3, <3>1 DEF AnswerRewritten, Received
  <2>4. CASE AnswerDropped(p)
    BY <1>0, <2>4 DEF AnswerDropped, Received
  <2> QED BY <1>2, <2>2, <2>3, <2>4 DEF Receive
<1>3. CASE \E c \in Client : NonDnsDatagram(c)
  BY <1>0, <1>3 DEF NonDnsDatagram
<1>4. CASE \E p \in net : Lose(p)
  BY <1>0, <1>4 DEF Lose
<1>5. CASE Tick
  <2>1. \A p \in net' : \E r \in net : /\ r.redirected = p.redirected
                                     /\ r.query = p.query
    BY <1>5 DEF Tick, HiddenInv, Inv, TypeOK, Packet
  <2> QED BY <1>0, <1>5, <2>1 DEF Tick
<1> QED BY <1>0, <1>1, <1>2, <1>3, <1>4, <1>5 DEF Next, Stop, Start

(* Outside select-apps mode no client ever sees the resolver's address,    *)
(* whatever is lost, late or duplicated, as long as the engine is not      *)
(* stopped and nobody asks the resolver by itself: in a running engine,    *)
(* select-apps mode is what reveals it.                                    *)
THEOREM ResolverStaysHidden ==
    ASSUME ~SelectApps, Resolver \notin Server
    PROVE  Spec /\ [][up' = up]_vars => []ResolverHidden
<1>1. Init => HiddenInv /\ ResolverHidden
  BY InvInit DEF Init, HiddenInv, ResolverHidden
<1>2. HiddenInv /\ ResolverHidden /\ [Next]_vars /\ [up' = up]_vars
        => (HiddenInv /\ ResolverHidden)'
  <2> SUFFICES ASSUME HiddenInv, ResolverHidden, [Next]_vars, [up' = up]_vars
               PROVE  (HiddenInv /\ ResolverHidden)'
    OBVIOUS
  <2>1. Inv'
    BY InvNext DEF HiddenInv
  <2>2. CASE Next
    BY <2>1, <2>2, HiddenStep DEF vars, HiddenInv, RedirectEnabled, DnsPort
  <2>3. CASE UNCHANGED vars
    BY <2>1, <2>3 DEF vars, HiddenInv, ResolverHidden, RedirectEnabled, DnsPort
  <2> QED BY <2>2, <2>3
<1> QED BY <1>1, <1>2, PTL DEF Spec

-----------------------------------------------------------------------------
(* Refinement: the redirector is a one-shot translation.                   *)

AskedOf(table) ==
    [c \in Client |-> IF c \in DOMAIN table THEN table[c].dst ELSE Nobody]

(* What a cleanup deletes is forgotten.                                    *)
Expired == DOMAIN conntrack \ DOMAIN dns_cleanup

LEMMA CleanupForgets ==
    ASSUME Inv
    PROVE  /\ Expired \in SUBSET Client
           /\ Translation!Forgetting(Expired) = AskedOf(dns_cleanup)
           /\ \A c \in DOMAIN dns_cleanup :
                 c \in Client /\ dns_cleanup[c].dst \in Server
<1>1. /\ DOMAIN dns_cleanup \subseteq DOMAIN conntrack
      /\ \A c \in DOMAIN dns_cleanup :
            dns_cleanup[c] = conntrack[c] /\ dns_cleanup[c] \in Record
  BY CleanupType
<1>2. DOMAIN conntrack \subseteq Client
  BY DEF Inv, TypeOK
<1> QED  BY <1>1, <1>2 DEF Expired, Translation!Forgetting, Asked, AskedOf, Record

LEMMA NothingForgotten == Translation!Forgetting({}) = Asked
BY DEF Translation!Forgetting, Asked

(* A step that leaves the recorded servers alone and restores no answer.   *)
LEMMA UnseenStep ==
    ASSUME Asked' = Asked, Translated' = {}
    PROVE  Translation!Next
<1>1. Translation!Forget({})
  BY NothingForgotten DEF Translation!Forget
<1> QED  BY <1>1 DEF Translation!Next

(* A step that only cleans the table.                                      *)
LEMMA CleanupStep ==
    ASSUME Inv, conntrack' = dns_cleanup, delivered' = {}
    PROVE  Translation!Next
<1>1. Asked' = AskedOf(dns_cleanup) /\ Translated' = {}
  BY DEF Asked, AskedOf, Translated
<1>2. Translation!Forget(Expired)
  BY <1>1, CleanupForgets DEF Translation!Forget
<1> QED  BY <1>2, CleanupForgets DEF Translation!Next

LEMMA RedirectStep ==
    ASSUME Inv, NEW q \in Query, QueryRedirected(q)
    PROVE  Translation!Next
<1>1. q.client \in Client /\ q.server \in Server
  BY DEF Query
<1>2. /\ q.client \notin DOMAIN dns_cleanup
      /\ conntrack' = With(dns_cleanup, q.client, [dst |-> q.server, age |-> 0])
      /\ delivered' = {}
  BY DEF QueryRedirected
<1>3. Asked' = [AskedOf(dns_cleanup) EXCEPT ![q.client] = q.server]
  BY <1>1, <1>2 DEF Asked, AskedOf, With
<1>4. AskedOf(dns_cleanup)[q.client] = Nobody /\ Translated' = {}
  BY <1>1, <1>2 DEF AskedOf, Translated
<1>5. Translation!Ask(q.client, q.server, Expired)
  BY <1>3, <1>4, CleanupForgets DEF Translation!Ask
<1> QED  BY <1>1, <1>5, CleanupForgets DEF Translation!Next

LEMMA RewriteStep ==
    ASSUME Inv, NEW p \in net, AnswerRewritten(p)
    PROVE  Translation!Next
<1> DEFINE c == p.query.client
<1>1. /\ c \in DOMAIN dns_cleanup
      /\ conntrack' = Without(dns_cleanup, c)
      /\ delivered' = {[query |-> p.query, from |-> dns_cleanup[c].dst,
                        restored |-> TRUE]}
  BY DEF AnswerRewritten
<1>2. c \in Client /\ dns_cleanup[c].dst \in Server
  BY <1>1, CleanupForgets
<1>3. Asked[c] = dns_cleanup[c].dst /\ dns_cleanup[c].dst # Nobody
  BY <1>1, <1>2, CleanupType, ClientAssumption DEF Asked
<1>4. AskedOf(dns_cleanup)[c] = dns_cleanup[c].dst
  BY <1>1, <1>2 DEF AskedOf
<1>5. Asked' = [AskedOf(dns_cleanup) EXCEPT ![c] = Nobody]
  BY <1>1, <1>2 DEF Asked, AskedOf, Without
<1>6. Translated' = {[client |-> c, from |-> Asked[c]]}
  <2> DEFINE a == [query |-> p.query, from |-> dns_cleanup[c].dst,
                   restored |-> TRUE]
  <2>1. {b \in delivered' : b.restored} = {a}
    BY <1>1
  <2>2. a.query.client = c /\ a.from = Asked[c]
    BY <1>3
  <2> QED  BY <2>1, <2>2 DEF Translated
<1>7. Translation!Translate(c, Expired)
  BY <1>3, <1>4, <1>5, <1>6, CleanupForgets DEF Translation!Translate
<1> QED  BY <1>2, <1>7, CleanupForgets DEF Translation!Next

LEMMA TranslationStep ==
    ASSUME Inv, [Next]_vars
    PROVE  [Translation!Next]_(Translation!vars)
<1>1. ASSUME conntrack' = conntrack, Translated' = {} PROVE Translation!Next
  BY <1>1, UnseenStep DEF Asked
<1>2. ASSUME NEW q \in Query, Ask(q) PROVE Translation!Next
  <2>1. CASE QueryUntouched(q)
    BY <1>1, <2>1 DEF QueryUntouched, Translated
  <2>2. CASE QueryDropped(q)
    BY <2>2, CleanupStep DEF QueryDropped
  <2> QED  BY <1>2, <2>1, <2>2, RedirectStep DEF Ask
<1>3. ASSUME NEW c \in Client, NonDnsDatagram(c) PROVE Translation!Next
  BY <1>3, CleanupStep DEF NonDnsDatagram
<1>4. ASSUME NEW p \in net, Receive(p) PROVE Translation!Next
  <2>1. CASE AnswerUntouched(p)
    BY <1>1, <2>1 DEF AnswerUntouched, Translated
  <2>2. CASE AnswerDropped(p)
    BY <2>2, CleanupStep DEF AnswerDropped
  <2> QED  BY <1>4, <2>1, <2>2, RewriteStep DEF Receive
<1>5. ASSUME NEW p \in net, Lose(p) PROVE Translation!Next
  BY <1>1, <1>5 DEF Lose, Translated
<1>6. CASE Tick
  <2>1. /\ DOMAIN conntrack' = DOMAIN conntrack
        /\ \A c \in DOMAIN conntrack : conntrack'[c].dst = conntrack[c].dst
    BY <1>6 DEF Tick, OlderTable, Inv, TypeOK, Record
  <2>2. Asked' = Asked /\ Translated' = {}
    BY <1>6, <2>1 DEF Asked, Tick, Translated
  <2> QED  BY <2>2, UnseenStep
<1>7. CASE Stop
  BY <1>1, <1>7 DEF Stop, Translated
<1>8. CASE Start
  <2>1. Asked' = Translation!Forgetting(Client)
    BY <1>8 DEF Start, dnsredir_clear, Asked, Translation!Forgetting
  <2>2. Translation!Forget(Client)
    BY <1>8, <2>1 DEF Start, Translated, Translation!Forget
  <2> QED  BY <2>2 DEF Translation!Next
<1>9. CASE UNCHANGED vars
  BY <1>9 DEF vars, Asked, Translated, Translation!vars
<1> QED
  BY <1>2, <1>3, <1>4, <1>5, <1>6, <1>7, <1>8, <1>9 DEF Next

(* Whatever the network does, the mode, and however often the engine is    *)
(* restarted: a query is answered at most once, under an address that its  *)
(* own client asked.                                                       *)
THEOREM TranslatesOnce == Spec => ImplementsTranslation
<1>1. Init => Translation!Init
  BY DEF Init, Translation!Init, Asked, Translated
<1>2. Inv /\ [Next]_vars => [Translation!Next]_(Translation!vars)
  BY TranslationStep
<1> QED
  BY <1>1, <1>2, InvAlways, PTL
  DEF Spec, ImplementsTranslation, Translation!Spec
=============================================================================
