------------------------------ MODULE TtlTrack -------------------------------
(***************************************************************************)
(* The TTL tracker: ttltrack.c, the SYN/ACK branch of the packet loop of   *)
(* hayalet.c that feeds it, and TCP_HANDLE_OUTGOING_FAKE_PACKET, the macro *)
(* that picks the TTL of the fake packets injected before a TLS hello or   *)
(* an HTTP request.                                                        *)
(*                                                                         *)
(* A fake packet must reach the censor's box and die before the server.    *)
(* The TTL of the SYN/ACK tells how far the server is; the record made of  *)
(* it is consumed by the first request of the connection.  The TTL chosen  *)
(* last stays in the engine-wide ttl_of_fake_packet.                       *)
(***************************************************************************)
EXTENDS Conntrack

CONSTANTS
    Conn,          \* TCP connections, by 4-tuple: the key of a record
    Distance,      \* hops between this machine and the server of each
    InitTtl,       \* TTL the server of each sends its packets with
    AutoTtl,       \* do_auto_ttl
    AutoTtl1,      \* auto_ttl_1
    AutoTtl2,      \* auto_ttl_2
    MinHops,       \* ttl_min_nhops
    MaxTtl,        \* auto_ttl_max
    SetTtl,        \* ttl_of_fake_packet at start (--set-ttl, else 0)
    SelectApps,    \* active_filter_mode == 2
    MaxThink       \* seconds after which a request is a late one

Byte == 0..255

ASSUME ConnAssumption ==
    /\ Distance \in [Conn -> Byte]
    /\ InitTtl \in [Conn -> Byte]
    /\ \A c \in Conn : Distance[c] <= InitTtl[c]

ASSUME TtlAssumption ==
    /\ {AutoTtl1, AutoTtl2, MinHops, MaxTtl, SetTtl} \subseteq Byte
    /\ AutoTtl1 <= AutoTtl2
    /\ {AutoTtl, SelectApps} \subseteq BOOLEAN
    /\ MaxThink \in Nat

VARIABLES
    up,                  \* the engine loop is running
    conntrack,           \* connection -> [ttl, age]
    sinceCleanup,        \* age of last_cleanup, or Never
    ttl_of_fake_packet,  \* the last TTL chosen, for any connection
    opened,              \* connection -> seconds since its SYN/ACK (MaxThink
                         \* stands for more), or Closed
    fakes,               \* fake packets injected by the last step
    orderly              \* history, read by no guard: connections recorded as
                         \* they opened that kept the order of the tracker

vars == <<up, conntrack, sinceCleanup, ttl_of_fake_packet, opened, fakes, orderly>>

Closed == -1
Record == [ttl : Byte, age : Ages]
Fake   == [conn : Conn, ttl : Byte \ {0}]

-----------------------------------------------------------------------------
(* tcp_get_auto_ttl, in the arithmetic of uint8_t.                         *)

HopsOf(ttl) ==
    IF ttl \in 99..127 THEN 128 - ttl
    ELSE IF ttl \in 35..63 THEN 64 - ttl
    ELSE 0

(* Slip: no scale for nearby servers.                                      *)
FarOnly(nhops, a1, a2) == (nhops - a2) % 256

FakeTtlFor(nhops, a1, a2) ==
    LET far  == (nhops - a2) % 256
        near == (nhops - a1 - ((a2 - a1) * nhops) \div 10) % 256
    IN  IF far < a2 /\ nhops <= 9 THEN near ELSE far

tcp_get_auto_ttl(ttl, a1, a2, minhops, maxttl) ==
    LET nhops == HopsOf(ttl)
        fake  == FakeTtlFor(nhops, a1, a2)
    IN  IF nhops = 0 \/ nhops <= a1 \/ nhops < minhops THEN 0
        ELSE IF maxttl # 0 /\ fake > maxttl THEN maxttl
        ELSE fake

(* The TTL of the SYN/ACK as it arrives.                                   *)
SynAckTtl(c) == InitTtl[c] - Distance[c]

(* Slip: the measured TTL itself is used.                                  *)
TheSynAckTtl(ttl) == ttl

ChosenTtl(ttl) ==
    IF AutoTtl
    THEN tcp_get_auto_ttl(ttl, AutoTtl1, AutoTtl2, MinHops, MaxTtl)
    ELSE ttl_of_fake_packet

(* Without auto TTL, --min-ttl only decides whether to send a fake at all. *)
FarEnough(ttl) == AutoTtl \/ tcp_get_auto_ttl(ttl, 0, 0, MinHops, 0) # 0

(* Slip: a TTL of 0 is not told apart.                                     *)
FakesAlways(c, ttl) == {[conn |-> c, ttl |-> ttl]}

(* send_fake_request injects a TTL-limited fake only for a TTL other than 0*)
FakesWith(c, ttl) == IF ttl = 0 THEN {} ELSE {[conn |-> c, ttl |-> ttl]}

-----------------------------------------------------------------------------
(* The table after the cleanup that tcp_handle_incoming and                *)
(* tcp_handle_outgoing both start with.                                    *)
tcp_cleanup == Cleaned(conntrack, sinceCleanup)

Tracking == AutoTtl \/ MinHops # 0

(* Inbound packets have no pid, so select-apps mode passes them unseen.    *)
SynAckHandled == up /\ ~SelectApps /\ Tracking

(* A SYN/ACK arrives, for a new connection or once more for one that has   *)
(* not had its first request yet: the record is added unless the key is    *)
(* in use.  A connection starts orderly when it opens and is recorded; one *)
(* that finds the record of an earlier connection in its place does not.   *)
SynAckTracked(c) ==
    /\ c \in Conn
    /\ SynAckHandled
    /\ conntrack' = IF c \in DOMAIN tcp_cleanup
                    THEN tcp_cleanup
                    ELSE With(tcp_cleanup, c, [ttl |-> SynAckTtl(c), age |-> 0])
    /\ sinceCleanup' = SinceCleaned(sinceCleanup)
    /\ opened' = [opened EXCEPT ![c] = IF @ = Closed THEN 0 ELSE @]
    /\ orderly' = IF opened[c] # Closed THEN orderly
                  ELSE IF c \in DOMAIN tcp_cleanup THEN orderly \ {c}
                  ELSE orderly \cup {c}
    /\ fakes' = {}
    /\ UNCHANGED <<up, ttl_of_fake_packet>>

SynAckUnseen(c) ==
    /\ c \in Conn
    /\ ~SynAckHandled
    /\ opened' = [opened EXCEPT ![c] = IF @ = Closed THEN 0 ELSE @]
    /\ orderly' = orderly \ {c}
    /\ fakes' = {}
    /\ UNCHANGED <<up, conntrack, sinceCleanup, ttl_of_fake_packet>>

(* After its request a connection is done, unless it sends another: a      *)
(* keep-alive request, or the same hello retransmitted by TCP.             *)
AfterRequest(c) ==
    \/ opened' = [opened EXCEPT ![c] = Closed] /\ UNCHANGED orderly
    \/ orderly' = orderly \ {c} /\ UNCHANGED opened

(* Slip: a TTL chosen earlier is kept.                                     *)
MeasuredOnce(c) ==
    /\ up /\ Tracking
    /\ opened[c] # Closed
    /\ c \in DOMAIN tcp_cleanup
    /\ ttl_of_fake_packet' = IF ttl_of_fake_packet = 0
                             THEN ChosenTtl(tcp_cleanup[c].ttl)
                             ELSE ttl_of_fake_packet
    /\ fakes' = FakesWith(c, ttl_of_fake_packet')
    /\ conntrack' = Without(tcp_cleanup, c)
    /\ sinceCleanup' = SinceCleaned(sinceCleanup)
    /\ AfterRequest(c)
    /\ UNCHANGED up

(* The request of a connection that has a record: the record is consumed   *)
(* and the TTL computed from it.                                           *)
RequestMeasured(c) ==
    /\ up /\ Tracking
    /\ opened[c] # Closed
    /\ c \in DOMAIN tcp_cleanup
    /\ LET ttl == tcp_cleanup[c].ttl
       IN  /\ ttl_of_fake_packet' = ChosenTtl(ttl)
           /\ fakes' = IF FarEnough(ttl)
                       THEN FakesWith(c, ChosenTtl(ttl))
                       ELSE {}
    /\ conntrack' = Without(tcp_cleanup, c)
    /\ sinceCleanup' = SinceCleaned(sinceCleanup)
    /\ AfterRequest(c)
    /\ UNCHANGED up

(* No record: the fake goes out with whatever TTL was chosen last.         *)
RequestUnmeasured(c) ==
    /\ up
    /\ opened[c] # Closed
    /\ Tracking => c \notin DOMAIN tcp_cleanup
    /\ fakes' = FakesWith(c, ttl_of_fake_packet)
    /\ IF Tracking
       THEN /\ conntrack' = tcp_cleanup
            /\ sinceCleanup' = SinceCleaned(sinceCleanup)
       ELSE UNCHANGED <<conntrack, sinceCleanup>>
    /\ AfterRequest(c)
    /\ UNCHANGED <<up, ttl_of_fake_packet>>

(* The connection ends before its request.                                 *)
Abort(c) ==
    /\ opened[c] # Closed
    /\ opened' = [opened EXCEPT ![c] = Closed]
    /\ orderly' = orderly \ {c}
    /\ fakes' = {}
    /\ UNCHANGED <<up, conntrack, sinceCleanup, ttl_of_fake_packet>>

(* One second passes.                                                      *)
Tick ==
    /\ conntrack' = OlderTable(conntrack)
    /\ sinceCleanup' = OlderSince(sinceCleanup)
    /\ opened' = [c \in Conn |-> IF opened[c] \in {Closed, MaxThink}
                                 THEN opened[c]
                                 ELSE opened[c] + 1]
    /\ orderly' = {c \in orderly : opened[c] # MaxThink}
    /\ fakes' = {}
    /\ UNCHANGED <<up, ttl_of_fake_packet>>

Stop ==
    /\ up
    /\ up' = FALSE
    /\ fakes' = {}
    /\ UNCHANGED <<conntrack, sinceCleanup, ttl_of_fake_packet, opened, orderly>>

(* reset_hayalet_state clears the engine structure, ttl_of_fake_packet     *)
(* with it, and calls ttltrack_clear.                                      *)
Start ==
    /\ ~up
    /\ up' = TRUE
    /\ conntrack' = << >>
    /\ sinceCleanup' = Never
    /\ ttl_of_fake_packet' = SetTtl
    /\ orderly' = {}
    /\ fakes' = {}
    /\ UNCHANGED opened

Init ==
    /\ up = TRUE
    /\ conntrack = << >>
    /\ sinceCleanup = Never
    /\ ttl_of_fake_packet = SetTtl
    /\ opened = [c \in Conn |-> Closed]
    /\ fakes = {}
    /\ orderly = {}

Next ==
    \/ \E c \in Conn :
          \/ SynAckTracked(c)
          \/ SynAckUnseen(c)
          \/ RequestMeasured(c)
          \/ RequestUnmeasured(c)
          \/ Abort(c)
    \/ Tick
    \/ Stop
    \/ Start

Spec == Init /\ [][Next]_vars

-----------------------------------------------------------------------------
(* Properties.                                                             *)

TypeOK ==
    /\ up \in BOOLEAN
    /\ DOMAIN conntrack \subseteq Conn
    /\ \A c \in DOMAIN conntrack : conntrack[c] \in Record
    /\ sinceCleanup \in Ages \cup {Never}
    /\ ttl_of_fake_packet \in Byte
    /\ opened \in [Conn -> {Closed} \cup 0..MaxThink]
    /\ fakes \subseteq Fake
    /\ orderly \subseteq Conn

(* The same hygiene as in the DNS table: however rarely packets pass       *)
(* through tcp_cleanup, a SYN/ACK measurement is never used when two       *)
(* cleanup intervals old.                                                  *)
RecordsAreYoung == Young(conntrack, sinceCleanup)

(* A connection whose SYN/ACK was tracked less than Interval ago gets a    *)
(* fake with the TTL computed from that very SYN/ACK, or none, whatever    *)
(* other connections did in between.                                       *)
OwnMeasurementStep ==
    \A f \in fakes' :
        (f.conn \in DOMAIN conntrack /\ conntrack[f.conn].age < Interval)
            => f.ttl = ChosenTtl(SynAckTtl(f.conn))'

OwnMeasurementUsed == [][OwnMeasurementStep]_vars

(* The fake packet of an orderly connection never reaches the server, so   *)
(* that the server does not see that anything was injected, whatever the   *)
(* other connections do.  A connection is not orderly when the TTL may be  *)
(* another one's: its SYN/ACK was not recorded (the engine off, or select- *)
(* apps mode), or not for it (an earlier connection of the same ports left *)
(* its record), or the record is gone before the request (a second request,*)
(* one later than MaxThink, a restarted engine).                           *)
FakeDiesOnTheWay ==
    \A f \in fakes : f.conn \in orderly => f.ttl < Distance[f.conn]

(* The request that ends an orderly connection far enough from its server  *)
(* is preceded by a fake: nothing that happened to other connections,      *)
(* orderly or not, suppresses the desynchronisation.                       *)
FarRequestStep ==
    \A c \in orderly' :
        (/\ opened[c] # Closed /\ opened'[c] = Closed
         /\ HopsOf(SynAckTtl(c)) > AutoTtl1
         /\ HopsOf(SynAckTtl(c)) >= MinHops)
           => \E f \in fakes' : f.conn = c

FarRequestsFaked == [][FarRequestStep]_vars
=============================================================================
