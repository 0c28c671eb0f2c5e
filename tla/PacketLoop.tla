------------------------------ MODULE PacketLoop -----------------------------
(***************************************************************************)
(* The TCP half of the packet loop of hayalet.c, end to end: a client      *)
(* sends a TLS hello or an HTTP request through the loop, over a network   *)
(* that loses and reorders packets, to a server that reassembles them; a   *)
(* censor looks at every packet on the wire.  The loop is run_hayalet with *)
(* send_native_fragment, the fake packets of fakepackets.c and the tests   *)
(* of blackwhitelist.c and IsAllowlisted; the settings are those of        *)
(* ApplyEngineMode and Hayalet_RunConfig.                                  *)
(*                                                                         *)
(* A request is a sequence of tokens that each stand for a byte: "eol"     *)
(* ends a line, "Host" and "Agent" are header names, "h" and "u" are bytes *)
(* of their values, "sni" precedes the host name in a hello.  UDP is in    *)
(* DnsRedir, the TTL of TTL-limited fakes in TtlTrack.                     *)
(***************************************************************************)
EXTENDS Integers, Sequences, FiniteSets

CONSTANTS
    Byte,          \* the tokens
    Config,        \* the settings the engine may be started with
    Request,       \* what clients send: [https, bytes]
    Host,          \* host names, as sequences of labels
    Blacklist,     \* names loaded by blackwhitelist_load_list
    Allowlist,     \* names in allowlist.txt
    Gaming,        \* names the gaming mode knows
    Windows,       \* windows servers, and middleboxes for them, advertise
    Mss,           \* the longest segment a client sends
    Cap            \* packets are counted up to this many

Missing == "missing"
Fake    == "fake"

ASSUME ByteAssumption ==
    /\ {"space", "H", "hoSt"} \subseteq Byte
    /\ Missing \notin Byte /\ Fake \notin Byte

ASSUME RequestAssumption ==
    \A r \in Request : r.https \in BOOLEAN /\ r.bytes \in Seq(Byte)

(* run_hayalet replaces fragment sizes of 0.                                *)
ASSUME ConfigAssumption ==
    \A c \in Config :
        /\ c.http_fragment_size \in Nat \ {0}
        /\ c.https_fragment_size \in Nat \ {0}

ASSUME BoundAssumption ==
    Mss \in Nat \ {0} /\ Windows \subseteq Nat \ {0} /\ Cap \in Nat

VARIABLES
    cfg,           \* the settings in force
    allowlist,     \* allowlist_domains as loaded
    request,       \* what the client of the open connection sends
    host,          \* the server's name, which the request mentions
    selected,      \* the client's process has a pid and is allowed
    una,           \* bytes the client knows to have arrived
    window,        \* how many more it may send
    wire,          \* packets between the engine and the server
    got,           \* position -> byte the server has, or Missing
    processed,     \* packets_processed
    circumvented   \* packets_circumvented

vars == <<cfg, allowlist, request, host, selected, una, window, wire, got,
          processed, circumvented>>

connection == <<request, host, selected, una, window, got>>

Low(m, n) == IF m < n THEN m ELSE n

-----------------------------------------------------------------------------
(* The settings.                                                           *)

Off == [do_fragment_http |-> FALSE, do_fragment_https |-> FALSE,
        http_fragment_size |-> 2, https_fragment_size |-> 2,
        do_native_frag |-> FALSE, do_fragment_by_sni |-> FALSE,
        do_fragment_http_persistent |-> FALSE,
        do_host |-> FALSE, do_host_mixedcase |-> FALSE,
        do_host_removespace |-> FALSE, do_additional_space |-> FALSE,
        do_fake_packet |-> FALSE, do_auto_ttl |-> FALSE,
        do_wrong_chksum |-> FALSE, do_wrong_seq |-> FALSE,
        do_blacklist |-> FALSE, do_allow_no_sni |-> FALSE,
        active_filter_mode |-> 0, allowlist_enabled |-> FALSE]

Windowed == [Off EXCEPT !.do_host = TRUE, !.do_host_removespace = TRUE,
                        !.do_fragment_http = TRUE, !.do_fragment_https = TRUE,
                        !.do_fragment_http_persistent = TRUE]

Native == [Off EXCEPT !.do_fragment_http = TRUE, !.do_fragment_https = TRUE,
                      !.do_native_frag = TRUE,
                      !.do_fragment_http_persistent = TRUE,
                      !.do_fake_packet = TRUE]

ApplyEngineMode(mode) ==
    CASE mode = 0  -> Off
      [] mode = -1 -> Windowed
      [] mode = -2 -> [Windowed EXCEPT !.https_fragment_size = 40]
      [] mode = -3 -> [Windowed EXCEPT !.https_fragment_size = 40,
                                       !.do_fragment_http = FALSE,
                                       !.do_fragment_http_persistent = FALSE]
      [] mode = -4 -> [Windowed EXCEPT !.do_fragment_http = FALSE,
                                       !.do_fragment_https = FALSE,
                                       !.do_fragment_http_persistent = FALSE]
      [] mode = -5 -> [Native EXCEPT !.do_auto_ttl = TRUE]
      [] mode = -6 -> [Native EXCEPT !.do_wrong_seq = TRUE]
      [] mode <= -7 -> [Native EXCEPT !.do_wrong_chksum = TRUE,
                                      !.do_wrong_seq = mode <= -8]

Hayalet_RunConfig(mode, filter, allow) ==
    [ApplyEngineMode(mode) EXCEPT !.active_filter_mode = filter,
                                  !.allowlist_enabled = allow,
                                  !.do_blacklist = filter = 1]

-----------------------------------------------------------------------------
(* Who is treated.                                                         *)

(* A name matches a list that holds it or one of its parent domains.       *)
Listed(name, list) ==
    \E i \in DOMAIN name : SubSeq(name, i, Len(name)) \in list

(* IsAllowlisted loads the list again only when one is loaded already,     *)
(* which none ever is.                                                     *)
IsAllowlisted(name) ==
    cfg.allowlist_enabled /\ allowlist # {} /\ Listed(name, Allowlist)

LoadAllowlist == allowlist' = IF allowlist # {} THEN Allowlist ELSE {}

(* In select-apps mode only packets of selected processes are looked at.   *)
LookedAt == cfg.active_filter_mode = 2 => selected

(* Gaming mode: the name contains a known one, or the process is selected. *)
GamingName(name) ==
    \E i, j \in DOMAIN name : SubSeq(name, i, j) \in Gaming

GamingHost(name) == GamingName(name) \/ selected

-----------------------------------------------------------------------------
(* What a segment holds.                                                   *)

Segment == SubSeq(request.bytes, una + 1,
                  Low(una + Low(window, Mss), Len(request.bytes)))

Plain(from, data) == [from |-> from, data |-> data, flaw |-> "none"]

IsHello(data) ==
    \/ data = <<"16", "03">>
    \/ Len(data) >= 3 /\ SubSeq(data, 1, 3) = <<"16", "03", "01">>

(* extract_sni: where the host name starts and what it reads as, if there  *)
(* is one.  The end of the name is compared with that of the segment one   *)
(* byte too late: the last byte of a name that ends one byte after the     *)
(* segment is read beyond it, where an earlier packet may have left any.   *)
NoSni == <<0, << >>>>

SniWhole(data) == {i \in DOMAIN data : data[i] = "sni" /\ i + 3 <= Len(data)}

SniTorn(data) == {i \in DOMAIN data : data[i] = "sni" /\ i + 2 = Len(data)}

extract_sni(data) ==
    {<<i + 1, host>> : i \in SniWhole(data)}
    \cup {<<i + 1, name>> : i \in SniTorn(data), name \in Host}
    \cup (IF SniWhole(data) = {} THEN {NoSni} ELSE {})

HasName(sni) == sni[1] # 0

(* find_http_method_end: the space after the method, also of a method      *)
(* whose first http_fragment_size bytes were sent in another segment.      *)
find_http_method_end(data) ==
    {i \in {4} : /\ Len(data) >= 4
                 /\ SubSeq(data, 1, 4) = <<"G", "E", "T", "space">>}
    \cup
    {i \in {4 - cfg.http_fragment_size} :
        /\ cfg.do_fragment_http
        /\ cfg.http_fragment_size \in 1..2
        /\ Len(data) >= i
        /\ SubSeq(data, 1, i) =
              SubSeq(<<"G", "E", "T", "space">>, cfg.http_fragment_size + 1, 4)}

(* find_header_and_get_info: the value of a header that is whole in the    *)
(* segment and at least three bytes long, as first and last index.         *)
find_header_and_get_info(data, name) ==
    LET values == {i \in 4..Len(data) :
                      SubSeq(data, i - 3, i - 1) = <<"eol", name, "space">>}
    IN  {v \in values \X (1..(Len(data) - 1)) :
            /\ v[2] >= v[1] + 2
            /\ data[v[2] + 1] = "eol"
            /\ \A i \in v[1]..v[2] : data[i] # "eol"}

-----------------------------------------------------------------------------
(* The changes to an HTTP request.                                         *)

Upper(byte) == IF byte = "h" THEN "H" ELSE byte

mix_case(data, value) ==
    [i \in DOMAIN data |->
        IF i \in value[1]..value[2] /\ (i - value[1]) % 2 = 1
        THEN Upper(data[i]) ELSE data[i]]

(* The space before index `at` moves to index `to`; what lies between      *)
(* shifts by one.                                                          *)
SpaceMoved(data, at, to) ==
    IF to < at
    THEN SubSeq(data, 1, to - 1) \o <<"space">> \o SubSeq(data, to, at - 2)
            \o SubSeq(data, at, Len(data))
    ELSE SubSeq(data, 1, at - 2) \o SubSeq(data, at, to) \o <<"space">>
            \o SubSeq(data, to + 1, Len(data))

(* Where the space goes: after the method, or to the end of the            *)
(* User-Agent value, if there is one.                                      *)
NewPlace(data, value) ==
    IF cfg.do_additional_space /\ cfg.do_host_removespace
    THEN find_http_method_end(data)
    ELSE IF cfg.do_host_removespace
    THEN {IF agent[1] > value[1] THEN agent[2] ELSE agent[2] + 1 :
              agent \in find_header_and_get_info(data, "Agent")}
    ELSE {}

Renamed(data, value) ==
    [data EXCEPT ![value[1] - 2] = IF cfg.do_host THEN "hoSt" ELSE @]

Edited(data, value) ==
    LET cased == IF cfg.do_host_mixedcase THEN mix_case(data, value) ELSE data
        named == Renamed(cased, value)
        place == NewPlace(named, value)
    IN  IF place = {} THEN named
        ELSE SpaceMoved(named, value[1], CHOOSE to \in place : TRUE)

IsEdited(data, value) ==
    \/ cfg.do_host_mixedcase
    \/ cfg.do_host
    \/ NewPlace(data, value) # {}

-----------------------------------------------------------------------------
(* What the loop sends.                                                    *)

(* Slip: the second fragment keeps the sequence number of the segment.     *)
SeqNumKept(from, data, size) ==
    IF size >= Len(data) THEN {Plain(from, data)}
    ELSE {Plain(from, SubSeq(data, 1, size)),
          Plain(from, SubSeq(data, size + 1, Len(data)))}

(* Slip: a segment shorter than the fragment size is left out by both      *)
(* steps.                                                                  *)
ShortLeftOut(from, data, size) ==
    IF size >= Len(data) THEN {}
    ELSE {Plain(from, SubSeq(data, 1, size)),
          Plain(from + size, SubSeq(data, size + 1, Len(data)))}

(* Slip: step 1 cuts off fragment_size bytes of a short segment as well.   *)
EmptySent(from, data, size) ==
    {Plain(from + size, SubSeq(data, size + 1, Len(data)))}
    \cup IF size >= Len(data) THEN {}
         ELSE {Plain(from, SubSeq(data, 1, size))}

(* send_native_fragment, both steps: the beginning and the end of the      *)
(* segment, or the whole of it when it is not longer than the beginning.   *)
Fragments(from, data, size) ==
    IF size >= Len(data) THEN {Plain(from, data)}
    ELSE {Plain(from, SubSeq(data, 1, size)),
          Plain(from + size, SubSeq(data, size + 1, Len(data)))}

(* Slip: the hello is cut after the first byte of the name.                *)
CutInsideName(sni) ==
    IF ~request.https
    THEN IF cfg.do_fragment_http THEN cfg.http_fragment_size ELSE 0
    ELSE IF ~cfg.do_fragment_https THEN 0
    ELSE IF cfg.do_fragment_by_sni /\ HasName(sni)
    THEN sni[1] + 2
    ELSE cfg.https_fragment_size

(* current_fragment_size; with do_fragment_by_sni a hello is cut right     *)
(* before the name.                                                        *)
FragmentSize(sni) ==
    IF ~request.https
    THEN IF cfg.do_fragment_http THEN cfg.http_fragment_size ELSE 0
    ELSE IF ~cfg.do_fragment_https THEN 0
    ELSE IF cfg.do_fragment_by_sni /\ HasName(sni)
    THEN sni[1] - 1
    ELSE cfg.https_fragment_size

Fragmented(sni) == cfg.do_native_frag /\ FragmentSize(sni) # 0

(* ttl_of_fake_packet is still 0, or ends on the way ("short"), or reaches *)
(* the server ("long"): it wraps around for a near one, and may have been  *)
(* measured on another connection (TtlTrack).  In select-apps mode no      *)
(* SYN/ACK is looked at, so it stays 0.                                    *)
FakesByTtl ==
    cfg.do_fake_packet /\ cfg.do_auto_ttl /\ cfg.active_filter_mode # 2

TtlOfFake == {"none"} \cup (IF FakesByTtl THEN {"short", "long"} ELSE {})

(* send_fake_request: a fake of each configured kind, each with a flaw     *)
(* that keeps the server from reading it, a long TTL excepted.             *)
Fakes(ttl) ==
    {[from |-> una, data |-> [i \in DOMAIN request.bytes |-> Fake],
      flaw |-> f] :
        f \in {g \in {"short", "long", "checksum", "seq"} :
                  /\ cfg.do_fake_packet
                  /\ g \in {"short", "long"} => g = ttl
                  /\ g = "checksum" => cfg.do_wrong_chksum
                  /\ g = "seq" => cfg.do_wrong_seq}}

Counted(n) ==
    /\ processed' = Low(processed + 1, Cap)
    /\ circumvented' = Low(circumvented + n, Cap)

One(condition) == IF condition THEN 1 ELSE 0

SendAsIs ==
    /\ wire' = wire \cup {Plain(una, Segment)}
    /\ Counted(0)

(* Slip: a fragmented packet goes through the final reinjection, too.      *)
CountedTwice(data, sni, changed) ==
    /\ \E ttl \in TtlOfFake :
          wire' = wire \cup Fakes(ttl)
                       \cup (IF changed /\ Fragmented(sni)
                             THEN Fragments(una, data, FragmentSize(sni))
                             ELSE {Plain(una, data)})
    /\ Counted(One(cfg.do_fake_packet) + One(changed))

(* Fakes first, then the segment, fragmented or whole.                     *)
SendTreated(data, sni, changed) ==
    /\ \E ttl \in TtlOfFake :
          wire' = wire \cup Fakes(ttl)
                       \cup (IF changed /\ Fragmented(sni)
                             THEN Fragments(una, data, FragmentSize(sni))
                             ELSE {Plain(una, data)})
    /\ Counted(One(cfg.do_fake_packet) + One(changed /\ ~Fragmented(sni)))

-----------------------------------------------------------------------------
(* The branches of the loop for an outbound segment with data.             *)

HelloSeen(data) ==
    /\ LookedAt
    /\ request.https
    /\ \/ Len(data) > 16
       \/ cfg.do_fragment_https /\ Len(data) = cfg.https_fragment_size
    /\ cfg.do_fake_packet \/ cfg.do_native_frag
    /\ IsHello(data)

ListConsulted(data, sni) ==
    /\ HelloSeen(data)
    /\ cfg.allowlist_enabled
    /\ cfg.active_filter_mode \in {0, 2}
    /\ HasName(sni)

HelloExcluded(data, sni) == ListConsulted(data, sni) /\ IsAllowlisted(sni[2])

Consult(data, sni) ==
    IF ListConsulted(data, sni) THEN LoadAllowlist ELSE UNCHANGED allowlist

(* Slip: a hello without a name is treated although --allow-no-sni is off. *)
NameNotNeeded(sni) ==
    /\ cfg.do_blacklist => (HasName(sni) => Listed(sni[2], Blacklist))
    /\ cfg.active_filter_mode = 3 /\ HasName(sni) => GamingHost(sni[2])

HelloTargeted(sni) ==
    /\ cfg.do_blacklist =>
          IF HasName(sni) THEN Listed(sni[2], Blacklist)
                          ELSE cfg.do_allow_no_sni
    /\ cfg.active_filter_mode = 3 /\ HasName(sni) => GamingHost(sni[2])

HelloTreated(data, sni) ==
    /\ HelloSeen(data)
    /\ ~HelloExcluded(data, sni)
    /\ HelloTargeted(sni)
    /\ SendTreated(data, sni, cfg.do_native_frag)
    /\ Consult(data, sni)

HostValues(data) == find_header_and_get_info(data, "Host")

RequestSeen(data) ==
    /\ LookedAt
    /\ ~request.https
    /\ Len(data) > 16
    /\ find_http_method_end(data) # {}
    /\ \/ cfg.do_host \/ cfg.do_host_removespace \/ cfg.do_host_mixedcase
       \/ cfg.do_fragment_http_persistent \/ cfg.do_fake_packet
    /\ HostValues(data) # {}

RequestTargeted ==
    /\ cfg.do_blacklist => Listed(host, Blacklist)
    /\ cfg.active_filter_mode = 3 => GamingHost(host)

RequestTreated(data) ==
    /\ RequestSeen(data)
    /\ RequestTargeted
    /\ \E value \in HostValues(data) :
          \E new \in {Edited(data, value)} :
             SendTreated(new, NoSni,
                         cfg.do_native_frag \/ IsEdited(data, value))
    /\ UNCHANGED allowlist

(* Everything else goes on as it came.                                     *)
SegmentPassed(data, sni) ==
    /\ ~(HelloSeen(data) /\ ~HelloExcluded(data, sni) /\ HelloTargeted(sni))
    /\ ~(RequestSeen(data) /\ RequestTargeted)
    /\ SendAsIs
    /\ Consult(data, sni)

Send ==
    /\ una < Len(request.bytes)
    /\ \E data \in {Segment} :
          \E sni \in extract_sni(data) :
             \/ HelloTreated(data, sni)
             \/ RequestTreated(data)
             \/ SegmentPassed(data, sni)
    /\ UNCHANGED <<cfg, connection>>

-----------------------------------------------------------------------------
(* The rest of the connection.                                             *)

(* The window a SYN/ACK is made to advertise, unless packets are           *)
(* fragmented here or the mode does not look at inbound packets.           *)
WindowSize(r) ==
    IF cfg.do_native_frag \/ cfg.active_filter_mode = 2 THEN {}
    ELSE IF cfg.do_fragment_http /\ ~r.https THEN {cfg.http_fragment_size}
    ELSE IF cfg.do_fragment_https /\ r.https THEN {cfg.https_fragment_size}
    ELSE {}

(* A server's SYN/ACK opens a connection.                                  *)
SynAck(r) ==
    /\ una = Len(request.bytes)
    /\ request' = r
    /\ host' \in Host
    /\ selected' \in (IF cfg.active_filter_mode \in {2, 3} THEN BOOLEAN
                                                           ELSE {FALSE})
    /\ una' = 0
    /\ window' \in (IF WindowSize(r) = {} THEN Windows ELSE WindowSize(r))
    /\ wire' = {}
    /\ got' = [i \in DOMAIN r.bytes |-> Missing]
    /\ Counted(One(WindowSize(r) # {}))
    /\ UNCHANGED <<cfg, allowlist>>

(* The server takes the bytes it does not have from any packet it accepts. *)
Reaches(p, i) == i - p.from \in DOMAIN p.data

Deliver(p) ==
    /\ p.flaw \in {"none", "long"}
    /\ wire' = wire \ {p}
    /\ got' = [i \in DOMAIN got |->
                  IF got[i] = Missing /\ Reaches(p, i)
                  THEN p.data[i - p.from] ELSE got[i]]
    /\ UNCHANGED <<cfg, allowlist, request, host, selected, una, window,
                   processed, circumvented>>

(* A packet is lost, or refused for its flaw.                              *)
Lose(p) ==
    /\ wire' = wire \ {p}
    /\ UNCHANGED <<cfg, allowlist, connection, processed, circumvented>>

Has(i) == got[i] # Missing

(* The server acknowledges what it has from the beginning, and opens its   *)
(* window.                                                                 *)
Ack ==
    /\ \E n \in DOMAIN got :
          /\ una < n
          /\ \A i \in 1..n : Has(i)
          /\ n < Len(got) => ~Has(n + 1)
          /\ una' = n
    /\ window' = Mss
    /\ UNCHANGED <<cfg, allowlist, request, host, selected, wire, got,
                   processed, circumvented>>

Init ==
    /\ cfg \in Config
    /\ allowlist = {}
    /\ request = [https |-> FALSE, bytes |-> << >>]
    /\ host \in Host
    /\ selected = FALSE
    /\ una = 0
    /\ window = Mss
    /\ wire = {}
    /\ got = << >>
    /\ processed = 0
    /\ circumvented = 0

DeliverNew ==
    \E p \in wire :
        /\ \E i \in DOMAIN got : ~Has(i) /\ Reaches(p, i)
        /\ Deliver(p)

Next ==
    \/ \E r \in Request : SynAck(r)
    \/ Send
    \/ \E p \in wire : Deliver(p) \/ Lose(p)
    \/ Ack

Spec == Init /\ [][Next]_vars

(* The client sends again what is not acknowledged, and of packets with    *)
(* something new sent again and again one arrives.                         *)
Fairness == WF_vars(Send) /\ SF_vars(DeliverNew) /\ WF_vars(Ack)

FairSpec == Spec /\ Fairness

-----------------------------------------------------------------------------
(* Properties.                                                             *)

Sane(p) ==
    /\ Len(p.data) > 0
    /\ p.flaw \in {"none", "short", "long", "checksum", "seq"}
    /\ p.from \in 0..Len(request.bytes)
    /\ p.flaw = "none" => p.from + Len(p.data) <= Len(request.bytes)

TypeOK ==
    /\ cfg \in Config
    /\ allowlist \in {{}, Allowlist}
    /\ request \in Request \/ request.bytes = << >>
    /\ host \in Host
    /\ selected \in BOOLEAN
    /\ una \in 0..Len(request.bytes)
    /\ window \in Nat \ {0}
    /\ \A p \in wire : Sane(p)
    /\ DOMAIN got = DOMAIN request.bytes
    /\ processed \in 0..Cap /\ circumvented \in 0..Cap

(* The server reads the request the client sent, however it was changed,   *)
(* cut, lost in part and sent again: no byte of a fake, but for one whose  *)
(* TTL was meant to end it on the way; and, once it has all from the       *)
(* client, the same tokens but for the case of names and the place of      *)
(* spaces, which HTTP leaves open.  That is not so of settings that move   *)
(* the space and fragment at once, as only the command line can ask: a     *)
(* request that is cut may be sent again in other segments, where the space*)
(* goes elsewhere, and the server then has parts of both.                  *)
Folded(byte) ==
    CASE byte = "H" -> "h" [] byte = "hoSt" -> "Host" [] OTHER -> byte

Inked(bytes) == {i \in DOMAIN bytes : bytes[i] # "space"}

Rank(bytes, i) == Cardinality({j \in Inked(bytes) : j <= i})

Meaning(bytes) ==
    {<<Rank(bytes, i), Folded(bytes[i])>> : i \in Inked(bytes)}

EditsAndCuts == cfg.do_native_frag /\ cfg.do_host_removespace

FromClient == \A i \in DOMAIN got : got[i] # Fake

ServerReadsRequest ==
    /\ FakesByTtl \/ FromClient
    /\ FromClient /\ (\A i \in DOMAIN got : Has(i)) /\ ~EditsAndCuts
          => Meaning(got) = Meaning(request.bytes)

(* Whom the filter mode is about.                                          *)
Targeted ==
    CASE cfg.active_filter_mode = 0 -> TRUE
      [] cfg.active_filter_mode = 1 -> Listed(host, Blacklist)
      [] cfg.active_filter_mode = 2 -> selected
      [] cfg.active_filter_mode = 3 -> GamingHost(host)

Bytes(p) == {p.data[i] : i \in DOMAIN p.data}

(* Requests whose name can be kept from the censor: whatever window they   *)
(* are sent in, the first segment has nothing of the name, or shows the    *)
(* parser all it needs, with the name after the cut.                       *)
Nameless(data, n) == \A i \in DOMAIN data : i <= n => data[i] \notin {"h", "H"}

HelloCutOff(data, c) ==
    /\ Len(data) > 16 /\ IsHello(data)
    /\ SniWhole(data) # {} /\ SniTorn(data) = {}
    /\ \A i \in SniWhole(data) :
          Nameless(data, IF c.do_fragment_by_sni THEN i
                         ELSE c.https_fragment_size)

RequestCutOff(data, c) ==
    /\ Len(data) > 16
    /\ SubSeq(data, 1, 4) = <<"G", "E", "T", "space">>
    /\ find_header_and_get_info(data, "Host") # {}
    /\ Nameless(data, c.http_fragment_size + 1)

FirstSegment(r, w) == SubSeq(r.bytes, 1, Low(Low(w, Mss), Len(r.bytes)))

NameIsCutOff(r, c) ==
    \A w \in Windows \cup {Mss} :
        \E data \in {FirstSegment(r, w)} :
           \/ Nameless(data, Len(data))
           \/ r.https /\ HelloCutOff(data, c)
           \/ ~r.https /\ RequestCutOff(data, c)

(* Native fragmentation hides a targeted name that can be cut off: no      *)
(* packet on the wire, not even one sent again, starts the request and     *)
(* names the host.                                                         *)
NameApartFromStart ==
    cfg.do_native_frag /\ Targeted /\ NameIsCutOff(request, cfg) =>
        \A p \in wire :
            p.from = 0 /\ p.flaw = "none" => {"h", "H"} \cap Bytes(p) = {}

(* The segments of whom the filter mode is not about are sent exactly as   *)
(* they came: no fake, no cut, no change.  Except that the gaming mode     *)
(* takes a hello that shows no name for one of its own, and that the       *)
(* parser takes a name torn before its last byte for any.  Nothing is said *)
(* of SYN/ACKs: the modes that shrink their windows do so for everybody.   *)
NameShown == IsHello(Segment) => SniWhole(Segment) # {}

NameReadRight == IsHello(Segment) => SniTorn(Segment) = {}

BystanderStep ==
    (/\ ~Targeted
     /\ cfg.active_filter_mode = 3 => NameShown
     /\ NameReadRight)
        => wire' \ wire \subseteq {Plain(una, Segment)}

BystanderAsSent == [][BystanderStep]_vars

(* The statistics shown make sense: with the settings the interface        *)
(* offers, not more packets are circumvented than processed.               *)
RatioBounded == circumvented <= processed

(* Every request arrives whole, although packets get lost: the fragments   *)
(* leave no gap, in whatever segments the client sends and repeats.        *)
RequestArrives ==
    una < Len(request.bytes) ~> una = Len(request.bytes)
=============================================================================
