---------------------------- MODULE TtlTrackProofs ----------------------------
(***************************************************************************)
(* Proofs about TtlTrack, for any connections, distances and TTL options,  *)
(* except where a theorem names what it assumes.                           *)
(***************************************************************************)
EXTENDS TtlTrack, ConntrackProofs

(* The records' TTLs are those of the SYN/ACKs that made them.             *)
Inv ==
    /\ TypeOK
    /\ RecordsAreYoung
    /\ \A c \in DOMAIN conntrack : conntrack[c].ttl = SynAckTtl(c)

-----------------------------------------------------------------------------
(* Lemmas about the arithmetic.                                            *)

LEMMA AutoTtlType ==
    ASSUME NEW ttl \in Byte, NEW a1 \in Byte, NEW a2 \in Byte, a1 <= a2,
           NEW minhops \in Byte, NEW maxttl \in Byte
    PROVE  tcp_get_auto_ttl(ttl, a1, a2, minhops, maxttl) \in Byte
<1>1. \A x \in Int : x % 256 \in Byte
  BY DEF Byte
<1>2. HopsOf(ttl) \in Byte
  BY DEF HopsOf, Byte
<1>3. FakeTtlFor(HopsOf(ttl), a1, a2) \in Byte
  <2> DEFINE n == HopsOf(ttl)
  <2>1. n - a2 \in Int
    BY <1>2 DEF Byte
  <2>2. (a2 - a1) * n \in Int
    BY <1>2 DEF Byte
  <2>3. ((a2 - a1) * n) \div 10 \in Int
    BY <2>2
  <2>4. n - a1 - ((a2 - a1) * n) \div 10 \in Int
    BY <1>2, <2>3 DEF Byte
  <2> QED  BY <1>1, <2>1, <2>4 DEF FakeTtlFor
<1> QED  BY <1>3 DEF tcp_get_auto_ttl, Byte

LEMMA SynAckTtlType ==
    ASSUME NEW c \in Conn
    PROVE  SynAckTtl(c) \in Byte
<1>1. Distance[c] \in Byte /\ InitTtl[c] \in Byte /\ Distance[c] <= InitTtl[c]
  BY ConnAssumption
<1>2. \A i, d \in Byte : d <= i => i - d \in Byte
  BY DEF Byte
<1> QED  BY <1>1, <1>2 DEF SynAckTtl

(* With the default options a fake for a server 4 to 29 hops away, whose   *)
(* packets start with TTL 64 or 128, expires before the server: the uint8_t*)
(* subtractions do not wrap, and the result is less than the distance.     *)
LEMMA DefaultsExpire ==
    ASSUME NEW n \in 4..29, NEW init \in {64, 128}
    PROVE  tcp_get_auto_ttl(init - n, 1, 4, 3, 10) \in 1..(n - 1)
<1>1. HopsOf(init - n) = n
  BY DEF HopsOf
<1>2. FakeTtlFor(n, 1, 4) \in 1..(n - 1)
  BY DEF FakeTtlFor
<1> QED  BY <1>1, <1>2 DEF tcp_get_auto_ttl

-----------------------------------------------------------------------------
(* What tcp_cleanup leaves, in a state of the invariant.                   *)
LEMMA CleanupType ==
    ASSUME Inv
    PROVE  /\ DOMAIN tcp_cleanup \subseteq DOMAIN conntrack
           /\ \A c \in DOMAIN tcp_cleanup :
                 /\ tcp_cleanup[c] = conntrack[c]
                 /\ tcp_cleanup[c] \in Record
                 /\ tcp_cleanup[c].ttl = SynAckTtl(c)
                 /\ tcp_cleanup[c].age < SinceCleaned(sinceCleanup) + Interval
           /\ \A c \in DOMAIN conntrack :
                 conntrack[c].age < Interval => c \in DOMAIN tcp_cleanup
           /\ SinceCleaned(sinceCleanup) \in Ages
<1>1. Aged(conntrack)
  BY DEF Inv, TypeOK, Record, Aged
<1>2. Young(conntrack, sinceCleanup) /\ sinceCleanup \in Ages \cup {Never}
  BY DEF Inv, TypeOK, RecordsAreYoung
<1>3. /\ DOMAIN tcp_cleanup \subseteq DOMAIN conntrack
      /\ \A c \in DOMAIN tcp_cleanup : tcp_cleanup[c] = conntrack[c]
      /\ \A c \in DOMAIN conntrack :
            conntrack[c].age < Interval => c \in DOMAIN tcp_cleanup
  BY CleanedKeeps DEF tcp_cleanup
<1>4. /\ SinceCleaned(sinceCleanup) \in Ages
      /\ \A c \in DOMAIN tcp_cleanup :
            conntrack[c].age < SinceCleaned(sinceCleanup) + Interval
  BY <1>1, <1>2, CleanedYoung DEF tcp_cleanup
<1> QED  BY <1>3, <1>4 DEF Inv, TypeOK

(* The part of Inv about the table.                                        *)
TableOK(table, since) ==
    /\ DOMAIN table \subseteq Conn
    /\ \A c \in DOMAIN table : table[c] \in Record
    /\ since \in Ages \cup {Never}
    /\ Young(table, since)
    /\ \A c \in DOMAIN table : table[c].ttl = SynAckTtl(c)

LEMMA CleanedTableOK ==
    ASSUME Inv, NEW keep \in SUBSET DOMAIN tcp_cleanup
    PROVE  TableOK([k \in keep |-> tcp_cleanup[k]], SinceCleaned(sinceCleanup))
<1>1. SinceCleaned(sinceCleanup) # Never
  BY CleanupType DEF Ages, Never
<1>2. DOMAIN tcp_cleanup \subseteq Conn
  BY CleanupType DEF Inv, TypeOK
<1> QED  BY <1>1, <1>2, CleanupType DEF TableOK, Young

LEMMA AddedTableOK ==
    ASSUME Inv, NEW c \in Conn
    PROVE  TableOK(With(tcp_cleanup, c, [ttl |-> SynAckTtl(c), age |-> 0]),
                   SinceCleaned(sinceCleanup))
<1> DEFINE rec   == [ttl |-> SynAckTtl(c), age |-> 0]
           table == With(tcp_cleanup, c, rec)
           since == SinceCleaned(sinceCleanup)
<1>1. since \in Ages /\ since # Never
  BY CleanupType DEF Ages, Never
<1>2. 0 < since + Interval
  BY <1>1, IntervalAssumption DEF Ages, AgeCap
<1>3. rec \in Record
  BY SynAckTtlType, IntervalAssumption DEF Record, Ages, AgeCap
<1>4. DOMAIN table = DOMAIN tcp_cleanup \cup {c}
  BY DEF With
<1>5. \A k \in DOMAIN table : table[k] = IF k = c THEN rec ELSE tcp_cleanup[k]
  BY DEF With
<1>6. DOMAIN table \subseteq Conn
  BY <1>4, CleanupType DEF Inv, TypeOK
<1> HIDE DEF table, since
<1>7. ASSUME NEW k \in DOMAIN table
      PROVE  /\ table[k] \in Record
             /\ table[k].ttl = SynAckTtl(k)
             /\ table[k].age < since + Interval
  <2>1. CASE k = c
    BY <2>1, <1>2, <1>3, <1>5 DEF Record
  <2>2. CASE k # c
    BY <2>2, <1>4, <1>5, CleanupType DEF since
  <2> QED  BY <2>1, <2>2
<1>8. TableOK(table, since)
  BY <1>1, <1>6, <1>7 DEF TableOK, Young
<1> QED  BY <1>8 DEF table, since

LEMMA SinceNotNever == ASSUME Inv PROVE SinceCleaned(sinceCleanup) # Never
  BY CleanupType DEF Ages, Never

LEMMA OlderTableOK ==
    ASSUME Inv
    PROVE  TableOK(OlderTable(conntrack), OlderSince(sinceCleanup))
<1>1. /\ Aged(conntrack)
      /\ Young(conntrack, sinceCleanup)
      /\ sinceCleanup \in Ages \cup {Never}
  BY DEF Inv, TypeOK, Record, Aged, RecordsAreYoung
<1>2. /\ DOMAIN OlderTable(conntrack) = DOMAIN conntrack
      /\ \A c \in DOMAIN conntrack :
            OlderTable(conntrack)[c] = [conntrack[c] EXCEPT !.age = Older(@)]
  BY DEF OlderTable
<1>3. \A c \in DOMAIN conntrack :
         /\ OlderTable(conntrack)[c] \in Record
         /\ OlderTable(conntrack)[c].ttl = SynAckTtl(c)
         /\ OlderTable(conntrack)[c].age = Older(conntrack[c].age)
  BY <1>2, OlderInRange DEF Inv, TypeOK, Record
<1>4. Young(OlderTable(conntrack), OlderSince(sinceCleanup))
  BY <1>1, <1>2, <1>3, OlderYoung DEF Young
<1> QED  BY <1>1, <1>2, <1>3, <1>4, OlderYoung DEF TableOK, Inv, TypeOK

-----------------------------------------------------------------------------
(* Inv is inductive: every step leaves the table as it was, or makes it    *)
(* one of the tables of the lemmas above.                                  *)

LEMMA TableNext ==
    ASSUME Inv, Next
    PROVE  TableOK(conntrack', sinceCleanup')
<1>1. TableOK(conntrack, sinceCleanup)
  BY DEF Inv, TypeOK, RecordsAreYoung, TableOK
<1>2. TableOK(tcp_cleanup, SinceCleaned(sinceCleanup))
  BY CleanupType, SinceNotNever, <1>1 DEF TableOK, Young
<1>3. ASSUME NEW c \in Conn, SynAckTracked(c)
      PROVE  TableOK(conntrack', sinceCleanup')
  BY <1>2, <1>3, AddedTableOK DEF SynAckTracked
<1>4. ASSUME NEW c \in Conn, SynAckUnseen(c)
      PROVE  TableOK(conntrack', sinceCleanup')
  BY <1>1, <1>4 DEF SynAckUnseen
<1>5. ASSUME NEW c \in Conn, RequestMeasured(c)
      PROVE  TableOK(conntrack', sinceCleanup')
  <2>1. conntrack' = [k \in DOMAIN tcp_cleanup \ {c} |-> tcp_cleanup[k]]
    BY <1>5 DEF RequestMeasured, Without
  <2> QED  BY <1>5, <2>1, CleanedTableOK DEF RequestMeasured
<1>6. ASSUME NEW c \in Conn, RequestUnmeasured(c)
      PROVE  TableOK(conntrack', sinceCleanup')
  BY <1>1, <1>2, <1>6 DEF RequestUnmeasured
<1>7. ASSUME NEW c \in Conn, Abort(c)
      PROVE  TableOK(conntrack', sinceCleanup')
  BY <1>1, <1>7 DEF Abort
<1>8. CASE Tick
  BY <1>8, OlderTableOK DEF Tick
<1>9. CASE Stop
  BY <1>1, <1>9 DEF Stop
<1>10. CASE Start
  BY <1>10 DEF Start, TableOK, Young
<1> QED  BY <1>3, <1>4, <1>5, <1>6, <1>7, <1>8, <1>9, <1>10 DEF Next

(* The TTLs chosen and sent stay bytes.                                    *)
LEMMA TtlNext ==
    ASSUME Inv, Next
    PROVE  ttl_of_fake_packet' \in Byte /\ fakes' \subseteq Fake
<1> DEFINE Goal == ttl_of_fake_packet' \in Byte /\ fakes' \subseteq Fake
<1>1. ttl_of_fake_packet \in Byte
  BY DEF Inv, TypeOK
<1>2. \A c \in Conn : \A ttl \in Byte : FakesWith(c, ttl) \subseteq Fake
  BY DEF FakesWith, Fake
<1>3. ASSUME NEW c \in Conn, RequestMeasured(c) PROVE Goal
  <2>1. tcp_cleanup[c].ttl \in Byte
    BY <1>3, CleanupType DEF RequestMeasured, Record
  <2>2. ChosenTtl(tcp_cleanup[c].ttl) \in Byte
    BY <1>1, <2>1, AutoTtlType, TtlAssumption DEF ChosenTtl
  <2> QED  BY <1>2, <1>3, <2>2 DEF RequestMeasured
<1>4. ASSUME NEW c \in Conn, RequestUnmeasured(c) PROVE Goal
  BY <1>1, <1>2, <1>4 DEF RequestUnmeasured
<1>5. ASSUME NEW c \in Conn, SynAckTracked(c) \/ SynAckUnseen(c) \/ Abort(c)
      PROVE  Goal
  BY <1>1, <1>5 DEF SynAckTracked, SynAckUnseen, Abort
<1>6. CASE Tick \/ Stop
  BY <1>1, <1>6 DEF Tick, Stop
<1>7. CASE Start
  BY <1>7, TtlAssumption DEF Start
<1> QED  BY <1>3, <1>4, <1>5, <1>6, <1>7 DEF Next

(* So do the clocks of the connections, the switch and the history.        *)
LEMMA OpenedNext ==
    ASSUME Inv, Next
    PROVE  /\ opened' \in [Conn -> {Closed} \cup 0..MaxThink]
           /\ up' \in BOOLEAN
           /\ orderly' \subseteq Conn
<1> DEFINE Goal == /\ opened' \in [Conn -> {Closed} \cup 0..MaxThink]
                   /\ up' \in BOOLEAN
                   /\ orderly' \subseteq Conn
<1>1. /\ opened \in [Conn -> {Closed} \cup 0..MaxThink]
      /\ up \in BOOLEAN
      /\ orderly \subseteq Conn
  BY DEF Inv, TypeOK
<1>2. 0 \in 0..MaxThink
  BY TtlAssumption
<1>3. ASSUME NEW c \in Conn, SynAckTracked(c) \/ SynAckUnseen(c) PROVE Goal
  BY <1>1, <1>2, <1>3 DEF SynAckTracked, SynAckUnseen
<1>4. ASSUME NEW c \in Conn, RequestMeasured(c) \/ RequestUnmeasured(c) \/ Abort(c)
      PROVE  Goal
  BY <1>1, <1>4 DEF RequestMeasured, RequestUnmeasured, Abort, AfterRequest
<1>5. CASE Tick
  <2>1. ASSUME NEW c \in Conn, opened[c] # Closed, opened[c] # MaxThink
        PROVE  opened[c] + 1 \in 0..MaxThink
    BY <1>1, <2>1, TtlAssumption DEF Closed
  <2> QED  BY <1>1, <1>5, <2>1 DEF Tick
<1>6. CASE Stop \/ Start
  BY <1>1, <1>6 DEF Stop, Start
<1> QED  BY <1>3, <1>4, <1>5, <1>6 DEF Next

LEMMA InvInit == Init => Inv
  BY IntervalAssumption, TtlAssumption
     DEF Init, Inv, TypeOK, RecordsAreYoung, Young, Ages, AgeCap, Never

LEMMA InvNext == Inv /\ [Next]_vars => Inv'
<1> SUFFICES ASSUME Inv, [Next]_vars PROVE Inv'
  OBVIOUS
<1>1. CASE Next
  BY <1>1, TableNext, TtlNext, OpenedNext DEF TableOK, Inv, TypeOK, RecordsAreYoung
<1>2. CASE UNCHANGED vars
  BY <1>2 DEF vars, Inv, TypeOK, RecordsAreYoung
<1> QED  BY <1>1, <1>2

LEMMA InvAlways == Spec => []Inv
  BY InvInit, InvNext, PTL DEF Spec

(* Every state variable stays within its declared range; in particular the *)
(* TTL of a fake is a byte other than 0.                                   *)
THEOREM TypeCorrect == Spec => []TypeOK
  BY InvAlways, PTL DEF Inv

(* No SYN/ACK measurement outlives the last cleanup by Interval.           *)
THEOREM RecordsStayYoung == Spec => []RecordsAreYoung
  BY InvAlways, PTL DEF Inv

(* A fake for a connection whose SYN/ACK was recorded less than Interval   *)
(* ago has the TTL computed from that SYN/ACK, whatever other connections  *)
(* did in between.                                                         *)
THEOREM MeasurementsNotMixed == Spec => OwnMeasurementUsed
<1>1. Inv /\ [Next]_vars => [OwnMeasurementStep]_vars
  <2> SUFFICES ASSUME Inv, Next, NEW f \in fakes',
                      f.conn \in DOMAIN conntrack,
                      conntrack[f.conn].age < Interval
               PROVE  f.ttl = ChosenTtl(SynAckTtl(f.conn))'
    BY DEF OwnMeasurementStep
  <2>1. f.conn \in DOMAIN tcp_cleanup
    BY CleanupType
  <2>2. PICK c \in Conn : RequestMeasured(c) \/ RequestUnmeasured(c)
    BY DEF Next, SynAckTracked, SynAckUnseen, Abort, Tick, Stop, Start
  <2>3. CASE RequestMeasured(c)
    <3>1. f.conn = c /\ f.ttl = ChosenTtl(tcp_cleanup[c].ttl)
      BY <2>3 DEF RequestMeasured, FakesWith
    <3>2. tcp_cleanup[c].ttl = SynAckTtl(c)
      BY <2>1, <3>1, CleanupType
    <3>3. ttl_of_fake_packet' = ChosenTtl(SynAckTtl(c))
      BY <2>3, <3>2 DEF RequestMeasured
    <3>4. ChosenTtl(SynAckTtl(c))' = ChosenTtl(SynAckTtl(c))
      BY <3>3 DEF ChosenTtl, SynAckTtl
    <3> QED  BY <3>1, <3>2, <3>4
  <2>4. CASE RequestUnmeasured(c)
    <3>1. f.conn = c /\ f.ttl = ttl_of_fake_packet
      BY <2>4 DEF RequestUnmeasured, FakesWith
    <3>2. ~Tracking
      BY <2>1, <2>4, <3>1 DEF RequestUnmeasured
    <3>3. ChosenTtl(SynAckTtl(c))' = ttl_of_fake_packet'
      BY <3>2 DEF Tracking, ChosenTtl
    <3> QED  BY <2>4, <3>1, <3>3 DEF RequestUnmeasured
  <2> QED  BY <2>2, <2>3, <2>4
<1> QED  BY <1>1, InvAlways, PTL DEF Spec, OwnMeasurementUsed

-----------------------------------------------------------------------------
(* Fakes of orderly connections expire on the way, and none is missing,    *)
(* when auto TTL is on, a request not late comes within Interval of its    *)
(* SYN/ACK, and the distances are such that the formula is right.  Nothing *)
(* is assumed of the other connections or of the engine.                   *)

Expiring ==
    \A c \in Conn :
        LET ttl == tcp_get_auto_ttl(SynAckTtl(c), AutoTtl1, AutoTtl2, MinHops, MaxTtl)
        IN  ttl < Distance[c]

Prompt == AutoTtl /\ MaxThink < Interval

(* An orderly connection that is open has a record, as old as itself: its  *)
(* request is not made with a TTL left over from another connection.       *)
TrackedOn(c, table, clocks) ==
    clocks[c] # Closed => /\ c \in DOMAIN table
                          /\ table[c].age = clocks[c]

PromptInv ==
    /\ Inv
    /\ up => \A c \in orderly : TrackedOn(c, conntrack, opened)

LEMMA OpenSurvives ==
    ASSUME Prompt, PromptInv, up, NEW c \in orderly, opened[c] # Closed
    PROVE  /\ c \in DOMAIN tcp_cleanup
           /\ tcp_cleanup[c].age = opened[c]
           /\ tcp_cleanup[c].ttl = SynAckTtl(c)
<1>1. c \in DOMAIN conntrack /\ conntrack[c].age = opened[c]
  BY DEF PromptInv, TrackedOn
<1>2. opened[c] < Interval
  BY TtlAssumption, IntervalAssumption DEF Prompt, PromptInv, Inv, TypeOK, Closed
<1> QED  BY <1>1, <1>2, CleanupType DEF PromptInv

LEMMA PromptStep ==
    ASSUME Prompt, PromptInv, Next, up'
    PROVE  \A c \in orderly' : TrackedOn(c, conntrack', opened')
<1> DEFINE Goal == \A c \in orderly' : TrackedOn(c, conntrack', opened')
<1>1. /\ opened \in [Conn -> {Closed} \cup 0..MaxThink]
      /\ orderly \subseteq Conn
  BY DEF PromptInv, Inv, TypeOK
<1>2. ASSUME NEW c \in Conn, SynAckTracked(c) PROVE Goal
  <2> SUFFICES ASSUME NEW d \in orderly', opened'[d] # Closed
               PROVE  d \in DOMAIN conntrack' /\ conntrack'[d].age = opened'[d]
    BY DEF TrackedOn
  <2>1. up /\ opened' = [opened EXCEPT ![c] = IF @ = Closed THEN 0 ELSE @]
    BY <1>2 DEF SynAckTracked, SynAckHandled
  <2>2. CASE d # c
    <3>1. d \in orderly /\ opened'[d] = opened[d]
      BY <1>1, <1>2, <2>1, <2>2 DEF SynAckTracked
    <3>2. d \in DOMAIN tcp_cleanup /\ tcp_cleanup[d].age = opened'[d]
      BY <2>1, <3>1, OpenSurvives
    <3> QED  BY <1>2, <2>2, <3>2 DEF SynAckTracked, With
  <2>3. CASE d = c /\ opened[c] # Closed
    <3>1. d \in orderly /\ opened'[d] = opened[d]
      BY <1>1, <1>2, <2>1, <2>3 DEF SynAckTracked
    <3>2. d \in DOMAIN tcp_cleanup /\ tcp_cleanup[d].age = opened'[d]
      BY <2>1, <2>3, <3>1, OpenSurvives
    <3> QED  BY <1>2, <2>3, <3>2 DEF SynAckTracked
  <2>4. CASE d = c /\ opened[c] = Closed
    <3>1. c \notin DOMAIN tcp_cleanup
      BY <1>2, <2>4 DEF SynAckTracked
    <3>2. opened'[c] = 0
      BY <1>1, <2>1, <2>4
    <3> QED  BY <1>2, <2>4, <3>1, <3>2 DEF SynAckTracked, With
  <2> QED  BY <2>2, <2>3, <2>4
<1>3. ASSUME NEW c \in Conn, SynAckUnseen(c) \/ Abort(c) PROVE Goal
  <2> SUFFICES ASSUME NEW d \in orderly' PROVE TrackedOn(d, conntrack', opened')
    OBVIOUS
  <2>1. up /\ d # c /\ d \in orderly /\ conntrack' = conntrack
    BY <1>3 DEF SynAckUnseen, Abort
  <2>2. opened'[d] = opened[d]
    BY <1>1, <1>3, <2>1 DEF SynAckUnseen, Abort
  <2> QED  BY <2>1, <2>2 DEF PromptInv, TrackedOn
<1>4. ASSUME NEW c \in Conn, RequestMeasured(c) \/ RequestUnmeasured(c)
      PROVE  Goal
  <2> SUFFICES ASSUME NEW d \in orderly', opened'[d] # Closed
               PROVE  d \in DOMAIN conntrack' /\ conntrack'[d].age = opened'[d]
    BY DEF TrackedOn
  <2>1. up /\ AfterRequest(c)
    BY <1>4 DEF RequestMeasured, RequestUnmeasured
  <2>2. d # c /\ d \in orderly /\ opened'[d] = opened[d]
    BY <1>1, <2>1 DEF AfterRequest
  <2>3. d \in DOMAIN tcp_cleanup /\ tcp_cleanup[d].age = opened'[d]
    BY <2>1, <2>2, OpenSurvives
  <2>4. CASE RequestMeasured(c)
    BY <2>2, <2>3, <2>4 DEF RequestMeasured, Without
  <2>5. CASE RequestUnmeasured(c)
    BY <2>3, <2>5 DEF RequestUnmeasured, Tracking, Prompt
  <2> QED  BY <1>4, <2>4, <2>5
<1>5. CASE Tick
  <2> SUFFICES ASSUME NEW d \in orderly', opened'[d] # Closed
               PROVE  d \in DOMAIN conntrack' /\ conntrack'[d].age = opened'[d]
    BY DEF TrackedOn
  <2>1. d \in orderly /\ opened[d] # MaxThink /\ up
    BY <1>5 DEF Tick
  <2>2. opened[d] # Closed /\ opened'[d] = opened[d] + 1
    BY <1>1, <1>5, <2>1 DEF Tick
  <2>3. opened[d] \in 0..MaxThink
    BY <1>1, <2>1, <2>2
  <2>4. d \in DOMAIN conntrack /\ conntrack[d].age = opened[d]
    BY <2>1, <2>2 DEF PromptInv, TrackedOn
  <2>5. Older(opened[d]) = opened[d] + 1
    BY <2>1, <2>3, TtlAssumption, IntervalAssumption DEF Prompt, Older, AgeCap
  <2>6. conntrack[d] \in Record
    BY <2>4 DEF PromptInv, Inv, TypeOK
  <2>7. /\ DOMAIN conntrack' = DOMAIN conntrack
        /\ conntrack'[d] = [conntrack[d] EXCEPT !.age = Older(@)]
    BY <1>5, <2>4 DEF Tick, OlderTable
  <2>8. conntrack'[d].age = Older(conntrack[d].age)
    BY <2>6, <2>7 DEF Record
  <2> QED  BY <2>2, <2>4, <2>5, <2>7, <2>8
<1>6. CASE Stop \/ Start
  BY <1>6 DEF Stop, Start
<1> QED  BY <1>2, <1>3, <1>4, <1>5, <1>6 DEF Next

LEMMA PromptAlways == ASSUME Prompt PROVE Spec => []PromptInv
<1>1. Init => PromptInv
  BY InvInit DEF Init, PromptInv
<1>2. PromptInv /\ [Next]_vars => PromptInv'
  <2>1. CASE Next
    <3>1. ASSUME PromptInv, up'
          PROVE  \A c \in orderly' : TrackedOn(c, conntrack', opened')
      BY <2>1, <3>1, PromptStep, Zenon
    <3>2. PromptInv => Inv'
      BY <2>1, InvNext DEF PromptInv
    <3> QED  BY <3>1, <3>2 DEF PromptInv, TrackedOn
  <2>2. CASE UNCHANGED vars
    BY <2>2, InvNext DEF vars, PromptInv, TrackedOn
  <2> QED  BY <2>1, <2>2
<1> QED  BY <1>1, <1>2, PTL DEF Spec

(* The request of an orderly connection finds its record, and the fake is  *)
(* computed from it.                                                       *)
LEMMA PromptFakes ==
    ASSUME Prompt, PromptInv, NEW c \in orderly,
           RequestMeasured(c) \/ RequestUnmeasured(c)
    PROVE  fakes' = FakesWith(c, tcp_get_auto_ttl(SynAckTtl(c), AutoTtl1,
                                                  AutoTtl2, MinHops, MaxTtl))
<1>1. up /\ opened[c] # Closed
  BY DEF RequestMeasured, RequestUnmeasured
<1>2. c \in DOMAIN tcp_cleanup /\ tcp_cleanup[c].ttl = SynAckTtl(c)
  BY <1>1, OpenSurvives
<1>3. RequestMeasured(c)
  BY <1>2 DEF RequestUnmeasured, Tracking, Prompt
<1> QED  BY <1>2, <1>3 DEF RequestMeasured, ChosenTtl, FarEnough, Prompt

LEMMA ExpiringStep ==
    ASSUME Prompt, Expiring, PromptInv, FakeDiesOnTheWay, [Next]_vars
    PROVE  FakeDiesOnTheWay'
<1>1. ASSUME fakes' = {} PROVE FakeDiesOnTheWay'
  BY <1>1 DEF FakeDiesOnTheWay
<1>2. ASSUME NEW c \in Conn, RequestMeasured(c) \/ RequestUnmeasured(c)
      PROVE  FakeDiesOnTheWay'
  <2> SUFFICES ASSUME NEW f \in fakes', f.conn \in orderly'
               PROVE  f.ttl < Distance[f.conn]
    BY DEF FakeDiesOnTheWay
  <2>1. f.conn = c
    BY <1>2 DEF RequestMeasured, RequestUnmeasured, FakesWith
  <2>2. c \in orderly
    BY <1>2, <2>1 DEF RequestMeasured, RequestUnmeasured, AfterRequest
  <2> QED  BY <1>2, <2>1, <2>2, PromptFakes DEF FakesWith, Expiring
<1>3. CASE UNCHANGED vars
  BY <1>3 DEF vars, FakeDiesOnTheWay
<1> QED
  BY <1>1, <1>2, <1>3
     DEF Next, SynAckTracked, SynAckUnseen, Abort, Tick, Stop, Start

(* Under these assumptions no server sees a fake packet of an orderly      *)
(* connection.                                                             *)
THEOREM FakesExpire == Prompt /\ Expiring /\ Spec => []FakeDiesOnTheWay
<1> SUFFICES ASSUME Prompt, Expiring PROVE Spec => []FakeDiesOnTheWay
  OBVIOUS
<1>1. Init => FakeDiesOnTheWay
  BY DEF Init, FakeDiesOnTheWay
<1>2. PromptInv /\ FakeDiesOnTheWay /\ [Next]_vars => FakeDiesOnTheWay'
  BY ExpiringStep
<1> QED  BY <1>1, <1>2, PromptAlways, PTL DEF Spec

(* With the default options the distances only have to lie between 4 and   *)
(* 29 hops, for servers that send with TTL 64 or 128.                      *)
THEOREM DefaultFakesExpire ==
    ASSUME Prompt,
           AutoTtl1 = 1, AutoTtl2 = 4, MinHops = 3, MaxTtl = 10,
           \A c \in Conn : Distance[c] \in 4..29 /\ InitTtl[c] \in {64, 128}
    PROVE  Spec => []FakeDiesOnTheWay
<1>1. Expiring
  <2>1. ASSUME NEW c \in Conn
        PROVE  tcp_get_auto_ttl(SynAckTtl(c), 1, 4, 3, 10) \in 1..(Distance[c] - 1)
    BY DefaultsExpire DEF SynAckTtl
  <2> QED  BY <2>1 DEF Expiring
<1> QED  BY <1>1, FakesExpire, PTL
-----------------------------------------------------------------------------
(* No fake is missing.                                                     *)

(* The formula yields a TTL other than 0 for the servers far enough away.  *)
Reaching ==
    \A c \in Conn :
        HopsOf(SynAckTtl(c)) > AutoTtl1 /\ HopsOf(SynAckTtl(c)) >= MinHops
            => tcp_get_auto_ttl(SynAckTtl(c), AutoTtl1, AutoTtl2, MinHops,
                                MaxTtl) # 0

(* Nothing that happens to other connections suppresses the fake of an     *)
(* orderly one that is far enough from its server.                         *)
THEOREM FarFakesSent ==
    ASSUME Prompt, Reaching PROVE Spec => FarRequestsFaked
<1>1. PromptInv /\ [Next]_vars => [FarRequestStep]_vars
  <2> SUFFICES ASSUME PromptInv, Next, NEW c \in orderly',
                      opened[c] # Closed, opened'[c] = Closed,
                      HopsOf(SynAckTtl(c)) > AutoTtl1,
                      HopsOf(SynAckTtl(c)) >= MinHops
               PROVE  \E f \in fakes' : f.conn = c
    BY DEF FarRequestStep
  <2>1. opened \in [Conn -> {Closed} \cup 0..MaxThink]
    BY DEF PromptInv, Inv, TypeOK
  <2>2. c \in Conn
    BY OpenedNext DEF PromptInv
  <2>3. ASSUME NEW d \in Conn, SynAckTracked(d) \/ SynAckUnseen(d) \/ Abort(d)
        PROVE  FALSE
    BY <2>1, <2>2, <2>3 DEF SynAckTracked, SynAckUnseen, Abort
  <2>4. ~Tick
    <3> SUFFICES ASSUME Tick PROVE FALSE
      OBVIOUS
    <3>1. opened[c] \in 0..MaxThink
      BY <2>1, <2>2
    <3>2. opened'[c] \in {opened[c], opened[c] + 1}
      BY <2>2 DEF Tick
    <3> QED  BY <3>1, <3>2, TtlAssumption DEF Closed
  <2>5. PICK d \in Conn : RequestMeasured(d) \/ RequestUnmeasured(d)
    BY <2>3, <2>4 DEF Next, Stop, Start
  <2>6. AfterRequest(d)
    BY <2>5 DEF RequestMeasured, RequestUnmeasured
  <2>7. d = c /\ c \in orderly
    BY <2>1, <2>2, <2>6 DEF AfterRequest
  <2> DEFINE ttl == tcp_get_auto_ttl(SynAckTtl(c), AutoTtl1, AutoTtl2, MinHops,
                                     MaxTtl)
  <2>8. fakes' = FakesWith(c, ttl)
    BY <2>5, <2>7, PromptFakes
  <2>9. ttl # 0
    BY <2>2 DEF Reaching
  <2> HIDE DEF ttl
  <2>10. fakes' = {[conn |-> c, ttl |-> ttl]}
    BY <2>8, <2>9 DEF FakesWith
  <2>11. [conn |-> c, ttl |-> ttl].conn = c
    OBVIOUS
  <2> QED  BY <2>10, <2>11
<1> QED  BY <1>1, PromptAlways, PTL DEF Spec, FarRequestsFaked

(* With the default options that is every server whose TTL can be read.    *)
THEOREM DefaultFarFakesSent ==
    ASSUME Prompt, AutoTtl1 = 1, AutoTtl2 = 4
    PROVE  Spec => FarRequestsFaked
<1>1. ASSUME NEW n \in 2..63 PROVE FakeTtlFor(n, 1, 4) # 0
  BY <1>1 DEF FakeTtlFor
<1>2. Reaching
  <2> SUFFICES ASSUME NEW c \in Conn, HopsOf(SynAckTtl(c)) > 1,
                      HopsOf(SynAckTtl(c)) >= MinHops
               PROVE  tcp_get_auto_ttl(SynAckTtl(c), 1, 4, MinHops, MaxTtl) # 0
    BY DEF Reaching
  <2>1. InitTtl[c] \in 0..255 /\ Distance[c] \in 0..255
    BY ConnAssumption DEF Byte
  <2>2. SynAckTtl(c) \in Int
    <3>1. ASSUME NEW i \in 0..255, NEW d \in 0..255 PROVE i - d \in Int
      OBVIOUS
    <3> QED  BY <2>1, <3>1, Zenon DEF SynAckTtl
  <2>3. HopsOf(SynAckTtl(c)) \in 2..63
    BY <2>2 DEF HopsOf
  <2> HIDE DEF HopsOf
  <2> QED
    BY <1>1, <2>3, TtlAssumption DEF tcp_get_auto_ttl, Byte
<1> QED  BY <1>2, FarFakesSent, PTL
=============================================================================
