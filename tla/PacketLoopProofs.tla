-------------------------- MODULE PacketLoopProofs ---------------------------
(* Theorems about PacketLoop, for every request, list and setting.         *)
EXTENDS PacketLoop, TLAPS

(* A packet between two positions whose bytes are those of the stream.     *)
CarriesPart(p, stream) ==
    /\ p.data \in Seq(Byte)
    /\ Len(p.data) > 0
    /\ p.from \in Nat
    /\ p.from + Len(p.data) <= Len(stream)
    /\ p.flaw = "none"
    /\ \A j \in 1..Len(p.data) : p.data[j] = stream[p.from + j]

-----------------------------------------------------------------------------
(* What the loop sends.                                                    *)

(* What the client sends next is a part of its request, and not empty.     *)
LEMMA SegmentIsPart ==
    ASSUME request.bytes \in Seq(Byte), una \in Nat,
           una < Len(request.bytes), window \in Nat \ {0}
    PROVE  /\ Segment \in Seq(Byte)
           /\ Len(Segment) \in 1..(Len(request.bytes) - una)
           /\ \A j \in 1..Len(Segment) : Segment[j] = request.bytes[una + j]
<1> DEFINE last == Low(una + Low(window, Mss), Len(request.bytes))
<1>1. last \in Nat /\ last > una /\ last <= Len(request.bytes)
  BY BoundAssumption DEF Low
<1>2. Segment = SubSeq(request.bytes, una + 1, last)
  BY DEF Segment
<1> HIDE DEF last
<1> QED
  BY <1>1, <1>2

(* The fragments of send_native_fragment tile the segment: each is a part  *)
(* of it, none is empty, and every byte is in one of them.                 *)
LEMMA FragmentsTile ==
    ASSUME NEW from \in Nat, NEW data \in Seq(Byte), Len(data) > 0,
           NEW size \in Nat \ {0}
    PROVE  /\ \A p \in Fragments(from, data, size) :
                 /\ p.data \in Seq(Byte)
                 /\ Len(p.data) > 0
                 /\ p.from \in Nat
                 /\ p.from >= from
                 /\ p.from + Len(p.data) <= from + Len(data)
                 /\ p.flaw = "none"
                 /\ \A j \in 1..Len(p.data) : p.data[j] = data[p.from - from + j]
           /\ \A i \in 1..Len(data) :
                 \E p \in Fragments(from, data, size) :
                    from + i - p.from \in 1..Len(p.data)
<1>1. CASE size >= Len(data)
  <2>1. Fragments(from, data, size) = {Plain(from, data)}
    BY <1>1 DEF Fragments
  <2> QED
    BY <2>1 DEF Plain
<1>2. CASE size < Len(data)
  <2> DEFINE first  == SubSeq(data, 1, size)
             second == SubSeq(data, size + 1, Len(data))
  <2>1. Fragments(from, data, size)
           = {Plain(from, first), Plain(from + size, second)}
    BY <1>2 DEF Fragments
  <2>2. /\ first \in Seq(Byte) /\ Len(first) = size
        /\ \A j \in 1..size : first[j] = data[j]
    BY <1>2
  <2>3. /\ second \in Seq(Byte) /\ Len(second) = Len(data) - size
        /\ \A j \in 1..(Len(data) - size) : second[j] = data[size + j]
    BY <1>2
  <2> HIDE DEF first, second
  <2>4. ASSUME NEW i \in 1..Len(data)
        PROVE  \E p \in Fragments(from, data, size) :
                  from + i - p.from \in 1..Len(p.data)
    <3>1. CASE i <= size
      BY <2>1, <2>2, <3>1 DEF Plain
    <3>2. CASE i > size
      BY <2>1, <2>3, <3>2, <1>2 DEF Plain
    <3> QED
      BY <3>1, <3>2
  <2>5. ASSUME NEW p, p = Plain(from, first)
        PROVE  /\ p.data \in Seq(Byte)
               /\ Len(p.data) > 0
               /\ p.from \in Nat
               /\ p.from >= from
               /\ p.from + Len(p.data) <= from + Len(data)
               /\ p.flaw = "none"
               /\ \A j \in 1..Len(p.data) : p.data[j] = data[p.from - from + j]
    BY <2>2, <2>5, <1>2 DEF Plain
  <2>6. ASSUME NEW p, p = Plain(from + size, second)
        PROVE  /\ p.data \in Seq(Byte)
               /\ Len(p.data) > 0
               /\ p.from \in Nat
               /\ p.from >= from
               /\ p.from + Len(p.data) <= from + Len(data)
               /\ p.flaw = "none"
               /\ \A j \in 1..Len(p.data) : p.data[j] = data[p.from - from + j]
    BY <2>3, <2>6, <1>2 DEF Plain
  <2> QED
    BY <2>1, <2>4, <2>5, <2>6
<1> QED
  BY <1>1, <1>2

LEMMA ConcatLength ==
    ASSUME NEW S, NEW s \in Seq(S), NEW t \in Seq(S)
    PROVE  s \o t \in Seq(S) /\ Len(s \o t) = Len(s) + Len(t)
OBVIOUS

LEMMA FourParts ==
    ASSUME NEW S, NEW s \in Seq(S), NEW t \in Seq(S), NEW u \in Seq(S), NEW v \in Seq(S)
    PROVE  /\ s \o t \o u \o v \in Seq(S)
           /\ Len(s \o t \o u \o v) = Len(s) + Len(t) + Len(u) + Len(v)
<1> DEFINE st == s \o t  stu == st \o u  stuv == stu \o v
<1>1. st \in Seq(S) /\ Len(st) = Len(s) + Len(t)
  BY ConcatLength
<1> HIDE DEF st
<1>2. stu \in Seq(S) /\ Len(stu) = Len(st) + Len(u)
  BY <1>1, ConcatLength
<1> HIDE DEF stu
<1>3. stuv \in Seq(S) /\ Len(stuv) = Len(stu) + Len(v)
  BY <1>2, ConcatLength
<1>4. s \o t \o u \o v = stuv
  BY DEF st, stu
<1> HIDE DEF stuv
<1> QED
  BY <1>1, <1>2, <1>3, <1>4

LEMMA SpaceIsSequence == <<"space">> \in Seq(Byte) /\ Len(<<"space">>) = 1
BY ByteAssumption

(* Moving the space neither loses nor adds a byte.                         *)
LEMMA SpaceMovedLength ==
    ASSUME NEW data \in Seq(Byte), NEW at \in 2..Len(data), NEW to \in 1..Len(data)
    PROVE  /\ SpaceMoved(data, at, to) \in Seq(Byte)
           /\ Len(SpaceMoved(data, at, to)) = Len(data)
<1>1. CASE to < at
  <2> DEFINE a == SubSeq(data, 1, to - 1)
             b == SubSeq(data, to, at - 2)
             c == SubSeq(data, at, Len(data))
  <2>1. a \in Seq(Byte) /\ Len(a) = to - 1
    BY <1>1
  <2>2. b \in Seq(Byte) /\ Len(b) = at - 1 - to
    BY <1>1
  <2>3. c \in Seq(Byte) /\ Len(c) = Len(data) + 1 - at
    OBVIOUS
  <2>4. <<"space">> \in Seq(Byte) /\ Len(<<"space">>) = 1
    BY SpaceIsSequence
  <2>5. SpaceMoved(data, at, to) = a \o <<"space">> \o b \o c
    BY <1>1 DEF SpaceMoved
  <2> DEFINE sp == <<"space">>
  <2> HIDE DEF a, b, c, sp
  <2>6. /\ a \in Seq(Byte) /\ b \in Seq(Byte) /\ c \in Seq(Byte)
        /\ sp \in Seq(Byte)
    BY <2>1, <2>2, <2>3, <2>4 DEF sp
  <2>7. /\ a \o sp \o b \o c \in Seq(Byte)
        /\ Len(a \o sp \o b \o c) = Len(a) + Len(sp) + Len(b) + Len(c)
    BY <2>6, FourParts
  <2> DEFINE whole == a \o sp \o b \o c
  <2>8. SpaceMoved(data, at, to) = whole
    BY <2>5 DEF sp
  <2>9. whole \in Seq(Byte) /\ Len(whole) = Len(data)
    <3>1. Len(sp) = 1
      BY <2>4 DEF sp
    <3>2. Len(whole) = Len(a) + Len(sp) + Len(b) + Len(c)
      BY <2>7
    <3>3. whole \in Seq(Byte)
      BY <2>7
    <3> HIDE DEF whole
    <3> QED
      BY <2>1, <2>2, <2>3, <3>1, <3>2, <3>3
  <2> HIDE DEF whole
  <2> QED
    BY <2>8, <2>9
<1>2. CASE to >= at
  <2> DEFINE a == SubSeq(data, 1, at - 2)
             b == SubSeq(data, at, to)
             c == SubSeq(data, to + 1, Len(data))
  <2>1. a \in Seq(Byte) /\ Len(a) = at - 2
    BY <1>2
  <2>2. b \in Seq(Byte) /\ Len(b) = to + 1 - at
    BY <1>2
  <2>3. c \in Seq(Byte) /\ Len(c) = Len(data) - to
    OBVIOUS
  <2>4. <<"space">> \in Seq(Byte) /\ Len(<<"space">>) = 1
    BY SpaceIsSequence
  <2>5. SpaceMoved(data, at, to) = a \o b \o <<"space">> \o c
    <3>1. ~(to < at)
      BY <1>2
    <3> HIDE DEF a, b, c
    <3> QED
      BY <3>1 DEF SpaceMoved, a, b, c
  <2> DEFINE sp == <<"space">>
  <2> HIDE DEF a, b, c, sp
  <2>6. /\ a \in Seq(Byte) /\ b \in Seq(Byte) /\ c \in Seq(Byte)
        /\ sp \in Seq(Byte)
    BY <2>1, <2>2, <2>3, <2>4 DEF sp
  <2>7. /\ a \o b \o sp \o c \in Seq(Byte)
        /\ Len(a \o b \o sp \o c) = Len(a) + Len(b) + Len(sp) + Len(c)
    BY <2>6, FourParts
  <2> DEFINE whole == a \o b \o sp \o c
  <2>8. SpaceMoved(data, at, to) = whole
    BY <2>5 DEF sp
  <2>9. whole \in Seq(Byte) /\ Len(whole) = Len(data)
    <3>1. Len(sp) = 1
      BY <2>4 DEF sp
    <3>2. Len(whole) = Len(a) + Len(b) + Len(sp) + Len(c)
      BY <2>7
    <3>3. whole \in Seq(Byte)
      BY <2>7
    <3> HIDE DEF whole
    <3> QED
      BY <2>1, <2>2, <2>3, <3>1, <3>2, <3>3
  <2> HIDE DEF whole
  <2> QED
    BY <2>8, <2>9
<1> QED
  BY <1>1, <1>2

LEMMA ValueInData ==
    ASSUME NEW data \in Seq(Byte), NEW name,
           NEW value \in find_header_and_get_info(data, name)
    PROVE  /\ value[1] \in 4..Len(data)
           /\ value[2] \in 1..(Len(data) - 1)
           /\ value[2] >= value[1] + 2
BY DEF find_header_and_get_info

LEMMA NewPlaceInData ==
    ASSUME NEW data \in Seq(Byte), NEW value, NEW to \in NewPlace(data, value)
    PROVE  to \in 1..Len(data)
<1>1. ASSUME to \in find_http_method_end(data)
      PROVE  to \in 1..Len(data)
  <2>1. CASE to = 4 /\ Len(data) >= 4
    BY <2>1
  <2>2. CASE /\ cfg.http_fragment_size \in 1..2
             /\ to = 4 - cfg.http_fragment_size /\ Len(data) >= to
    BY <2>2
  <2> QED
    BY <1>1, <2>1, <2>2 DEF find_http_method_end
<1>2. ASSUME NEW agent \in find_header_and_get_info(data, "Agent"),
             to = agent[2] \/ to = agent[2] + 1
      PROVE  to \in 1..Len(data)
  BY <1>2, ValueInData
<1> QED
  BY <1>1, <1>2 DEF NewPlace

(* An edited request is as long as it was: the stream's numbers stay true. *)
LEMMA EditKeepsLength ==
    ASSUME NEW data \in Seq(Byte), NEW value \in HostValues(data)
    PROVE  /\ Edited(data, value) \in Seq(Byte)
           /\ Len(Edited(data, value)) = Len(data)
<1> DEFINE cased == IF cfg.do_host_mixedcase THEN mix_case(data, value) ELSE data
           named == Renamed(cased, value)
           place == NewPlace(named, value)
<1>1. cased \in Seq(Byte) /\ Len(cased) = Len(data)
  <2> DEFINE mixed == [i \in 1..Len(data) |->
                         IF i \in value[1]..value[2] /\ (i - value[1]) % 2 = 1
                         THEN Upper(data[i]) ELSE data[i]]
  <2>1. mix_case(data, value) = mixed
    BY DEF mix_case
  <2>2. \A i \in 1..Len(data) : mixed[i] \in Byte
    <3> SUFFICES ASSUME NEW i \in 1..Len(data) PROVE mixed[i] \in Byte
      OBVIOUS
    <3>1. data[i] \in Byte
      OBVIOUS
    <3>2. Upper(data[i]) \in Byte
      BY <3>1, ByteAssumption DEF Upper
    <3>3. mixed[i] \in {data[i], Upper(data[i])}
      OBVIOUS
    <3> HIDE DEF mixed
    <3> QED
      BY <3>1, <3>2, <3>3
  <2>3. mixed \in Seq(Byte) /\ Len(mixed) = Len(data)
    <3> HIDE DEF mixed
    <3>1. mixed = [i \in 1..Len(data) |-> mixed[i]]
      BY DEF mixed
    <3> QED
      BY <2>2, <3>1
  <2> HIDE DEF mixed
  <2> QED
    BY <2>1, <2>3
<1> HIDE DEF cased
<1>2. named \in Seq(Byte) /\ Len(named) = Len(data)
  <2> DEFINE name == value[1] - 2
             new  == IF cfg.do_host THEN "hoSt" ELSE cased[name]
  <2>1. name \in 1..Len(cased)
    BY <1>1, ValueInData DEF HostValues
  <2>2. cased[name] \in Byte
    BY <1>1, <2>1
  <2>3. new \in Byte
    BY <2>2, ByteAssumption
  <2>4. named = [cased EXCEPT ![name] = new]
    BY DEF Renamed
  <2> HIDE DEF name, new, named
  <2> QED
    BY <1>1, <2>1, <2>3, <2>4
<1>3. Edited(data, value) =
         IF place = {} THEN named
         ELSE SpaceMoved(named, value[1], CHOOSE to \in place : TRUE)
  BY DEF Edited, cased
<1> HIDE DEF named
<1>4. CASE place = {}
  BY <1>2, <1>3, <1>4
<1>5. CASE place # {}
  <2> DEFINE chosen == CHOOSE to \in place : TRUE
  <2>1. chosen \in place
    BY <1>5
  <2>2. chosen \in 1..Len(named)
    BY <2>1, <1>2, NewPlaceInData
  <2>3. value[1] \in 2..Len(named)
    BY <1>2, ValueInData DEF HostValues
  <2>4. Edited(data, value) = SpaceMoved(named, value[1], chosen)
    BY <1>3, <1>5
  <2> HIDE DEF chosen
  <2> QED
    BY <1>2, <2>2, <2>3, <2>4, SpaceMovedLength
<1> QED
  BY <1>4, <1>5

-----------------------------------------------------------------------------
(* The type invariant.                                                     *)

BytesOK(p) ==
    IF p.flaw = "none" THEN p.data \in Seq(Byte) ELSE p.data \in Seq({Fake})

TypeInv ==
    /\ TypeOK
    /\ \A p \in wire : BytesOK(p)

LEMMA RequestType ==
    ASSUME TypeOK
    PROVE  request.bytes \in Seq(Byte)
<1>1. request \in Request \/ request.bytes = << >>
  BY DEF TypeOK
<1>2. << >> \in Seq(Byte)
  OBVIOUS
<1>3. \A r \in Request : r.bytes \in Seq(Byte)
  BY RequestAssumption
<1> QED
  BY <1>1, <1>2, <1>3, Zenon

LEMMA CountedType ==
    ASSUME TypeOK, NEW n \in Nat, Counted(n)
    PROVE  processed' \in 0..Cap /\ circumvented' \in 0..Cap
<1>1. processed \in 0..Cap /\ circumvented \in 0..Cap
  BY DEF TypeOK
<1>2. \A m \in Nat : Low(m, Cap) \in 0..Cap
  BY BoundAssumption DEF Low
<1>3. processed + 1 \in Nat /\ circumvented + n \in Nat
  BY <1>1
<1>4. processed' = Low(processed + 1, Cap) /\ circumvented' = Low(circumvented + n, Cap)
  BY DEF Counted
<1> QED
  BY <1>2, <1>3, <1>4

(* A fake is as long as the request, and made of nothing else.             *)
LEMMA FakesType ==
    ASSUME TypeOK, una < Len(request.bytes), NEW ttl, NEW p \in Fakes(ttl)
    PROVE  Sane(p) /\ p.flaw # "none" /\ p.data \in Seq({Fake})
<1> DEFINE data == [i \in DOMAIN request.bytes |-> Fake]
<1>1. /\ p.flaw \in {"short", "long", "checksum", "seq"}
      /\ p.from = una
      /\ p.data = data
  BY DEF Fakes
<1>2. request.bytes \in Seq(Byte)
  BY RequestType
<1>3. data = [i \in 1..Len(request.bytes) |-> Fake]
  BY <1>2
<1>4. data \in Seq({Fake}) /\ Len(data) = Len(request.bytes)
  <2> HIDE DEF data
  <2> QED
    BY <1>2, <1>3
<1> HIDE DEF data
<1>5. una \in 0..Len(request.bytes)
  BY DEF TypeOK
<1> QED
  BY <1>1, <1>2, <1>4, <1>5 DEF Sane

(* A host name starts after the byte that announces it.                    *)
SniOK(sni) == sni[1] \in Nat \ {1}

LEMMA SniType ==
    ASSUME NEW data \in Seq(Byte)
    PROVE  SniOK(NoSni) /\ \A sni \in extract_sni(data) : SniOK(sni)
<1>1. SniOK(NoSni)
  BY DEF SniOK, NoSni
<1>2. ASSUME NEW i \in DOMAIN data, NEW name
      PROVE  SniOK(<<i + 1, name>>)
  BY DEF SniOK
<1>3. SniWhole(data) \subseteq DOMAIN data /\ SniTorn(data) \subseteq DOMAIN data
  BY DEF SniWhole, SniTorn
<1> QED
  BY <1>1, <1>2, <1>3 DEF extract_sni

LEMMA FragmentSizeType ==
    ASSUME TypeOK, NEW sni, SniOK(sni), Fragmented(sni)
    PROVE  FragmentSize(sni) \in Nat \ {0}
<1>1. /\ cfg.http_fragment_size \in Nat \ {0}
      /\ cfg.https_fragment_size \in Nat \ {0}
  <2>1. cfg \in Config
    BY DEF TypeOK
  <2> QED
    BY <2>1, ConfigAssumption
<1>2. FragmentSize(sni) # 0
  BY DEF Fragmented
<1>3. \/ FragmentSize(sni) \in {0, cfg.http_fragment_size, cfg.https_fragment_size}
      \/ HasName(sni) /\ FragmentSize(sni) = sni[1] - 1
  BY DEF FragmentSize
<1> QED
  BY <1>1, <1>2, <1>3 DEF HasName, SniOK

(* What SendTreated puts on the wire: fakes, and parts of the segment.     *)
LEMMA SendTreatedAdds ==
    ASSUME TypeOK, una < Len(request.bytes),
           NEW data \in Seq(Byte), Len(data) \in 1..(Len(request.bytes) - una),
           NEW sni, SniOK(sni), NEW changed, SendTreated(data, sni, changed),
           NEW p \in wire', p \notin wire
    PROVE  /\ Sane(p)
           /\ BytesOK(p)
           /\ p.flaw = "none" =>
                 /\ p.from >= una
                 /\ p.from + Len(p.data) <= una + Len(data)
                 /\ \A j \in 1..Len(p.data) : p.data[j] = data[p.from - una + j]
<1>1. una \in Nat /\ request.bytes \in Seq(Byte)
  BY RequestType DEF TypeOK
<1>2. PICK ttl \in TtlOfFake :
          \/ p \in Fakes(ttl)
          \/ Fragmented(sni) /\ p \in Fragments(una, data, FragmentSize(sni))
          \/ p = Plain(una, data)
  BY DEF SendTreated
<1>3. CASE p \in Fakes(ttl)
  BY <1>3, FakesType DEF BytesOK
<1>4. CASE Fragmented(sni) /\ p \in Fragments(una, data, FragmentSize(sni))
  <2>1. FragmentSize(sni) \in Nat \ {0}
    BY <1>4, FragmentSizeType
  <2>2. /\ p.data \in Seq(Byte)
        /\ Len(p.data) > 0
        /\ p.from \in Nat
        /\ p.from >= una
        /\ p.from + Len(p.data) <= una + Len(data)
        /\ p.flaw = "none"
        /\ \A j \in 1..Len(p.data) : p.data[j] = data[p.from - una + j]
    <3> DEFINE size == FragmentSize(sni)
    <3>1. size \in Nat \ {0} /\ p \in Fragments(una, data, size)
      BY <1>4, <2>1
    <3>2. Len(data) > 0
      BY <1>1
    <3> HIDE DEF size
    <3> QED
      BY <1>1, <3>1, <3>2, FragmentsTile
  <2> QED
    BY <1>1, <2>2 DEF Sane, BytesOK
<1>5. CASE p = Plain(una, data)
  BY <1>1, <1>5 DEF Plain, Sane, BytesOK
<1> QED
  BY <1>2, <1>3, <1>4, <1>5

(* Whatever a step of the client adds to the wire came through the branch  *)
(* for treated segments or is the segment as it was sent.                  *)
LEMMA SendAdds ==
    ASSUME TypeInv, Send, NEW p \in wire', p \notin wire
    PROVE  Sane(p) /\ BytesOK(p)
<1>1. /\ TypeOK
      /\ una \in Nat /\ una < Len(request.bytes)
      /\ window \in Nat \ {0}
      /\ request.bytes \in Seq(Byte)
  BY RequestType DEF TypeInv, TypeOK, Send
<1>2. /\ Segment \in Seq(Byte)
      /\ Len(Segment) \in 1..(Len(request.bytes) - una)
  BY <1>1, SegmentIsPart
<1> PICK sni \in extract_sni(Segment) :
          \/ HelloTreated(Segment, sni)
          \/ RequestTreated(Segment)
          \/ SegmentPassed(Segment, sni)
  BY DEF Send
<1>0. SniOK(sni) /\ SniOK(NoSni)
  BY <1>2, SniType
<1>3. CASE HelloTreated(Segment, sni)
  BY <1>0, <1>1, <1>2, <1>3, SendTreatedAdds DEF HelloTreated
<1>4. CASE RequestTreated(Segment)
  <2>1. PICK value \in HostValues(Segment) :
           SendTreated(Edited(Segment, value), NoSni,
                       cfg.do_native_frag \/ IsEdited(Segment, value))
    BY <1>4 DEF RequestTreated
  <2> DEFINE new == Edited(Segment, value)
             changed == cfg.do_native_frag \/ IsEdited(Segment, value)
  <2>2. new \in Seq(Byte) /\ Len(new) = Len(Segment)
    BY <1>2, EditKeepsLength
  <2>3. SendTreated(new, NoSni, changed)
    BY <2>1
  <2> HIDE DEF new, changed
  <2> QED
    BY <1>0, <1>1, <1>2, <2>2, <2>3, SendTreatedAdds
<1>5. CASE SegmentPassed(Segment, sni)
  <2>1. p = Plain(una, Segment)
    BY <1>5 DEF SegmentPassed, SendAsIs
  <2> QED
    BY <1>1, <1>2, <2>1 DEF Plain, Sane, BytesOK
<1> QED
  BY <1>3, <1>4, <1>5

LEMMA OneIsSmall == \A c : One(c) \in 0..1
BY DEF One

LEMMA SendCounts ==
    ASSUME Send
    PROVE  \E n \in 0..2 : Counted(n)
<1>1. ASSUME NEW data, NEW sni, NEW changed, SendTreated(data, sni, changed)
      PROVE  \E n \in 0..2 : Counted(n)
  <2> DEFINE n == One(cfg.do_fake_packet) + One(changed /\ ~Fragmented(sni))
  <2>1. n \in 0..2
    BY OneIsSmall
  <2>2. Counted(n)
    BY <1>1 DEF SendTreated
  <2> QED
    BY <2>1, <2>2
<1> PICK sni \in extract_sni(Segment) :
          \/ HelloTreated(Segment, sni)
          \/ RequestTreated(Segment)
          \/ SegmentPassed(Segment, sni)
  BY DEF Send
<1>2. CASE HelloTreated(Segment, sni)
  BY <1>1, <1>2 DEF HelloTreated
<1>3. CASE RequestTreated(Segment)
  BY <1>1, <1>3 DEF RequestTreated
<1>4. CASE SegmentPassed(Segment, sni)
  BY <1>4 DEF SegmentPassed, SendAsIs
<1> QED
  BY <1>2, <1>3, <1>4

LEMMA TypeInit == Init => TypeInv
<1> SUFFICES ASSUME Init PROVE TypeInv
  OBVIOUS
<1>1. request.bytes = << >> /\ got = << >> /\ wire = {}
  BY DEF Init
<1>2. una \in 0..Len(request.bytes) /\ DOMAIN got = DOMAIN request.bytes
  BY <1>1 DEF Init
<1>3. window \in Nat \ {0} /\ processed \in 0..Cap /\ circumvented \in 0..Cap
  BY BoundAssumption DEF Init
<1> QED
  BY <1>1, <1>2, <1>3 DEF Init, TypeInv, TypeOK

LEMMA TypeStep ==
    ASSUME TypeInv, [Next]_vars
    PROVE  TypeInv'
<1>1. TypeOK
  BY DEF TypeInv
<1>2. ASSUME NEW r \in Request, SynAck(r)
      PROVE  TypeInv'
  <2>1. r.bytes \in Seq(Byte) /\ cfg \in Config
    BY <1>1, RequestAssumption DEF TypeOK
  <2>2. window' \in Nat \ {0}
    <3>1. WindowSize(r) \subseteq Nat \ {0}
      BY <2>1, ConfigAssumption DEF WindowSize
    <3> QED
      BY <1>2, <3>1, BoundAssumption DEF SynAck
  <2>3. processed' \in 0..Cap /\ circumvented' \in 0..Cap
    BY <1>1, <1>2, CountedType, OneIsSmall DEF SynAck
  <2>4. selected' \in BOOLEAN
    BY <1>2 DEF SynAck
  <2>5. DOMAIN got' = DOMAIN request'.bytes
    BY <1>2 DEF SynAck
  <2>6. una' \in 0..Len(request'.bytes)
    BY <1>2, <2>1 DEF SynAck
  <2>7. /\ cfg' \in Config /\ allowlist' \in {{}, Allowlist}
        /\ request' \in Request /\ host' \in Host /\ wire' = {}
    BY <1>1, <1>2 DEF SynAck, TypeOK
  <2> QED
    BY <2>2, <2>3, <2>4, <2>5, <2>6, <2>7 DEF TypeInv, TypeOK
<1>3. CASE Send
  <2>1. UNCHANGED <<cfg, request, host, selected, una, window, got>>
    BY <1>3 DEF Send, connection
  <2>2. allowlist' \in {{}, Allowlist}
    <3>1. \/ \E sni \in extract_sni(Segment) : Consult(Segment, sni)
          \/ UNCHANGED allowlist
      BY <1>3 DEF Send, HelloTreated, RequestTreated, SegmentPassed
    <3>2. allowlist \in {{}, Allowlist}
      BY <1>1 DEF TypeOK
    <3> QED
      BY <3>1, <3>2 DEF Consult, LoadAllowlist
  <2>3. processed' \in 0..Cap /\ circumvented' \in 0..Cap
    BY <1>1, <1>3, SendCounts, CountedType
  <2>4. \A p \in wire' : Sane(p) /\ BytesOK(p)
    BY <1>3, SendAdds DEF TypeInv, TypeOK
  <2>5. \A p \in wire' : Sane(p)' /\ BytesOK(p)'
    BY <2>1, <2>4 DEF Sane, BytesOK
  <2> QED
    BY <1>1, <2>1, <2>2, <2>3, <2>5 DEF TypeInv, TypeOK
<1>4. ASSUME NEW p \in wire, Deliver(p) \/ Lose(p)
      PROVE  TypeInv'
  <2>1. /\ UNCHANGED <<cfg, allowlist, request, host, selected, una, window,
                       processed, circumvented>>
        /\ wire' \subseteq wire
        /\ DOMAIN got' = DOMAIN got
    BY <1>4 DEF Deliver, Lose, connection
  <2>2. \A q \in wire' : Sane(q)' /\ BytesOK(q)'
    BY <2>1 DEF TypeInv, TypeOK, Sane, BytesOK
  <2> QED
    BY <1>1, <2>1, <2>2 DEF TypeInv, TypeOK
<1>5. CASE Ack
  <2>1. UNCHANGED <<cfg, allowlist, request, host, selected, wire, got,
                   processed, circumvented>>
    BY <1>5 DEF Ack
  <2>2. una' \in 0..Len(request.bytes)
    <3>1. request.bytes \in Seq(Byte) /\ DOMAIN got = DOMAIN request.bytes
      BY <1>1, RequestType DEF TypeOK
    <3>2. una' \in DOMAIN got
      BY <1>5 DEF Ack
    <3> QED
      BY <3>1, <3>2
  <2>3. window' \in Nat \ {0}
    BY <1>5, BoundAssumption DEF Ack
  <2>4. \A p \in wire' : Sane(p)' /\ BytesOK(p)'
    BY <2>1 DEF TypeInv, TypeOK, Sane, BytesOK
  <2> QED
    BY <1>1, <2>1, <2>2, <2>3, <2>4 DEF TypeInv, TypeOK
<1>6. CASE UNCHANGED vars
  BY <1>6 DEF vars, TypeInv, TypeOK, Sane, BytesOK
<1> QED
  BY <1>2, <1>3, <1>4, <1>5, <1>6 DEF Next

(* Every packet on the wire lies within the request, and the counters and  *)
(* the client's position stay in range (TypeOK).                           *)
THEOREM TypeCorrect == Spec => []TypeOK
<1>1. Spec => []TypeInv
  BY TypeInit, TypeStep, PTL DEF Spec
<1>2. TypeInv => TypeOK
  BY DEF TypeInv
<1> QED
  BY <1>1, <1>2, PTL

-----------------------------------------------------------------------------
(* Who is left alone.                                                      *)

(* Settings whose blacklist belongs to the filter mode, as                 *)
(* Hayalet_RunConfig makes them.                                           *)
ListsFollowMode ==
    \A c \in Config :
        /\ c.active_filter_mode \in 0..3
        /\ c.active_filter_mode = 1 => c.do_blacklist /\ ~c.do_allow_no_sni

(* A name read right is that of the host.                                  *)
LEMMA NameIsHost ==
    ASSUME Segment \in Seq(Byte),
           NEW sni \in extract_sni(Segment), SniTorn(Segment) = {}
    PROVE  /\ HasName(sni) => sni[2] = host
           /\ SniWhole(Segment) # {} => HasName(sni)
<1>1. SniWhole(Segment) # {} => \E i \in SniWhole(Segment) : sni = <<i + 1, host>>
  BY DEF extract_sni
<1>2. SniWhole(Segment) = {} => sni = NoSni
  BY DEF extract_sni
<1>3. ASSUME NEW i \in SniWhole(Segment), sni = <<i + 1, host>>
      PROVE  sni[1] # 0 /\ sni[2] = host
  <2>1. i \in 1..Len(Segment)
    BY DEF SniWhole
  <2> QED
    BY <1>3, <2>1
<1> QED
  BY <1>1, <1>2, <1>3 DEF HasName, NoSni

LEMMA TreatedIsTargeted ==
    ASSUME ListsFollowMode, TypeOK, Segment \in Seq(Byte),
           NEW sni \in extract_sni(Segment),
           \/ /\ HelloTreated(Segment, sni)
              /\ cfg.active_filter_mode = 3 => NameShown
              /\ NameReadRight
           \/ RequestTreated(Segment)
    PROVE  Targeted
<1>1. /\ cfg.active_filter_mode \in 0..3
      /\ cfg.active_filter_mode = 1 => cfg.do_blacklist /\ ~cfg.do_allow_no_sni
  <2>1. cfg \in Config
    BY DEF TypeOK
  <2> QED
    BY <2>1 DEF ListsFollowMode
<1>2. HelloTreated(Segment, sni) =>
         /\ HasName(sni) => sni[2] = host
         /\ cfg.active_filter_mode = 3 => HasName(sni)
  <2>1. SUFFICES ASSUME HelloTreated(Segment, sni)
                 PROVE  /\ HasName(sni) => sni[2] = host
                        /\ cfg.active_filter_mode = 3 => HasName(sni)
    OBVIOUS
  <2>2. IsHello(Segment) /\ ~RequestTreated(Segment)
    BY <2>1 DEF HelloTreated, HelloSeen, RequestTreated, RequestSeen
  <2>3. SniTorn(Segment) = {}
    BY <2>2 DEF NameReadRight
  <2>4. cfg.active_filter_mode = 3 => SniWhole(Segment) # {}
    BY <2>2 DEF NameShown
  <2> QED
    BY <2>3, <2>4, NameIsHost
<1>3. CASE cfg.active_filter_mode = 0
  BY <1>3 DEF Targeted
<1>4. CASE cfg.active_filter_mode = 1
  <2>1. Listed(host, Blacklist)
    BY <1>1, <1>2, <1>4 DEF HelloTreated, HelloTargeted, RequestTreated, RequestTargeted
  <2> QED
    BY <1>4, <2>1 DEF Targeted
<1>5. CASE cfg.active_filter_mode = 2
  <2>1. selected
    BY <1>5 DEF HelloTreated, HelloSeen, RequestTreated, RequestSeen, LookedAt
  <2> QED
    BY <1>5, <2>1 DEF Targeted
<1>6. CASE cfg.active_filter_mode = 3
  <2>1. GamingHost(host)
    BY <1>2, <1>6 DEF HelloTreated, HelloTargeted, RequestTreated, RequestTargeted
  <2> QED
    BY <1>6, <2>1 DEF Targeted
<1> QED
  BY <1>1, <1>3, <1>4, <1>5, <1>6

LEMMA BystanderNext ==
    ASSUME ListsFollowMode, TypeOK, Next
    PROVE  BystanderStep
<1>1. SUFFICES ASSUME ~Targeted, cfg.active_filter_mode = 3 => NameShown,
                      NameReadRight
               PROVE  wire' \ wire \subseteq {Plain(una, Segment)}
  BY DEF BystanderStep
<1>2. ASSUME NEW r \in Request, SynAck(r)
      PROVE  wire' \ wire \subseteq {Plain(una, Segment)}
  BY <1>2 DEF SynAck
<1>3. CASE Send
  <2>1. PICK sni \in extract_sni(Segment) :
          \/ HelloTreated(Segment, sni)
          \/ RequestTreated(Segment)
          \/ SegmentPassed(Segment, sni)
    BY <1>3 DEF Send
  <2>2. Segment \in Seq(Byte)
    BY <1>3, RequestType, SegmentIsPart DEF Send, TypeOK
  <2>3. SegmentPassed(Segment, sni)
    BY <1>1, <2>1, <2>2, TreatedIsTargeted
  <2> QED
    BY <2>3 DEF SegmentPassed, SendAsIs
<1>4. ASSUME NEW p \in wire, Deliver(p) \/ Lose(p)
      PROVE  wire' \ wire \subseteq {Plain(una, Segment)}
  BY <1>4 DEF Deliver, Lose
<1>5. CASE Ack
  BY <1>5 DEF Ack
<1> QED
  BY <1>2, <1>3, <1>4, <1>5 DEF Next

(* The segments of whom the filter mode is not about are sent as they came *)
(* (BystanderAsSent), for every list, name, request and segmentation: each *)
(* branch that treats a segment has asked for the name, the process or the *)
(* list first.                                                             *)
THEOREM BystandersAsSent ==
    ASSUME ListsFollowMode
    PROVE  Spec => BystanderAsSent
<1>1. TypeOK /\ [Next]_vars => [BystanderStep]_vars
  BY BystanderNext
<1> QED
  BY <1>1, TypeCorrect, PTL DEF Spec, BystanderAsSent

-----------------------------------------------------------------------------
(* The statistics.                                                         *)

(* Settings that send fakes cut what they fake: all modes of the interface.*)
FakesAreCut ==
    \A c \in Config :
        c.do_fake_packet =>
           c.do_native_frag /\ c.do_fragment_http /\ c.do_fragment_https

LEMMA FakedIsFragmented ==
    ASSUME FakesAreCut, TypeOK, cfg.do_fake_packet, NEW sni, SniOK(sni)
    PROVE  cfg.do_native_frag /\ Fragmented(sni)
<1>1. /\ cfg.do_native_frag /\ cfg.do_fragment_http /\ cfg.do_fragment_https
      /\ cfg.http_fragment_size # 0 /\ cfg.https_fragment_size # 0
  <2>1. cfg \in Config
    BY DEF TypeOK
  <2> QED
    BY <2>1, ConfigAssumption DEF FakesAreCut
<1>2. HasName(sni) => sni[1] - 1 # 0
  BY DEF SniOK
<1>3. FragmentSize(sni) # 0
  BY <1>1, <1>2 DEF FragmentSize
<1> QED
  BY <1>1, <1>3 DEF Fragmented

RatioInv == TypeInv /\ RatioBounded

LEMMA CountedOnce ==
    ASSUME RatioInv, NEW n \in 0..1, Counted(n)
    PROVE  RatioBounded'
<1>1. /\ processed \in 0..Cap /\ circumvented \in 0..Cap
      /\ circumvented <= processed
  BY DEF RatioInv, TypeInv, TypeOK, RatioBounded
<1>2. /\ processed' = Low(processed + 1, Cap)
      /\ circumvented' = Low(circumvented + n, Cap)
  BY DEF Counted
<1> QED
  BY <1>1, <1>2, BoundAssumption DEF Low, RatioBounded

LEMMA SendCountsOnce ==
    ASSUME FakesAreCut, TypeInv, Send
    PROVE  \E n \in 0..1 : Counted(n)
<1>1. /\ TypeOK
      /\ una \in Nat /\ una < Len(request.bytes)
      /\ window \in Nat \ {0}
      /\ request.bytes \in Seq(Byte)
  BY RequestType DEF TypeInv, TypeOK, Send
<1>2. Segment \in Seq(Byte)
  BY <1>1, SegmentIsPart
<1>3. ASSUME NEW data, NEW sni, SniOK(sni), NEW changed,
             SendTreated(data, sni, changed), cfg.do_native_frag => changed
      PROVE  \E n \in 0..1 : Counted(n)
  <2> DEFINE n == One(cfg.do_fake_packet) + One(changed /\ ~Fragmented(sni))
  <2>1. Counted(n)
    BY <1>3 DEF SendTreated
  <2>2. n \in 0..1
    <3>1. CASE cfg.do_fake_packet
      BY <1>1, <1>3, <3>1, FakedIsFragmented DEF One
    <3>2. CASE ~cfg.do_fake_packet
      BY <3>2 DEF One
    <3> QED
      BY <3>1, <3>2
  <2> QED
    BY <2>1, <2>2
<1> PICK sni \in extract_sni(Segment) :
          \/ HelloTreated(Segment, sni)
          \/ RequestTreated(Segment)
          \/ SegmentPassed(Segment, sni)
  BY DEF Send
<1>4. SniOK(sni) /\ SniOK(NoSni)
  BY <1>2, SniType
<1>5. CASE HelloTreated(Segment, sni)
  BY <1>3, <1>4, <1>5 DEF HelloTreated
<1>6. CASE RequestTreated(Segment)
  <2>1. PICK value \in HostValues(Segment) :
           SendTreated(Edited(Segment, value), NoSni,
                       cfg.do_native_frag \/ IsEdited(Segment, value))
    BY <1>6 DEF RequestTreated
  <2> DEFINE new == Edited(Segment, value)
             changed == cfg.do_native_frag \/ IsEdited(Segment, value)
  <2>2. SendTreated(new, NoSni, changed) /\ (cfg.do_native_frag => changed)
    BY <2>1
  <2> HIDE DEF new, changed
  <2> QED
    BY <1>3, <1>4, <2>2
<1>7. CASE SegmentPassed(Segment, sni)
  BY <1>7 DEF SegmentPassed, SendAsIs
<1> QED
  BY <1>5, <1>6, <1>7

LEMMA RatioStep ==
    ASSUME FakesAreCut, RatioInv, [Next]_vars
    PROVE  RatioInv'
<1>1. TypeInv'
  BY TypeStep DEF RatioInv
<1>2. ASSUME NEW r \in Request, SynAck(r)
      PROVE  RatioBounded'
  BY <1>2, OneIsSmall, CountedOnce DEF SynAck
<1>3. ASSUME Send
      PROVE  RatioBounded'
  <2>1. PICK n \in 0..1 : Counted(n)
    BY <1>3, SendCountsOnce DEF RatioInv
  <2> QED
    BY <2>1, CountedOnce
<1>4. ASSUME UNCHANGED <<processed, circumvented>>
      PROVE  RatioBounded'
  BY <1>4 DEF RatioInv, RatioBounded
<1> QED
  BY <1>1, <1>2, <1>3, <1>4 DEF Next, Deliver, Lose, Ack, vars, RatioInv

(* Not more packets are counted as circumvented than as processed          *)
(* (RatioBounded): with such settings a faked packet is always fragmented, *)
(* and so not counted again at the final reinjection.                      *)
THEOREM CountsPlausible ==
    ASSUME FakesAreCut
    PROVE  Spec => []RatioBounded
<1>1. Init => RatioInv
  BY TypeInit DEF RatioInv, RatioBounded, Init
<1>2. RatioInv => RatioBounded
  BY DEF RatioInv
<1> QED
  BY <1>1, <1>2, RatioStep, PTL DEF Spec
=============================================================================
