------------------------- MODULE PidAttributionProofs -------------------------
(***************************************************************************)
(* Proofs about PidAttribution, for any ports, processes, programs, flow   *)
(* monitors and cache sizes.                                               *)
(***************************************************************************)
EXTENDS PidAttribution, TLAPS

-----------------------------------------------------------------------------
(* Sequences: what Append and Tail do to the elements of a queue.          *)

LEMMA AppendQueue ==
    ASSUME NEW S, NEW s \in Seq(S), NEW e \in S
    PROVE  /\ Append(s, e) \in Seq(S)
           /\ Len(Append(s, e)) = Len(s) + 1
           /\ DOMAIN Append(s, e) = DOMAIN s \cup {Len(s) + 1}
           /\ Append(s, e)[Len(s) + 1] = e
           /\ \A i \in DOMAIN s : i <= Len(s) /\ Append(s, e)[i] = s[i]
OBVIOUS

LEMMA TailQueue ==
    ASSUME NEW S, NEW s \in Seq(S), s # <<>>
    PROVE  /\ Tail(s) \in Seq(S)
           /\ Len(Tail(s)) = Len(s) - 1
           /\ Head(s) = s[1] /\ 1 \in DOMAIN s /\ Head(s) \in S
           /\ \A i \in DOMAIN Tail(s) :
                 i + 1 \in DOMAIN s /\ i \in Nat /\ Tail(s)[i] = s[i + 1]
           /\ \A i \in DOMAIN s :
                 i # 1 => i - 1 \in DOMAIN Tail(s) /\ Tail(s)[i - 1] = s[i]
OBVIOUS

LEMMA AppendElements ==
    ASSUME NEW S, NEW s \in Seq(S), NEW e \in S
    PROVE  ToSet(Append(s, e)) \subseteq ToSet(s) \cup {e}
BY AppendQueue DEF ToSet

LEMMA TailElements ==
    ASSUME NEW S, NEW s \in Seq(S), s # <<>>
    PROVE  ToSet(Tail(s)) \subseteq ToSet(s)
BY TailQueue DEF ToSet

LEMMA AgeQueue ==
    ASSUME NEW s \in Seq(Verdict), NEW t,
           t = [i \in DOMAIN s |-> [s[i] EXCEPT !.age = Older(@, CacheTtl)]]
    PROVE  /\ t \in Seq(Verdict)
           /\ Len(t) = Len(s)
           /\ \A v \in ToSet(t) : \E u \in ToSet(s) :
                 v = [u EXCEPT !.age = Older(@, CacheTtl)]
<1>1. \A u \in Verdict : [u EXCEPT !.age = Older(@, CacheTtl)] \in Verdict
  BY AttributionAssumption DEF Verdict, Older
<1>2. DOMAIN s = 1..Len(s) /\ Len(s) \in Nat /\ \A i \in DOMAIN s : s[i] \in Verdict
  OBVIOUS
<1>3. t \in [1..Len(s) -> Verdict]
  BY <1>1, <1>2
<1>4. t \in Seq(Verdict)
  BY <1>2, <1>3
<1>5. Len(t) = Len(s)
  BY <1>2, <1>3
<1> QED BY <1>2, <1>4, <1>5 DEF ToSet

-----------------------------------------------------------------------------
(* Types.                                                                  *)

VerdictTypes ==
    /\ filter_apps \subseteq Program
    /\ sinceLoad \in 0..Reload
    /\ pid_cache \in Seq(Verdict) /\ Len(pid_cache) <= CacheSize

LEMMA LoadedTypes ==
    ASSUME TypeOK
    PROVE  /\ AppsLoaded \subseteq Program
           /\ CacheLoaded \in Seq(Verdict) /\ Len(CacheLoaded) <= CacheSize
           /\ ToSet(CacheLoaded) \subseteq ToSet(pid_cache)
<1>1. AppsLoaded \subseteq Program
  BY AttributionAssumption DEF TypeOK, AppsLoaded
<1>2. <<>> \in Seq(Verdict) /\ Len(<<>>) = 0 /\ ToSet(<<>>) = {}
  BY DEF ToSet
<1> QED BY <1>1, <1>2, AttributionAssumption DEF TypeOK, CacheLoaded

LEMMA RememberedTypes ==
    ASSUME NEW cache \in Seq(Verdict), Len(cache) <= CacheSize,
           NEW v \in Verdict
    PROVE  /\ Remembered(cache, v) \in Seq(Verdict)
           /\ Len(Remembered(cache, v)) <= CacheSize
           /\ ToSet(Remembered(cache, v)) \subseteq ToSet(cache) \cup {v}
<1>1. CASE Len(cache) < CacheSize
  BY <1>1, AppendQueue, AppendElements, AttributionAssumption DEF Remembered
<1>2. CASE ~(Len(cache) < CacheSize)
  <2>1. cache # <<>>
    BY <1>2, AttributionAssumption
  <2>2. /\ Tail(cache) \in Seq(Verdict) /\ Len(Tail(cache)) = Len(cache) - 1
        /\ ToSet(Tail(cache)) \subseteq ToSet(cache)
    BY <2>1, TailQueue, TailElements
  <2>3. /\ Append(Tail(cache), v) \in Seq(Verdict)
        /\ Len(Append(Tail(cache), v)) = Len(Tail(cache)) + 1
        /\ ToSet(Append(Tail(cache), v)) \subseteq ToSet(Tail(cache)) \cup {v}
    BY <2>2, AppendQueue, AppendElements
  <2>4. Remembered(cache, v) = Append(Tail(cache), v)
    BY <1>2 DEF Remembered
  <2> QED BY <2>2, <2>3, <2>4, AttributionAssumption
<1> QED BY <1>1, <1>2

LEMMA EvaluatedTypes ==
    ASSUME NEW pid \in Pid
    PROVE  Evaluated(pid) \subseteq Verdict
<1>1. IsListed(pid) \in BOOLEAN
  <2>1. CASE mode = 3
    <3>1. IsListed(pid) = (image[pid] \in Games)
      BY <2>1 DEF IsListed
    <3> QED BY <3>1
  <2>2. CASE mode # 3
    <3>1. IsListed(pid) = (image[pid] \in AppsLoaded)
      BY <2>2 DEF IsListed
    <3> QED BY <3>1
  <2> QED BY <2>1, <2>2
<1>2. \A b, r \in BOOLEAN :
         [pid |-> pid, allowed |-> b, read |-> r, age |-> 0] \in Verdict
  BY AttributionAssumption DEF Verdict
<1> DEFINE good == [pid |-> pid, allowed |-> IsListed(pid), read |-> TRUE,
                    age |-> 0]
           bad  == [pid |-> pid, allowed |-> FALSE, read |-> FALSE, age |-> 0]
<1>3. good \in Verdict /\ bad \in Verdict
  BY <1>1, <1>2, Zenon
<1>4. Evaluated(pid) = {good, bad}
  BY DEF Evaluated
<1> HIDE DEF good, bad
<1> QED BY <1>3, <1>4

(* The cache after a packet of a process is judged: at most one verdict    *)
(* was added, of those that may be evaluated.                              *)
LEMMA JudgedCache ==
    ASSUME TypeOK, NEW pid \in Pid, Judged(pid)
    PROVE  /\ pid_cache' \in Seq(Verdict) /\ Len(pid_cache') <= CacheSize
           /\ \A v \in ToSet(pid_cache') :
                 v \in ToSet(CacheLoaded) \/ v \in Evaluated(pid)
<1>1. CASE pid_cache' = CacheLoaded
  BY <1>1, LoadedTypes
<1>2. ASSUME NEW v \in Evaluated(pid), pid_cache' = Remembered(CacheLoaded, v)
      PROVE  /\ pid_cache' \in Seq(Verdict) /\ Len(pid_cache') <= CacheSize
             /\ ToSet(pid_cache') \subseteq ToSet(CacheLoaded) \cup {v}
  BY <1>2, LoadedTypes, EvaluatedTypes, RememberedTypes
<1>3. \/ pid_cache' = CacheLoaded
      \/ \E v \in Evaluated(pid) : pid_cache' = Remembered(CacheLoaded, v)
  BY DEF Judged
<1> QED BY <1>1, <1>2, <1>3

LEMMA TreatedCases ==
    ASSUME NEW pid \in Pid \cup {NoPid}, Treated(pid)
    PROVE  LoadFilterApps \/ (pid \in Pid /\ Judged(pid))
BY DEF Treated

LEMMA TreatedTypes ==
    ASSUME TypeOK, NEW pid \in Pid \cup {NoPid}, Treated(pid)
    PROVE  VerdictTypes'
<1>1. CASE LoadFilterApps
  BY <1>1, LoadedTypes, AttributionAssumption
  DEF LoadFilterApps, VerdictTypes, TypeOK
<1>2. CASE pid \in Pid /\ Judged(pid)
  <2>1. pid_cache' \in Seq(Verdict) /\ Len(pid_cache') <= CacheSize
    BY <1>2, JudgedCache
  <2>2. filter_apps' = AppsLoaded /\ sinceLoad' \in 0..Reload
    BY <1>2, AttributionAssumption DEF Judged, TypeOK
  <2> QED BY <2>1, <2>2, LoadedTypes DEF VerdictTypes
<1> QED BY <1>1, <1>2, TreatedCases

LEMMA InitType == Init => TypeOK
<1> SUFFICES ASSUME Init PROVE TypeOK
  OBVIOUS
<1>1. /\ events \in [Monitor -> Seq(Flow)]
      /\ \A m \in Monitor : Len(events[m]) <= MaxEvents
      /\ pid_cache \in Seq(Verdict) /\ Len(pid_cache) <= CacheSize
  BY AttributionAssumption DEF Init
<1> QED BY <1>1, AttributionAssumption DEF Init, TypeOK, Nothing

LEMMA LoopType ==
    ASSUME TypeOK, Loop
    PROVE  TypeOK'
<1>1. ASSUME NEW port \in Port, KnownPort(port) PROVE TypeOK'
  <2>1. VerdictTypes'
    BY <1>1, TreatedTypes DEF KnownPort, TypeOK
  <2> QED BY <1>1, <2>1 DEF KnownPort, TypeOK, VerdictTypes, system, monitors,
                            ghosts
<1>2. ASSUME NEW port \in Port, LookUp(port) PROVE TypeOK'
  BY <1>2 DEF LookUp, TypeOK, system, monitors, ghosts, verdicts
<1>3. CASE StoreFound
  <2> PICK found \in lookup :
        /\ port_map' = [port_map EXCEPT ![found.port] = found.pid]
        /\ Treated(found.pid)
    BY <1>3 DEF StoreFound
  <2>1. found.port \in Port /\ found.pid \in Pid \cup {NoPid}
    BY DEF TypeOK
  <2>2. VerdictTypes'
    BY <2>1, TreatedTypes
  <2>3. port_map' \in [Port -> Pid \cup {NoPid}]
    BY <2>1 DEF TypeOK
  <2>4. lookup' = {} /\ UNCHANGED <<system, monitors, exiting, mode, ghosts>>
    BY <1>3 DEF StoreFound, Nothing
  <2> QED BY <2>2, <2>3, <2>4 DEF TypeOK, VerdictTypes, system, monitors, ghosts
<1>4. CASE Inbound
  <2>1. VerdictTypes'
    BY <1>4, LoadedTypes, AttributionAssumption
    DEF Inbound, LoadFilterApps, VerdictTypes, TypeOK
  <2> QED BY <1>4, <2>1 DEF Inbound, TypeOK, VerdictTypes, system, monitors,
                            ghosts
<1> QED BY <1>1, <1>2, <1>3, <1>4 DEF Loop

LEMMA MonitorType ==
    ASSUME TypeOK, NEW m \in Monitor, MonitorStep(m)
    PROVE  TypeOK'
<1>1. CASE MonitorOpens(m) \/ MonitorFails(m)
  BY <1>1 DEF MonitorOpens, MonitorFails, TypeOK, system, verdicts, ghosts
<1>2. CASE MonitorReports(m)
  <2>1. events[m] \in Seq(Flow) /\ events[m] # <<>> /\ Len(events[m]) <= MaxEvents
    BY <1>2 DEF MonitorReports, TypeOK
  <2>2. /\ Head(events[m]) \in Flow
        /\ Tail(events[m]) \in Seq(Flow)
        /\ Len(Tail(events[m])) <= MaxEvents
        /\ \A e \in ToSet(Tail(events[m])) : e \in Flow
    BY <2>1, TailQueue, AttributionAssumption DEF ToSet
  <2>3. port_map' \in [Port -> Pid \cup {NoPid}]
    BY <1>2, <2>2 DEF MonitorReports, Reported, TypeOK, Flow
  <2>4. missed' \subseteq Port
    BY <1>2, <2>2 DEF MonitorReports, TypeOK, Flow
  <2>5. raced' \subseteq Port
    BY <1>2, <2>2 DEF MonitorReports, TypeOK, Flow
  <2>6. /\ events' \in [Monitor -> Seq(Flow)]
        /\ \A n \in Monitor : Len(events'[n]) <= MaxEvents
    <3>1. PICK q \in {<<>>, Tail(events[m])} : events' = [events EXCEPT ![m] = q]
      BY <1>2 DEF MonitorReports
    <3>2. <<>> \in Seq(Flow) /\ Len(<<>>) <= MaxEvents
      BY AttributionAssumption
    <3>3. q \in Seq(Flow) /\ Len(q) <= MaxEvents
      BY <2>2, <3>2
    <3> QED BY <3>1, <3>3 DEF TypeOK
  <2> QED BY <1>2, <2>3, <2>4, <2>5, <2>6
          DEF MonitorReports, TypeOK, system, verdicts
<1> QED BY <1>1, <1>2 DEF MonitorStep

LEMMA StartType ==
    ASSUME TypeOK, NEW md \in Modes, Start(md)
    PROVE  TypeOK'
<1>1. VerdictTypes'
  BY LoadedTypes, AttributionAssumption
  DEF Start, LoadFilterApps, VerdictTypes, TypeOK
<1>2. monitor' \in [Monitor -> {"none", "opening", "listening"}]
  BY DEF Start, TypeOK
<1>3. quiet' \in 0..CacheTtl
  BY AttributionAssumption DEF Start, TypeOK
<1> QED BY <1>1, <1>2, <1>3 DEF Start, TypeOK, VerdictTypes, system

LEMMA ConnectType ==
    ASSUME TypeOK, NEW port \in Port, NEW pid \in Pid, Connect(port, pid)
    PROVE  TypeOK'
<1> DEFINE e == [port |-> port, pid |-> pid]
<1>1. e \in Flow
  BY DEF Flow
<1>2. ASSUME NEW m \in Monitor
      PROVE  events'[m] \in Seq(Flow) /\ Len(events'[m]) <= MaxEvents
  <2>1. /\ Append(events[m], e) \in Seq(Flow)
        /\ Len(Append(events[m], e)) = Len(events[m]) + 1
        /\ Len(events[m]) \in Nat
    BY <1>1, AppendQueue DEF TypeOK
  <2> HIDE DEF e
  <2>2. events'[m] = IF m \in Listening THEN Append(events[m], e) ELSE events[m]
    BY DEF Connect, e
  <2>3. m \in Listening => Len(events[m]) < MaxEvents
    BY DEF Connect
  <2> QED BY <2>1, <2>2, <2>3, AttributionAssumption DEF TypeOK
<1>3. DOMAIN events' = Monitor /\ events' = [m \in Monitor |-> events'[m]]
  BY DEF Connect
<1>4. events' \in [Monitor -> Seq(Flow)]
  BY <1>2, <1>3
<1>5. missed' \subseteq Port /\ owner' \in [Port -> Pid]
  BY DEF Connect, TypeOK
<1> QED BY <1>2, <1>4, <1>5 DEF Connect, TypeOK, verdicts

LEMMA TickType ==
    ASSUME TypeOK, Tick
    PROVE  TypeOK'
<1>1. pid_cache' \in Seq(Verdict) /\ Len(pid_cache') = Len(pid_cache)
  BY AgeQueue DEF Tick, TypeOK
<1>2. sinceLoad' \in 0..Reload /\ quiet' \in 0..CacheTtl
  BY AttributionAssumption DEF Tick, TypeOK, Older
<1> QED BY <1>1, <1>2 DEF Tick, TypeOK, system, monitors

LEMMA NextType == TypeOK /\ [Next]_vars => TypeOK'
<1> SUFFICES ASSUME TypeOK, [Next]_vars PROVE TypeOK'
  OBVIOUS
<1>1. CASE Stop
  BY <1>1 DEF Stop, TypeOK, system, monitors, verdicts, ghosts
<1>2. ASSUME NEW pid \in Pid, ReusePid(pid) PROVE TypeOK'
  BY <1>2, AttributionAssumption DEF ReusePid, TypeOK, monitors, verdicts
<1>3. CASE SelectApps
  BY <1>3, AttributionAssumption DEF SelectApps, TypeOK, monitors, verdicts
<1>4. CASE UNCHANGED vars
  BY <1>4 DEF vars, TypeOK
<1> QED
  BY <1>1, <1>2, <1>3, <1>4, LoopType, MonitorType, StartType, ConnectType,
     TickType DEF Next

LEMMA TypeAlways == Spec => []TypeOK
  BY InitType, NextType, PTL DEF Spec

-----------------------------------------------------------------------------
(* Whose port it is.                                                       *)

(* Only a listening monitor has events, and the last it has of a port is   *)
(* the port's owner.                                                       *)
LastOfPort(m, i) ==
    \A j \in DOMAIN events[m] :
        j > i => events[m][j].port # events[m][i].port

LastReported ==
    \A m \in Monitor :
        /\ monitor[m] # "listening" => events[m] = <<>>
        /\ \A i \in DOMAIN events[m] :
              LastOfPort(m, i) => events[m][i].pid = owner[events[m][i].port]

(* What a lookup found may be outdated when a flow was established since:  *)
(* then its report is still to come, will not come, or came.               *)
LookupRight ==
    \A found \in lookup :
        \/ found.pid \in {owner[found.port], NoPid}
        \/ found.port \in missed \cup raced
        \/ Pending(found.port)

PortInv ==
    /\ TypeOK
    /\ LastReported
    /\ LookupRight
    /\ PortsAttributed

LEMMA InitPorts == Init => PortInv
<1> SUFFICES ASSUME Init PROVE PortInv
  OBVIOUS
<1>1. TypeOK
  BY InitType
<1>2. LastReported
  BY DEF Init, LastReported
<1> QED BY <1>1, <1>2 DEF Init, PortInv, LookupRight, PortsAttributed, Nothing

(* A step that leaves the ports, the monitors and the lookup alone.        *)
LEMMA PortsKept ==
    ASSUME PortInv, TypeOK',
           UNCHANGED <<owner, port_map, events, monitor, lookup, missed, raced>>
    PROVE  PortInv'
BY DEF PortInv, LastReported, LastOfPort, LookupRight, PortsAttributed, Pending,
       Listening

(* Monitors that have no events come and go.                               *)
LEMMA MonitorsMove ==
    ASSUME PortInv, TypeOK',
           UNCHANGED <<owner, port_map, events, lookup, missed, raced>>,
           \A m \in Monitor :
               monitor'[m] = monitor[m] \/ monitor[m] # "listening"
    PROVE  PortInv'
<1>1. LastReported'
  BY DEF PortInv, LastReported, LastOfPort
<1>2. PortsAttributed'
  BY DEF PortInv, PortsAttributed, Pending, Listening
<1>3. LookupRight'
  BY DEF PortInv, LookupRight, Pending, Listening
<1> QED BY <1>1, <1>2, <1>3 DEF PortInv

LEMMA ReportPorts ==
    ASSUME PortInv, TypeOK', NEW m \in Monitor, MonitorReports(m)
    PROVE  PortInv'
<1> DEFINE q == events[m]
           e == Head(q)
<1>1. /\ q \in Seq(Flow) /\ q # <<>>
      /\ e = q[1] /\ 1 \in DOMAIN q /\ e \in Flow
      /\ Tail(q) \in Seq(Flow)
      /\ \A i \in DOMAIN Tail(q) :
            i + 1 \in DOMAIN q /\ i \in Nat /\ Tail(q)[i] = q[i + 1]
      /\ \A i \in DOMAIN q :
            i # 1 => i - 1 \in DOMAIN Tail(q) /\ Tail(q)[i - 1] = q[i]
      /\ \A i \in DOMAIN q : i \in Nat
  BY TailQueue DEF MonitorReports, PortInv, TypeOK
<1>2. /\ port_map' = [port_map EXCEPT ![e.port] = e.pid]
      /\ UNCHANGED <<owner, lookup>>
      /\ \A n \in Monitor \ {m} :
            monitor'[n] = monitor[n] /\ events'[n] = events[n]
      /\ \/ /\ monitor'[m] = "none" /\ events'[m] = <<>>
            /\ missed' = missed \cup {f.port : f \in ToSet(Tail(q))}
         \/ /\ monitor'[m] = "listening" /\ events'[m] = Tail(q)
            /\ missed' = missed
  BY DEF MonitorReports, Reported, system, PortInv, TypeOK
<1>3. e.port \in Port /\ e.pid \in Pid
  BY <1>1 DEF Flow
<1> HIDE DEF q, e
(* The head is the last of its port when the tail has no other.            *)
<1>4. (\A i \in DOMAIN Tail(q) : Tail(q)[i].port # e.port)
         => e.pid = owner[e.port]
  <2> SUFFICES ASSUME \A i \in DOMAIN Tail(q) : Tail(q)[i].port # e.port
               PROVE  e.pid = owner[e.port]
    OBVIOUS
  <2>1. ASSUME NEW j \in DOMAIN q, j > 1 PROVE q[j].port # q[1].port
    <3>1. j - 1 \in DOMAIN Tail(q) /\ Tail(q)[j - 1] = q[j]
      BY <1>1, <2>1
    <3> QED BY <1>1, <3>1
  <2>2. LastOfPort(m, 1)
    BY <2>1 DEF LastOfPort, q
  <2> QED BY <1>1, <2>2 DEF PortInv, LastReported, q
<1>5. LastReported'
  <2> SUFFICES ASSUME NEW n \in Monitor
               PROVE  /\ monitor'[n] # "listening" => events'[n] = <<>>
                      /\ \A i \in DOMAIN events'[n] :
                            LastOfPort(n, i)' => events'[n][i].pid
                                             = owner[events'[n][i].port]
    BY <1>2 DEF LastReported
  <2>1. CASE n # m
    BY <1>2, <2>1 DEF PortInv, LastReported, LastOfPort
  <2>2. CASE n = m /\ events'[m] = <<>>
    BY <2>2
  <2>3. CASE n = m /\ events'[m] = Tail(q) /\ monitor'[m] = "listening"
    <3> SUFFICES ASSUME NEW i \in DOMAIN Tail(q), LastOfPort(m, i)'
                 PROVE  Tail(q)[i].pid = owner[Tail(q)[i].port]
      BY <2>3
    <3>1. ASSUME NEW j \in DOMAIN q, j > i + 1
          PROVE  q[j].port # q[i + 1].port
      <4>1. j - 1 \in DOMAIN Tail(q) /\ Tail(q)[j - 1] = q[j] /\ j - 1 > i
        BY <1>1, <3>1
      <4>2. Tail(q)[j - 1].port # Tail(q)[i].port
        BY <2>3, <4>1 DEF LastOfPort
      <4> QED BY <1>1, <4>1, <4>2
    <3>2. LastOfPort(m, i + 1)
      BY <3>1 DEF LastOfPort, q
    <3> QED BY <1>1, <3>2 DEF PortInv, LastReported, q
  <2> QED BY <1>2, <2>1, <2>2, <2>3
<1>6. /\ raced' = IF FoundOther(e) THEN raced \cup {e.port} ELSE raced \ {e.port}
      /\ missed \subseteq missed'
  BY <1>2 DEF MonitorReports, e, q
(* Of a port of which no more reports are to come: if it is the head's,    *)
(* the head's process has it; if not, there were none before.              *)
<1>7. ASSUME NEW port \in Port, port \notin missed', ~Pending(port)'
      PROVE  IF port = e.port THEN e.pid = owner[port]
                              ELSE port \notin missed /\ ~Pending(port)
  <2>1. \A i \in DOMAIN Tail(q) : Tail(q)[i].port # port
    <3>1. CASE events'[m] = Tail(q) /\ monitor'[m] = "listening"
      BY <1>7, <3>1 DEF Pending, Listening
    <3>2. CASE missed' = missed \cup {f.port : f \in ToSet(Tail(q))}
      BY <1>7, <3>2 DEF ToSet
    <3> QED BY <1>2, <3>1, <3>2
  <2>2. CASE port = e.port
    BY <1>4, <2>1, <2>2
  <2>3. CASE port # e.port
    <3>1. port \notin missed
      BY <1>6, <1>7
    <3>2. ASSUME NEW n \in Listening, NEW i \in DOMAIN events[n],
                 events[n][i].port = port
          PROVE  FALSE
      <4>1. CASE n = m
        <5>1. i # 1
          BY <1>1, <2>3, <3>2, <4>1 DEF q
        <5> QED BY <1>1, <2>1, <3>2, <4>1, <5>1 DEF q
      <4>2. CASE n # m
        BY <1>2, <1>7, <3>2, <4>2 DEF Pending, Listening
      <4> QED BY <4>1, <4>2
    <3>3. ~Pending(port)
      BY <3>2 DEF Pending
    <3> QED BY <2>3, <3>1, <3>3
  <2> QED BY <2>2, <2>3
<1>8. PortsAttributed'
  <2> SUFFICES ASSUME NEW port \in Port, port \notin missed',
                      port \notin raced', ~Pending(port)'
               PROVE  port_map'[port] \in {NoPid, owner[port]}
    BY <1>2 DEF PortsAttributed
  <2>1. CASE port = e.port
    BY <1>2, <1>3, <1>7, <2>1 DEF PortInv, TypeOK
  <2>2. CASE port # e.port
    <3>1. port \notin raced /\ port_map'[port] = port_map[port]
      BY <1>2, <1>3, <1>6, <2>2 DEF PortInv, TypeOK
    <3> QED BY <1>7, <2>2, <3>1 DEF PortInv, PortsAttributed
  <2> QED BY <2>1, <2>2
<1>9. LookupRight'
  <2> SUFFICES ASSUME NEW found \in lookup, found.port \notin missed',
                      found.port \notin raced', ~Pending(found.port)'
               PROVE  found.pid \in {NoPid, owner[found.port]}
    BY <1>2 DEF LookupRight
  <2>1. found.port \in Port
    BY DEF PortInv, TypeOK
  <2>2. CASE found.port = e.port
    <3>1. ~FoundOther(e)
      BY <1>6, <2>2
    <3>2. found.pid \in {e.pid, NoPid}
      BY <2>2, <3>1 DEF FoundOther
    <3> QED BY <1>7, <2>1, <2>2, <3>2
  <2>3. CASE found.port # e.port
    <3>1. found.port \notin raced
      BY <1>6, <2>3
    <3> QED BY <1>7, <2>1, <2>3, <3>1 DEF PortInv, LookupRight
  <2> QED BY <2>2, <2>3
<1> QED BY <1>5, <1>8, <1>9 DEF PortInv

LEMMA ConnectPorts ==
    ASSUME PortInv, TypeOK', NEW port \in Port, NEW pid \in Pid,
           Connect(port, pid)
    PROVE  PortInv'
<1> DEFINE e == [port |-> port, pid |-> pid]
<1>1. /\ UNCHANGED <<port_map, monitor, lookup, raced>>
      /\ owner'[port] = pid
      /\ \A p \in Port \ {port} : owner'[p] = owner[p]
  BY DEF Connect, Nothing, PortInv, TypeOK
<1>2. ASSUME NEW m \in Monitor
      PROVE  IF m \in Listening
             THEN /\ DOMAIN events'[m] = DOMAIN events[m] \cup {Len(events[m]) + 1}
                  /\ events'[m][Len(events[m]) + 1] = e
                  /\ \A i \in DOMAIN events[m] :
                        i <= Len(events[m]) /\ events'[m][i] = events[m][i]
             ELSE events'[m] = events[m]
  <2>1. e \in Flow /\ events[m] \in Seq(Flow)
    BY DEF Flow, PortInv, TypeOK
  <2>2. events'[m] = IF m \in Listening THEN Append(events[m], e) ELSE events[m]
    BY DEF Connect
  <2> HIDE DEF e
  <2> QED BY <2>1, <2>2, AppendQueue
<1>3. /\ e.port = port /\ e.pid = pid
      /\ \A m \in Monitor : /\ Len(events[m]) \in Nat
                            /\ \A i \in DOMAIN events[m] :
                                  i \in Nat /\ events[m][i].port \in Port
  <2>1. \A m \in Monitor : events[m] \in Seq(Flow)
    BY DEF PortInv, TypeOK
  <2>2. \A f \in Flow : f.port \in Port
    BY DEF Flow
  <2>3. \A s \in Seq(Flow) :
           Len(s) \in Nat /\ \A i \in DOMAIN s : i \in Nat /\ s[i] \in Flow
    OBVIOUS
  <2> QED BY <2>1, <2>2, <2>3
<1> HIDE DEF e
<1>4. LastReported'
  <2> SUFFICES ASSUME NEW m \in Monitor
               PROVE  /\ monitor'[m] # "listening" => events'[m] = <<>>
                      /\ \A i \in DOMAIN events'[m] :
                            LastOfPort(m, i)' => events'[m][i].pid
                                             = owner'[events'[m][i].port]
    BY DEF LastReported
  <2>1. CASE m \notin Listening
    <3>1. events[m] = <<>> /\ events'[m] = <<>>
      BY <1>2, <2>1 DEF PortInv, LastReported, Listening
    <3> QED BY <3>1
  <2>2. CASE m \in Listening
    <3> SUFFICES ASSUME NEW i \in DOMAIN events'[m], LastOfPort(m, i)'
                 PROVE  events'[m][i].pid = owner'[events'[m][i].port]
      BY <1>1, <2>2 DEF Listening
    <3>1. CASE i = Len(events[m]) + 1
      BY <1>1, <1>2, <1>3, <2>2, <3>1
    <3>2. CASE i # Len(events[m]) + 1
      <4>1. /\ i \in DOMAIN events[m] /\ events'[m][i] = events[m][i]
            /\ i < Len(events[m]) + 1
        BY <1>2, <1>3, <2>2, <3>2
      <4>2. events[m][i].port # port
        BY <1>2, <1>3, <2>2, <4>1 DEF LastOfPort
      <4>3. LastOfPort(m, i)
        BY <1>2, <2>2, <4>1 DEF LastOfPort
      <4> QED BY <1>1, <1>3, <4>1, <4>2, <4>3 DEF PortInv, LastReported
    <3> QED BY <3>1, <3>2
  <2> QED BY <2>1, <2>2
<1>5. ASSUME NEW p \in Port, p \notin missed', ~Pending(p)'
      PROVE  p # port /\ p \notin missed /\ ~Pending(p)
  <2>1. p # port
    <3> SUFFICES ASSUME p = port PROVE FALSE
      OBVIOUS
    <3>1. PICK m \in Listening : TRUE
      BY <1>5 DEF Connect
    <3> QED BY <1>1, <1>2, <1>3, <1>5, <3>1 DEF Pending, Listening
  <2>2. p \notin missed
    BY <1>5, <2>1 DEF Connect
  <2>3. ~Pending(p)
    BY <1>1, <1>2, <1>5 DEF Pending, Listening
  <2> QED BY <2>1, <2>2, <2>3
<1>6. PortsAttributed'
  BY <1>1, <1>5 DEF PortInv, PortsAttributed
<1>7. LookupRight'
  <2> SUFFICES ASSUME NEW found \in lookup, found.port \notin missed',
                      found.port \notin raced, ~Pending(found.port)'
               PROVE  found.pid \in {owner'[found.port], NoPid}
    BY <1>1 DEF LookupRight
  <2>1. found.port \in Port
    BY DEF PortInv, TypeOK
  <2> QED BY <1>1, <1>5, <2>1 DEF PortInv, LookupRight
<1> QED BY <1>4, <1>6, <1>7 DEF PortInv

LEMMA NextPorts == PortInv /\ [Next]_vars => PortInv'
<1> SUFFICES ASSUME PortInv, [Next]_vars PROVE PortInv'
  OBVIOUS
<1>0. TypeOK'
  BY NextType DEF PortInv
<1>1. CASE \/ \E port \in Port : KnownPort(port)
           \/ Inbound \/ Stop \/ Tick \/ SelectApps
           \/ \E pid \in Pid : ReusePid(pid)
  BY <1>0, <1>1, PortsKept
  DEF KnownPort, Inbound, Stop, Tick, SelectApps, ReusePid, system, monitors,
      ghosts
<1>2. ASSUME NEW port \in Port, LookUp(port) PROVE PortInv'
  <2>1. /\ UNCHANGED <<owner, port_map, events, monitor, missed, raced>>
        /\ \A found \in lookup' : found.pid \in {owner[found.port], NoPid}
    BY <1>2 DEF LookUp, system, monitors, ghosts
  <2> QED BY <1>0, <2>1 DEF PortInv, LastReported, LastOfPort, LookupRight,
                            PortsAttributed, Pending, Listening
<1>3. CASE StoreFound
  <2> PICK found \in lookup :
        /\ port_map' = [port_map EXCEPT ![found.port] = found.pid]
        /\ lookup' = {}
        /\ UNCHANGED <<owner, events, monitor, missed, raced>>
    BY <1>3 DEF StoreFound, Nothing, system, monitors, ghosts
  <2>1. /\ found.port \in Port
        /\ \/ found.pid \in {owner[found.port], NoPid}
           \/ found.port \in missed \cup raced
           \/ Pending(found.port)
    BY DEF PortInv, LookupRight, TypeOK
  <2>2. PortsAttributed'
    BY <2>1 DEF PortInv, TypeOK, PortsAttributed, Pending, Listening
  <2> QED BY <1>0, <2>2 DEF PortInv, LastReported, LastOfPort, LookupRight
<1>4. ASSUME NEW m \in Monitor, MonitorOpens(m) \/ MonitorFails(m)
      PROVE  PortInv'
  BY <1>0, <1>4, MonitorsMove
  DEF MonitorOpens, MonitorFails, PortInv, TypeOK, system, ghosts
<1>5. ASSUME NEW m \in Monitor, MonitorReports(m) PROVE PortInv'
  BY <1>0, <1>5, ReportPorts
<1>6. ASSUME NEW md \in Modes, Start(md) PROVE PortInv'
  BY <1>0, <1>6, MonitorsMove DEF Start, PortInv, TypeOK, system
<1>7. ASSUME NEW port \in Port, NEW pid \in Pid, Connect(port, pid)
      PROVE  PortInv'
  BY <1>0, <1>7, ConnectPorts
<1>8. CASE UNCHANGED vars
  BY <1>0, <1>8, PortsKept DEF vars
<1> QED
  BY <1>1, <1>2, <1>3, <1>4, <1>5, <1>6, <1>7, <1>8
  DEF Next, Loop, MonitorStep

-----------------------------------------------------------------------------
(* Verdicts.                                                               *)

(* What the file says now.                                                 *)
Listed == IF file = NoFile THEN {} ELSE file

(* The list was read after the last change of anything a verdict needs.    *)
LoadedSince == sinceLoad < Reload /\ sinceLoad < quiet

NoFileNoApps == file = NoFile => filter_apps = {}

LoadedRight == LoadedSince => filter_apps = Listed

(* The cache was emptied when the list was read.                           *)
CachedSince ==
    file # NoFile /\ LoadedSince =>
        \A v \in ToSet(pid_cache) : v.age <= sinceLoad

(* A verdict reached after the last change, with a list that was right.    *)
CachedRight ==
    file = NoFile \/ LoadedSince =>
        \A v \in ToSet(pid_cache) :
            v.age < CacheTtl /\ v.age < quiet =>
                v.allowed = (v.read /\ Selected(v.pid))

VerdictInv == NoFileNoApps /\ LoadedRight /\ CachedSince /\ CachedRight

LEMMA EvaluatedRight ==
    ASSUME NEW pid, AppsLoaded = Listed
    PROVE  \A v \in Evaluated(pid) :
              v.pid = pid /\ v.allowed = (v.read /\ Selected(pid))
<1>1. IsListed(pid) = Selected(pid)
  <2>1. CASE mode = 3
    BY <2>1 DEF IsListed, Selected
  <2>2. CASE mode # 3
    <3>1. IsListed(pid) = (image[pid] \in Listed)
      BY <2>2 DEF IsListed
    <3>2. Selected(pid) = (file # NoFile /\ image[pid] \in file)
      BY <2>2 DEF Selected
    <3>3. (image[pid] \in Listed) = (file # NoFile /\ image[pid] \in file)
      BY DEF Listed
    <3> QED BY <3>1, <3>2, <3>3
  <2> QED BY <2>1, <2>2
<1>2. Selected(pid) \in BOOLEAN
  <2>1. CASE mode = 3
    <3>1. Selected(pid) = (image[pid] \in Games)
      BY <2>1 DEF Selected
    <3> QED BY <3>1
  <2>2. CASE mode # 3
    <3>1. Selected(pid) = (file # NoFile /\ image[pid] \in file)
      BY <2>2 DEF Selected
    <3> QED BY <3>1
  <2> QED BY <2>1, <2>2
<1>3. \A v \in Evaluated(pid) :
         /\ v.pid = pid
         /\ \/ v.read = TRUE /\ v.allowed = IsListed(pid)
            \/ v.read = FALSE /\ v.allowed = FALSE
  BY DEF Evaluated
<1> QED BY <1>1, <1>2, <1>3

LEMMA EvaluatedNow ==
    ASSUME NEW pid
    PROVE  \A v \in Evaluated(pid) : v.age = 0
BY DEF Evaluated

LEMMA AppsRight ==
    ASSUME TypeOK, VerdictInv, file = NoFile \/ MustLoad \/ LoadedSince
    PROVE  AppsLoaded = Listed
BY DEF VerdictInv, NoFileNoApps, LoadedRight, AppsLoaded, Listed

LEMMA CacheAges ==
    ASSUME TypeOK
    PROVE  \A v \in ToSet(pid_cache) : v \in Verdict /\ v.age \in 0..CacheTtl
<1>1. \A s \in Seq(Verdict) : \A v \in ToSet(s) : v \in Verdict
  BY DEF ToSet
<1>2. \A v \in Verdict : v.age \in 0..CacheTtl
  BY DEF Verdict
<1> QED BY <1>1, <1>2 DEF TypeOK

(* A step that reads the list if it is time to, and adds at most a verdict *)
(* that is right if the list is; the mode may change when quiet says so.   *)
LEMMA LoadVerdicts ==
    ASSUME TypeOK, VerdictInv,
           filter_apps' = AppsLoaded,
           sinceLoad' = IF MustLoad THEN 0 ELSE sinceLoad,
           UNCHANGED <<file, image>>,
           (mode' = mode /\ quiet' = quiet) \/ quiet' = 0,
           \A v \in ToSet(pid_cache') :
              \/ v \in ToSet(CacheLoaded)
              \/ \E pid \in Pid : v \in Evaluated(pid)
    PROVE  VerdictInv'
<1>1. /\ sinceLoad \in Nat /\ quiet \in Nat /\ Reload \in Nat
      /\ \A v \in ToSet(CacheLoaded) : v \in ToSet(pid_cache) /\ v.age \in Nat
  BY LoadedTypes, CacheAges, AttributionAssumption DEF TypeOK
<1>2. CASE quiet' = 0
  <2>1. ~LoadedSince'
    BY <1>1, <1>2 DEF LoadedSince
  <2>2. \A v \in ToSet(pid_cache') : ~(v.age < quiet')
    BY <1>1, <1>2, EvaluatedNow
  <2>3. NoFileNoApps'
    BY DEF VerdictInv, NoFileNoApps, AppsLoaded
  <2> QED BY <2>1, <2>2, <2>3
          DEF VerdictInv, LoadedRight, CachedSince, CachedRight
<1>3. CASE mode' = mode /\ quiet' = quiet
  <2>1. NoFileNoApps'
    BY DEF VerdictInv, NoFileNoApps, AppsLoaded
  <2>2. LoadedSince' => MustLoad \/ LoadedSince
    BY <1>3 DEF LoadedSince
  <2>3. LoadedRight'
    BY <2>2, AppsRight DEF LoadedRight, Listed
  <2>4. \A v : v \in ToSet(CacheLoaded) /\ file # NoFile => ~MustLoad
    BY DEF CacheLoaded, ToSet
  <2>5. CachedSince'
    <3> SUFFICES ASSUME file # NoFile, LoadedSince', NEW v \in ToSet(pid_cache')
                 PROVE  v.age <= sinceLoad'
      BY DEF CachedSince
    <3>1. CASE v \in ToSet(CacheLoaded)
      BY <1>1, <2>2, <2>4, <3>1 DEF VerdictInv, CachedSince
    <3>2. CASE v.age = 0
      BY <1>1, <3>2
    <3> QED BY <3>1, <3>2, EvaluatedNow
  <2>6. \A pid : Selected(pid)' = Selected(pid)
    BY <1>3 DEF Selected
  <2>7. CachedRight'
    <3> SUFFICES ASSUME file = NoFile \/ LoadedSince',
                        NEW v \in ToSet(pid_cache'),
                        v.age < CacheTtl, v.age < quiet
                 PROVE  v.allowed = (v.read /\ Selected(v.pid))
      BY <1>3, <2>6 DEF CachedRight
    <3>1. CASE v \in ToSet(CacheLoaded)
      <4>1. file = NoFile \/ LoadedSince
        BY <2>2, <2>4, <3>1
      <4> QED BY <1>1, <3>1, <4>1 DEF VerdictInv, CachedRight
    <3>2. ASSUME NEW pid \in Pid, v \in Evaluated(pid)
          PROVE  v.allowed = (v.read /\ Selected(v.pid))
      BY <2>2, <3>2, AppsRight, EvaluatedRight
    <3> QED BY <3>1, <3>2
  <2> QED BY <2>1, <2>3, <2>5, <2>7 DEF VerdictInv
<1> QED BY <1>2, <1>3

LEMMA LoadOnly ==
    ASSUME TypeOK, VerdictInv, LoadFilterApps, UNCHANGED <<file, image>>,
           (mode' = mode /\ quiet' = quiet) \/ quiet' = 0
    PROVE  VerdictInv'
BY LoadVerdicts DEF LoadFilterApps

LEMMA TreatedVerdicts ==
    ASSUME TypeOK, VerdictInv, NEW pid \in Pid \cup {NoPid}, Treated(pid),
           UNCHANGED <<file, image, mode, quiet>>
    PROVE  VerdictInv'
<1>1. CASE LoadFilterApps
  BY <1>1, LoadOnly
<1>2. CASE pid \in Pid /\ Judged(pid)
  <2>1. \A v \in ToSet(pid_cache') :
           v \in ToSet(CacheLoaded) \/ \E p \in Pid : v \in Evaluated(p)
    BY <1>2, JudgedCache
  <2> QED BY <1>2, <2>1, LoadVerdicts DEF Judged
<1> QED BY <1>1, <1>2, TreatedCases

(* A step that changes none of this.                                       *)
LEMMA VerdictsKept ==
    ASSUME VerdictInv, UNCHANGED <<file, image, mode, quiet, verdicts>>
    PROVE  VerdictInv'
<1>1. /\ LoadedSince' <=> LoadedSince
      /\ Listed' = Listed
      /\ \A pid : Selected(pid)' = Selected(pid)
  BY DEF LoadedSince, Listed, Selected, verdicts
<1> QED BY <1>1 DEF VerdictInv, NoFileNoApps, LoadedRight, CachedSince,
                    CachedRight, verdicts

(* One that changes what verdicts depend on; the file is not deleted.      *)
LEMMA VerdictsOutdated ==
    ASSUME TypeOK, VerdictInv, quiet' = 0, UNCHANGED verdicts,
           file' = NoFile => file = NoFile
    PROVE  VerdictInv'
<1>1. /\ sinceLoad \in Nat
      /\ \A v \in ToSet(pid_cache) : v.age \in Nat
  BY CacheAges, AttributionAssumption DEF TypeOK
<1>2. /\ ~LoadedSince'
      /\ \A v \in ToSet(pid_cache') : ~(v.age < quiet')
  BY <1>1 DEF LoadedSince, verdicts
<1> QED BY <1>2 DEF VerdictInv, NoFileNoApps, LoadedRight, CachedSince,
                    CachedRight, verdicts

LEMMA TickVerdicts ==
    ASSUME TypeOK, VerdictInv, Tick
    PROVE  VerdictInv'
<1>1. /\ sinceLoad \in 0..Reload /\ sinceLoad' = Older(sinceLoad, Reload)
      /\ quiet \in 0..CacheTtl /\ quiet' = Older(quiet, CacheTtl)
      /\ Reload \in Nat /\ CacheTtl \in Nat /\ Reload <= CacheTtl
      /\ UNCHANGED <<file, image, mode, filter_apps>>
  BY AttributionAssumption DEF Tick, TypeOK, system
<1>2. LoadedSince' => LoadedSince /\ sinceLoad' = sinceLoad + 1
  BY <1>1 DEF LoadedSince, Older
<1>3. ASSUME NEW v \in ToSet(pid_cache')
      PROVE  \E u \in ToSet(pid_cache) :
                /\ v.pid = u.pid /\ v.allowed = u.allowed /\ v.read = u.read
                /\ u.age \in 0..CacheTtl /\ v.age = Older(u.age, CacheTtl)
  <2>0. /\ pid_cache \in Seq(Verdict)
        /\ pid_cache' = [i \in DOMAIN pid_cache |->
                            [pid_cache[i] EXCEPT !.age = Older(@, CacheTtl)]]
    BY DEF Tick, TypeOK
  <2>1. PICK u \in ToSet(pid_cache) : v = [u EXCEPT !.age = Older(@, CacheTtl)]
    BY <2>0, AgeQueue
  <2>2. u \in Verdict
    BY CacheAges
  <2> QED BY <2>1, <2>2 DEF Verdict
<1>4. NoFileNoApps' /\ LoadedRight'
  BY <1>1, <1>2 DEF VerdictInv, NoFileNoApps, LoadedRight, Listed
<1>5. CachedSince'
  <2> SUFFICES ASSUME file # NoFile, LoadedSince', NEW v \in ToSet(pid_cache')
               PROVE  v.age <= sinceLoad'
    BY <1>1 DEF CachedSince
  <2>1. PICK u \in ToSet(pid_cache) :
           u.age \in 0..CacheTtl /\ v.age = Older(u.age, CacheTtl)
    BY <1>3
  <2>2. u.age <= sinceLoad
    BY <1>2 DEF VerdictInv, CachedSince
  <2> QED BY <1>1, <1>2, <2>1, <2>2 DEF Older
<1>6. CachedRight'
  <2> SUFFICES ASSUME file = NoFile \/ LoadedSince, NEW v \in ToSet(pid_cache'),
                      v.age < CacheTtl, v.age < quiet'
               PROVE  v.allowed = (v.read /\ Selected(v.pid))
    BY <1>1, <1>2 DEF CachedRight, Selected
  <2>1. PICK u \in ToSet(pid_cache) :
           /\ v.pid = u.pid /\ v.allowed = u.allowed /\ v.read = u.read
           /\ u.age \in 0..CacheTtl /\ v.age = Older(u.age, CacheTtl)
    BY <1>3
  <2>2. u.age < CacheTtl /\ u.age < quiet
    BY <1>1, <2>1 DEF Older
  <2> QED BY <2>1, <2>2 DEF VerdictInv, CachedRight
<1> QED BY <1>4, <1>5, <1>6 DEF VerdictInv

LEMMA InitVerdicts == Init => VerdictInv
<1> SUFFICES ASSUME Init PROVE VerdictInv
  OBVIOUS
<1>1. ToSet(pid_cache) = {} /\ filter_apps = {} /\ ~LoadedSince
  BY AttributionAssumption DEF Init, ToSet, LoadedSince
<1> QED BY <1>1 DEF VerdictInv, NoFileNoApps, LoadedRight, CachedSince,
                    CachedRight

LEMMA NextVerdicts == TypeOK /\ VerdictInv /\ [Next]_vars => VerdictInv'
<1> SUFFICES ASSUME TypeOK, VerdictInv, [Next]_vars PROVE VerdictInv'
  OBVIOUS
<1>1. ASSUME NEW port \in Port, KnownPort(port) PROVE VerdictInv'
  BY <1>1, TreatedVerdicts DEF KnownPort, TypeOK, system, ghosts
<1>2. ASSUME NEW port \in Port, LookUp(port) PROVE VerdictInv'
  BY <1>2, VerdictsKept DEF LookUp, system, ghosts
<1>3. CASE StoreFound
  BY <1>3, TreatedVerdicts DEF StoreFound, TypeOK, system, ghosts
<1>4. CASE Inbound
  BY <1>4, LoadOnly DEF Inbound, system, ghosts
<1>5. ASSUME NEW m \in Monitor, MonitorStep(m) PROVE VerdictInv'
  BY <1>5, VerdictsKept
  DEF MonitorStep, MonitorOpens, MonitorFails, MonitorReports, system, ghosts
<1>6. ASSUME NEW md \in Modes, Start(md) PROVE VerdictInv'
  BY <1>6, LoadOnly DEF Start, system
<1>7. CASE Stop
  BY <1>7, VerdictsKept DEF Stop, system, ghosts
<1>8. ASSUME NEW port \in Port, NEW pid \in Pid, Connect(port, pid)
      PROVE  VerdictInv'
  BY <1>8, VerdictsKept DEF Connect
<1>9. ASSUME NEW pid \in Pid, ReusePid(pid) PROVE VerdictInv'
  BY <1>9, VerdictsOutdated DEF ReusePid
<1>10. CASE SelectApps
  BY <1>10, VerdictsOutdated, AttributionAssumption DEF SelectApps
<1>11. CASE Tick
  BY <1>11, TickVerdicts
<1>12. CASE UNCHANGED vars
  BY <1>12, VerdictsKept DEF vars, verdicts
<1> QED
  BY <1>1, <1>2, <1>3, <1>4, <1>5, <1>6, <1>7, <1>8, <1>9, <1>10, <1>11,
     <1>12 DEF Next, Loop

(* Whatever the cache and the list hold.                                   *)
LEMMA CatchUp == TypeOK /\ VerdictInv => VerdictsCatchUp
<1> SUFFICES ASSUME TypeOK, VerdictInv, quiet >= Staleness, NEW pid \in Pid,
                    NEW u \in IsProcessAllowed(pid)
             PROVE  u.allowed = (u.read /\ Selected(pid))
  BY DEF VerdictsCatchUp
<1>1. /\ sinceLoad \in Nat /\ quiet \in Nat /\ Reload \in Nat
      /\ CacheTtl \in Nat /\ Reload <= CacheTtl
  BY AttributionAssumption DEF TypeOK
<1>2. file = NoFile \/ MustLoad \/ LoadedSince
  BY <1>1 DEF MustLoad, LoadedSince, Staleness
<1>3. CASE Cached(pid) = {}
  BY <1>2, <1>3, AppsRight, EvaluatedRight DEF IsProcessAllowed
<1>4. CASE Cached(pid) # {}
  <2> DEFINE v == CHOOSE w \in Cached(pid) : TRUE
  <2>1. v \in Cached(pid)
    BY <1>4
  <2>2. u = v
    BY <1>4 DEF IsProcessAllowed
  <2> HIDE DEF v
  <2>3. v \in ToSet(CacheLoaded) /\ v.pid = pid /\ v.age < CacheTtl
    BY <2>1 DEF Cached
  <2>4. v \in ToSet(pid_cache) /\ v.age \in Nat
    BY <2>3, LoadedTypes, CacheAges
  <2>5. file # NoFile => LoadedSince
    BY <1>2, <2>3 DEF CacheLoaded, ToSet
  <2>6. v.age < quiet
    <3>1. CASE file = NoFile
      BY <1>1, <2>3, <2>4, <3>1 DEF Staleness
    <3>2. CASE file # NoFile
      BY <1>1, <2>4, <2>5, <3>2 DEF VerdictInv, CachedSince, LoadedSince
    <3> QED BY <3>1, <3>2
  <2> QED BY <2>2, <2>3, <2>4, <2>5, <2>6 DEF VerdictInv, CachedRight
<1> QED BY <1>3, <1>4

-----------------------------------------------------------------------------
(* Theorems.                                                               *)

(* Every variable stays within its type; the cache and the queues within   *)
(* their sizes.                                                            *)
THEOREM TypeCorrect == Spec => []TypeOK
  BY TypeAlways

(* A port is mapped to the process that has it, unless a report is still   *)
(* to come, never will, or came while the loop held what it had looked up  *)
(* before: these are all the ways to be wrong.                             *)
THEOREM PortsRight == Spec => []PortsAttributed
<1>1. PortInv => PortsAttributed
  BY DEF PortInv
<1> QED BY <1>1, InitPorts, NextPorts, PTL DEF Spec

(* Verdicts catch up with the list, the mode and the processes, however    *)
(* the engine was restarted and whatever the cache held.                   *)
THEOREM VerdictsRight == Spec => []VerdictsCatchUp
  BY InitVerdicts, NextVerdicts, CatchUp, TypeAlways, PTL DEF Spec
=============================================================================
