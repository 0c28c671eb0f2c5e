---------------------------- MODULE PidAttribution ---------------------------
(***************************************************************************)
(* Whose packet is it, and is that program selected?  hayalet.c answers    *)
(* with a map from local ports to process ids, filled by flow monitor      *)
(* threads and, where they missed a port, by a lookup in the system's      *)
(* table of sockets; then with a list of programs, read again every few    *)
(* seconds, and a cache of verdicts.                                       *)
(*                                                                         *)
(* Nothing is ever removed from the map, the list and the cache outlive    *)
(* restarts and changes of mode, and every start in select-apps mode       *)
(* creates one more monitor thread.  A packet is taken to be handled while *)
(* the process that sent it still owns the port.                           *)
(***************************************************************************)
EXTENDS Naturals, Sequences, FiniteSets, SequencesExt

CONSTANTS
    Port,          \* local ports, of one protocol
    Pid, NoPid,    \* process ids; NoPid is 0
    Program,       \* names of programs
    Games,         \* those listed in the code for gaming mode
    Lists, NoFile, \* contents allowedapps.txt may have; there may be no file
    Modes,         \* filter modes settings.ini may choose
    Monitor,       \* flow monitor threads that may exist at once
    Reload,        \* 2: seconds between two readings of the file
    CacheTtl,      \* 60: seconds a verdict is kept
    CacheSize,     \* PID_CACHE_SIZE
    MaxEvents      \* bound: events waiting in a monitor's handle

ASSUME AttributionAssumption ==
    /\ NoPid \notin Pid
    /\ Games \subseteq Program
    /\ NoFile \notin Lists
    /\ \A l \in Lists : l \subseteq Program
    /\ Modes \subseteq 0..3
    /\ Reload \in Nat \ {0} /\ CacheTtl \in Nat /\ Reload <= CacheTtl
    /\ CacheSize \in Nat \ {0}
    /\ MaxEvents \in Nat

VARIABLES
    owner,         \* port -> the process that has it, says the system
    image,         \* pid -> the program it runs
    port_map,      \* tcp_port_map, udp_port_map
    monitor,       \* flow monitor threads
    events,        \* monitor -> events it has not received yet
    lookup,        \* what GetPidFromPort found and is not stored yet
    exiting,       \* stop request
    mode,          \* active_filter_mode
    file,          \* allowedapps.txt
    filter_apps,   \* the programs read from it
    sinceLoad,     \* age of last_apps_load_time
    pid_cache,     \* verdicts, the newest last
    missed,        \* ports whose last flow no monitor will report
    raced,         \* ports whose last report a lookup under way contradicts
    quiet          \* seconds since something verdicts depend on changed

vars == <<owner, image, port_map, monitor, events, lookup, exiting, mode, file,
          filter_apps, sinceLoad, pid_cache, missed, raced, quiet>>

system   == <<owner, image, file>>
monitors == <<monitor, events>>
verdicts == <<filter_apps, sinceLoad, pid_cache>>
ghosts   == <<missed, raced, quiet>>

Flow    == [port : Port, pid : Pid]
Verdict == [pid : Pid, allowed : BOOLEAN, read : BOOLEAN, age : 0..CacheTtl]
Nothing == {}          \* no lookup is under way

Older(n, bound) == IF n < bound THEN n + 1 ELSE n

Listening == {m \in Monitor : monitor[m] = "listening"}

(* Some monitor will still report a flow of the port.                      *)
Pending(port) ==
    \E m \in Listening : \E i \in DOMAIN events[m] : events[m][i].port = port

-----------------------------------------------------------------------------
(* LoadFilterApps, and what the list and the cache are after it.           *)

MustLoad == sinceLoad >= Reload \/ filter_apps = {}

AppsLoaded ==
    IF ~MustLoad THEN filter_apps ELSE IF file = NoFile THEN {} ELSE file

(* Slip: the cache is not cleared when the list is read again.             *)
CacheKept == pid_cache

CacheLoaded == IF MustLoad /\ file # NoFile THEN <<>> ELSE pid_cache

LoadFilterApps ==
    /\ filter_apps' = AppsLoaded
    /\ sinceLoad' = IF MustLoad THEN 0 ELSE sinceLoad
    /\ pid_cache' = CacheLoaded

(* IsProcessAllowed, called after LoadFilterApps.                          *)
Cached(pid) ==
    {v \in ToSet(CacheLoaded) : v.pid = pid /\ v.age < CacheTtl}

IsListed(pid) ==
    IF mode = 3 THEN image[pid] \in Games ELSE image[pid] \in AppsLoaded

(* What is evaluated: the process may not be opened, or its image not be   *)
(* read, and it is refused then.                                           *)
Evaluated(pid) ==
    { [pid |-> pid, allowed |-> IsListed(pid), read |-> TRUE, age |-> 0],
      [pid |-> pid, allowed |-> FALSE, read |-> FALSE, age |-> 0] }

(* The verdicts that may be given.                                         *)
IsProcessAllowed(pid) ==
    IF Cached(pid) # {} THEN {CHOOSE v \in Cached(pid) : TRUE}
                        ELSE Evaluated(pid)

(* Slip: the position in the cache is not taken modulo its size.           *)
Grown(cache, v) == Append(cache, v)

Remembered(cache, v) ==
    Append(IF Len(cache) < CacheSize THEN cache ELSE Tail(cache), v)

(* What the two leave behind when a packet of a process is judged.         *)
Judged(pid) ==
    /\ filter_apps' = AppsLoaded
    /\ sinceLoad' = IF MustLoad THEN 0 ELSE sinceLoad
    /\ IF Cached(pid) # {}
       THEN pid_cache' = CacheLoaded
       ELSE \E v \in Evaluated(pid) : pid_cache' = Remembered(CacheLoaded, v)

(* Select-apps mode judges every packet of a known process, gaming mode    *)
(* those of requests whose host does not already decide.                   *)
Treated(pid) ==
    \/ (pid # NoPid /\ Judged(pid))
    \/ (pid = NoPid \/ mode = 3) /\ LoadFilterApps

-----------------------------------------------------------------------------
(* The packet loop, in modes 2 and 3.                                      *)

Receiving == ~exiting /\ lookup = Nothing /\ mode \in {2, 3}

(* An outbound packet of a port that is in the map.                        *)
KnownPort(port) ==
    /\ Receiving
    /\ port_map[port] # NoPid
    /\ Treated(port_map[port])
    /\ UNCHANGED <<system, port_map, monitors, lookup, exiting, mode, ghosts>>

(* One that is not: GetPidFromPort finds the owner, or, of a socket that   *)
(* is not in the IPv4 table, nothing.                                      *)
LookUp(port) ==
    /\ Receiving
    /\ port_map[port] = NoPid
    /\ \E pid \in {owner[port], NoPid} :
           lookup' = {[port |-> port, pid |-> pid]}
    /\ UNCHANGED <<system, port_map, monitors, exiting, mode, verdicts, ghosts>>

StoreFound ==
    \E found \in lookup :
        /\ port_map' = [port_map EXCEPT ![found.port] = found.pid]
        /\ Treated(found.pid)
        /\ lookup' = Nothing
        /\ UNCHANGED <<system, monitors, exiting, mode, ghosts>>

(* An inbound packet has no process; it is counted as one all the same.    *)
Inbound ==
    /\ Receiving
    /\ LoadFilterApps
    /\ UNCHANGED <<system, port_map, monitors, lookup, exiting, mode, ghosts>>

-----------------------------------------------------------------------------
(* Flow monitor threads.                                                   *)

MonitorOpens(m) ==
    /\ monitor[m] = "opening"
    /\ monitor' = [monitor EXCEPT
                      ![m] = IF exiting THEN "none" ELSE "listening"]
    /\ UNCHANGED <<system, port_map, events, lookup, exiting, mode, verdicts,
                   ghosts>>

MonitorFails(m) ==
    /\ monitor[m] = "opening"
    /\ monitor' = [monitor EXCEPT ![m] = "none"]
    /\ UNCHANGED <<system, port_map, events, lookup, exiting, mode, verdicts,
                   ghosts>>

(* Slip: only ports that are not in the map are stored.                    *)
FirstFlow(e) ==
    IF port_map[e.port] = NoPid THEN [port_map EXCEPT ![e.port] = e.pid]
                                ELSE port_map

Reported(e) == [port_map EXCEPT ![e.port] = e.pid]

(* The loop has looked the port up and found who had it before.            *)
FoundOther(e) ==
    \E found \in lookup : found.port = e.port /\ found.pid \notin {e.pid, NoPid}

(* WinDivertRecv returns with an event; the stop request is looked at only *)
(* then.                                                                   *)
MonitorReports(m) ==
    /\ monitor[m] = "listening"
    /\ events[m] # <<>>
    /\ port_map' = Reported(Head(events[m]))
    /\ raced' = IF FoundOther(Head(events[m]))
                THEN raced \cup {Head(events[m]).port}
                ELSE raced \ {Head(events[m]).port}
    /\ IF exiting
       THEN /\ monitor' = [monitor EXCEPT ![m] = "none"]
            /\ events' = [events EXCEPT ![m] = <<>>]
            /\ missed' = missed \cup {e.port : e \in ToSet(Tail(events[m]))}
       ELSE /\ events' = [events EXCEPT ![m] = Tail(@)]
            /\ UNCHANGED <<monitor, missed>>
    /\ UNCHANGED <<system, lookup, exiting, mode, verdicts, quiet>>

-----------------------------------------------------------------------------
(* The engine.                                                             *)

(* Hayalet_RunConfig and the start of run_hayalet; the loop has ended.     *)
Start(md) ==
    /\ exiting
    /\ lookup = Nothing
    /\ exiting' = FALSE
    /\ mode' = md
    /\ LoadFilterApps
    /\ IF md = 2
       THEN \E m \in Monitor :
                /\ monitor[m] = "none"
                /\ monitor' = [monitor EXCEPT ![m] = "opening"]
       ELSE UNCHANGED monitor
    /\ quiet' = IF md = mode THEN quiet ELSE 0
    /\ UNCHANGED <<system, port_map, events, lookup, missed, raced>>

Stop ==
    /\ ~exiting
    /\ exiting' = TRUE
    /\ UNCHANGED <<system, port_map, monitors, lookup, mode, verdicts, ghosts>>

-----------------------------------------------------------------------------
(* The system.                                                             *)

(* A process establishes a flow from a port it has, or takes over from the *)
(* one that had it.                                                        *)
Connect(port, pid) ==
    /\ \A m \in Listening : Len(events[m]) < MaxEvents
    /\ owner' = [owner EXCEPT ![port] = pid]
    /\ events' = [m \in Monitor |->
                     IF m \in Listening
                     THEN Append(events[m], [port |-> port, pid |-> pid])
                     ELSE events[m]]
    /\ missed' = IF Listening = {} THEN missed \cup {port} ELSE missed \ {port}
    /\ UNCHANGED <<image, file, port_map, monitor, lookup, exiting, mode,
                   verdicts, raced, quiet>>

(* A process ends, and its id is given to one that runs another program.   *)
ReusePid(pid) ==
    /\ \A port \in Port : owner[port] # pid
    /\ \E p \in Program \ {image[pid]} : image' = [image EXCEPT ![pid] = p]
    /\ quiet' = 0
    /\ UNCHANGED <<owner, file, port_map, monitors, lookup, exiting, mode,
                   verdicts, missed, raced>>

SelectApps ==
    /\ \E l \in Lists \ {file} : file' = l
    /\ quiet' = 0
    /\ UNCHANGED <<owner, image, port_map, monitors, lookup, exiting, mode,
                   verdicts, missed, raced>>

Tick ==
    /\ sinceLoad' = Older(sinceLoad, Reload)
    /\ pid_cache' = [i \in DOMAIN pid_cache |->
                        [pid_cache[i] EXCEPT !.age = Older(@, CacheTtl)]]
    /\ quiet' = Older(quiet, CacheTtl)
    /\ UNCHANGED <<system, port_map, monitors, lookup, exiting, mode,
                   filter_apps, missed, raced>>

-----------------------------------------------------------------------------
(* The program before its first start; last_apps_load_time is long ago.    *)
Init ==
    /\ owner \in [Port -> Pid]
    /\ image \in [Pid -> Program]
    /\ port_map = [port \in Port |-> NoPid]
    /\ monitor = [m \in Monitor |-> "none"]
    /\ events = [m \in Monitor |-> <<>>]
    /\ lookup = Nothing
    /\ exiting = TRUE
    /\ mode = 0
    /\ file \in Lists \cup {NoFile}
    /\ filter_apps = {}
    /\ sinceLoad = Reload
    /\ pid_cache = <<>>
    /\ missed = Port
    /\ raced = {}
    /\ quiet = 0

Loop ==
    \/ \E port \in Port : KnownPort(port) \/ LookUp(port)
    \/ StoreFound
    \/ Inbound

MonitorStep(m) == MonitorOpens(m) \/ MonitorFails(m) \/ MonitorReports(m)

Next ==
    \/ Loop
    \/ \E m \in Monitor : MonitorStep(m)
    \/ \E md \in Modes : Start(md)
    \/ Stop
    \/ \E port \in Port, pid \in Pid : Connect(port, pid)
    \/ \E pid \in Pid : ReusePid(pid)
    \/ SelectApps
    \/ Tick

Spec == Init /\ [][Next]_vars

-----------------------------------------------------------------------------
(* Properties.                                                             *)

TypeOK ==
    /\ owner \in [Port -> Pid]
    /\ image \in [Pid -> Program]
    /\ port_map \in [Port -> Pid \cup {NoPid}]
    /\ monitor \in [Monitor -> {"none", "opening", "listening"}]
    /\ events \in [Monitor -> Seq(Flow)]
    /\ \A m \in Monitor : Len(events[m]) <= MaxEvents
    /\ lookup \subseteq [port : Port, pid : Pid \cup {NoPid}]
    /\ exiting \in BOOLEAN
    /\ mode \in Modes \cup {0}
    /\ file \in Lists \cup {NoFile}
    /\ filter_apps \subseteq Program
    /\ sinceLoad \in 0..Reload
    /\ pid_cache \in Seq(Verdict) /\ Len(pid_cache) <= CacheSize
    /\ missed \subseteq Port /\ raced \subseteq Port
    /\ quiet \in 0..CacheTtl

(* The process a port is mapped to is the one that has it, although the    *)
(* map is never emptied and ports change hands: unless a monitor is about  *)
(* to correct it; or the last flow of the port was established while no    *)
(* monitor listened, or one left before it reported it; or the report came *)
(* after the loop had looked the port up and before it stored the owner of *)
(* then, which may replace what the monitor stored.                        *)
PortsAttributed ==
    \A port \in Port \ (missed \cup raced) :
        port_map[port] = NoPid
        \/ port_map[port] = owner[port] \/ Pending(port)

(* What the code should say of a process in the mode it runs in.           *)
Selected(pid) ==
    IF mode = 3 THEN image[pid] \in Games
                ELSE file # NoFile /\ image[pid] \in file

(* How long an outdated verdict may be given: without a file the cache is  *)
(* never cleared.                                                          *)
Staleness == IF file = NoFile THEN CacheTtl ELSE Reload

(* When nothing a verdict depends on has changed for that long, whatever   *)
(* the cache and the list hold, the next verdict on any process is right:  *)
(* also when its id was another program's, or the mode was another.  A     *)
(* process whose image could not be read when it was evaluated is refused, *)
(* and no other one is.                                                    *)
VerdictsCatchUp ==
    Receiving /\ quiet >= Staleness =>
        \A pid \in Pid : \A v \in IsProcessAllowed(pid) :
            v.allowed = (v.read /\ Selected(pid))
=============================================================================
