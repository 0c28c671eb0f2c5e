--------------------------- MODULE EngineLifecycle ---------------------------
(***************************************************************************)
(* Starting, stopping and restarting the engine: ToggleEngine,             *)
(* RestartEngine, StartEngine, StopEngine and dpi_thread of gui.c, the     *)
(* dashboard callbacks of webview_v2.cc that call them, the end of WinMain,*)
(* and, in hayalet.c, reset_hayalet_state, the reading of the blacklist,   *)
(* the opening of the filters, the exit of the packet loop and deinit_all. *)
(*                                                                         *)
(* Two controllers, the tray's window procedure and the dashboard's        *)
(* thread, share with the engine thread, and without any lock, the         *)
(* variables below.  A step is one access to a shared variable, or several *)
(* when nothing another thread does in between could be told apart.        *)
(***************************************************************************)
EXTENDS Naturals, FiniteSets

CONSTANTS
    Controller,    \* threads that start and stop the engine
    Saver,         \* those of them that save settings: the dashboard
    Thread,        \* engine threads; one is reused when it left no trace
    NoThread, NoHandle,
    NumFilters,    \* WinDivert filters the configured mode opens
    MaxFilters,    \* MAX_FILTERS
    Config,        \* contents settings.ini may have
    Listing,       \* those of them in which the engine reads a blacklist:
                   \* filter mode 1
    Naming,        \* those whose key Blacklist names the dashboard's file
    List,          \* sets of hosts the dashboard's blacklist file may hold
    OtherList,     \* the hosts in the file the others name, by default
                   \* blacklist.txt beside the program
    InitFails,     \* WinDivertOpen may fail
    RecvFails      \* WinDivertRecv may fail on an open handle

ASSUME LifecycleAssumption ==
    /\ NumFilters \in 1..MaxFilters
    /\ MaxFilters \in Nat
    /\ Saver \subseteq Controller
    /\ Controller \cap Thread = {}
    /\ NoThread \notin Thread
    /\ NoHandle \notin Thread \X (1..MaxFilters)
    /\ Listing \subseteq Config
    /\ Naming \subseteq Config
    /\ {InitFails, RecvFails} \subseteq BOOLEAN

VARIABLES
    pc,              \* where each controller and engine thread is
    returnTo,        \* controller -> where it goes when StopEngine returns
    engine_running,  \* the status the interface shows
    hThread,         \* handle of the engine thread
    exiting,         \* stop request, read by the packet loop
    filters,         \* slot -> handle
    filter_num,
    w_filter,        \* the handle the packet loop receives from
    handle,          \* handle -> what WinDivert knows of it
    saved,           \* settings.ini
    loaded,          \* thread -> the settings it read
    saved_list,      \* the dashboard's blacklist file
    blackwhitelist,  \* the hash of listed hosts
    slot,            \* the index each process's deinit_all has got to
    closing          \* processes that closed filters[slot], not yet NULL

vars == <<pc, returnTo, engine_running, hThread, exiting, filters, filter_num,
          w_filter, handle, saved, loaded, saved_list, blackwhitelist, slot,
          closing>>

flags   == <<engine_running, hThread, exiting>>
driver  == <<filters, filter_num, w_filter, handle>>
lists   == <<saved_list, blackwhitelist>>
config  == <<saved, loaded, lists>>
scan    == <<slot, closing>>

Slot    == 1..MaxFilters
Handle  == Thread \X Slot
Process == Controller \cup Thread

ControllerPC == {"idle", "guard", "exit", "shutdown", "wait", "deinit",
                 "clear", "start", "end"}
ThreadPC     == {"none", "config", "announce", "unexit", "reset", "wipe",
                 "lists", "open", "loop", "deinit", "clear", "dead"}

Goto(p, label) == pc' = [pc EXCEPT ![p] = label]
At(p, label)   == pc[p] = label

IsOpen(h) == h # NoHandle /\ handle[h] = "open"

-----------------------------------------------------------------------------
(* deinit_all, for each index: look, close, and clear the slot.  `label`   *)
(* is where it is called, `after` where control goes next.                 *)

DeinitSkip(p, label) ==
    /\ At(p, label)
    /\ p \notin closing
    /\ slot[p] \in Slot
    /\ filters[slot[p]] = NoHandle
    /\ slot' = [slot EXCEPT ![p] = @ + 1]
    /\ UNCHANGED <<pc, returnTo, flags, driver, config, closing>>

(* Slip: the handle is shut down but not closed.                           *)
DeinitShut(p, label) ==
    /\ At(p, label)
    /\ p \notin closing
    /\ slot[p] \in Slot
    /\ filters[slot[p]] # NoHandle
    /\ handle' = [handle EXCEPT ![filters[slot[p]]] = "shut"]
    /\ closing' = closing \cup {p}
    /\ UNCHANGED <<pc, returnTo, flags, filters, filter_num, w_filter,
                   config, slot>>

DeinitClose(p, label) ==
    /\ At(p, label)
    /\ p \notin closing
    /\ slot[p] \in Slot
    /\ filters[slot[p]] # NoHandle
    /\ handle' = [handle EXCEPT ![filters[slot[p]]] =
                      IF @ = "closed" THEN "twice" ELSE "closed"]
    /\ closing' = closing \cup {p}
    /\ UNCHANGED <<pc, returnTo, flags, filters, filter_num, w_filter,
                   config, slot>>

DeinitNull(p) ==
    /\ p \in closing
    /\ filters' = [filters EXCEPT ![slot[p]] = NoHandle]
    /\ slot' = [slot EXCEPT ![p] = @ + 1]
    /\ closing' = closing \ {p}
    /\ UNCHANGED <<pc, returnTo, flags, filter_num, w_filter, handle, config>>

(* Slip: the loop stops one index short.                                   *)
DeinitDoneEarly(p, label, after) ==
    /\ At(p, label)
    /\ p \notin closing
    /\ slot[p] \notin 1..(MaxFilters - 1)
    /\ slot' = [slot EXCEPT ![p] = 1]
    /\ Goto(p, after)
    /\ UNCHANGED <<returnTo, flags, driver, config, closing>>

DeinitDone(p, label, after) ==
    /\ At(p, label)
    /\ slot[p] \notin Slot
    /\ slot' = [slot EXCEPT ![p] = 1]
    /\ Goto(p, after)
    /\ UNCHANGED <<returnTo, flags, driver, config, closing>>

deinit_all(p, label, after) ==
    \/ DeinitSkip(p, label)
    \/ DeinitClose(p, label)
    \/ DeinitDone(p, label, after)

-----------------------------------------------------------------------------
(* Controllers.                                                            *)

(* ToggleEngine looks at engine_running once to choose what to call.       *)
Toggle(c) ==
    /\ At(c, "idle")
    /\ Goto(c, IF engine_running THEN "guard" ELSE "start")
    /\ returnTo' = [returnTo EXCEPT ![c] = "idle"]
    /\ UNCHANGED <<flags, driver, config, scan>>

Restart(c) ==
    /\ At(c, "idle")
    /\ Goto(c, "guard")
    /\ returnTo' = [returnTo EXCEPT ![c] = "start"]
    /\ UNCHANGED <<flags, driver, config, scan>>

(* StartEngine by itself: from WinMain, or from the timer that delays the  *)
(* start of a guest instance, whatever the user did in the meantime.       *)
StartOnTimer(c) ==
    /\ c \notin Saver
    /\ At(c, "idle")
    /\ Goto(c, "start")
    /\ returnTo' = [returnTo EXCEPT ![c] = "idle"]
    /\ UNCHANGED <<flags, driver, config, scan>>

(* Slip: no RestartEngine after the settings are written.                  *)
SaveOnly(c) ==
    /\ c \in Saver
    /\ At(c, "idle")
    /\ \E s \in Config \ {saved} : saved' = s
    /\ UNCHANGED <<pc, returnTo, flags, driver, loaded, lists, scan>>

(* cb_save_config: write the settings, all but the key Blacklist, then     *)
(* RestartEngine.                                                          *)
SaveConfig(c) ==
    /\ c \in Saver
    /\ At(c, "idle")
    /\ \E s \in Config \ {saved} :
          /\ s \in Naming <=> saved \in Naming
          /\ saved' = s
    /\ Goto(c, "guard")
    /\ returnTo' = [returnTo EXCEPT ![c] = "start"]
    /\ UNCHANGED <<flags, driver, loaded, lists, scan>>

(* cb_save_list: write the list, then RestartEngine.                       *)
SaveList(c) ==
    /\ c \in Saver
    /\ At(c, "idle")
    /\ \E l \in List \ {saved_list} : saved_list' = l
    /\ Goto(c, "guard")
    /\ returnTo' = [returnTo EXCEPT ![c] = "start"]
    /\ UNCHANGED <<flags, driver, saved, loaded, blackwhitelist, scan>>

(* IDM_EXIT ends the message loop of WinMain, which then stops the engine. *)
Exit(c) ==
    /\ c \notin Saver
    /\ At(c, "idle")
    /\ Goto(c, "guard")
    /\ returnTo' = [returnTo EXCEPT ![c] = "end"]
    /\ UNCHANGED <<flags, driver, config, scan>>

(* StopEngine does nothing unless the flag is set and a handle is there.   *)
StopGuard(c) ==
    /\ At(c, "guard")
    /\ Goto(c, IF engine_running /\ hThread # NoThread
               THEN "exit" ELSE returnTo[c])
    /\ UNCHANGED <<returnTo, flags, driver, config, scan>>

StopExit(c) ==
    /\ At(c, "exit")
    /\ exiting' = TRUE
    /\ Goto(c, "shutdown")
    /\ UNCHANGED <<returnTo, engine_running, hThread, driver, config, scan>>

(* Slip: the last filter is not shut down.                                 *)
StopShutdownButLast(c) ==
    /\ At(c, "shutdown")
    /\ handle' = [h \in Handle |->
                     IF /\ \E i \in 1..(filter_num - 1) : filters[i] = h
                        /\ handle[h] = "open"
                     THEN "shut" ELSE handle[h]]
    /\ Goto(c, "wait")
    /\ UNCHANGED <<returnTo, flags, filters, filter_num, w_filter, config,
                   scan>>

(* shutdown_hayalet: every handle counted in filter_num.                   *)
StopShutdown(c) ==
    /\ At(c, "shutdown")
    /\ handle' = [h \in Handle |->
                     IF /\ \E i \in 1..filter_num : filters[i] = h
                        /\ handle[h] = "open"
                     THEN "shut" ELSE handle[h]]
    /\ Goto(c, "wait")
    /\ UNCHANGED <<returnTo, flags, filters, filter_num, w_filter, config,
                   scan>>

(* Slip: the thread is not waited for.                                     *)
WaitNot == TRUE

(* WaitForSingleObject(hThread, 5000) ends with the thread, or after five  *)
(* seconds, whatever the thread is doing.  A handle another controller     *)
(* closed is not waited for.                                               *)
WaitOver ==
    \/ hThread \notin Thread
    \/ \E t \in Thread : t = hThread /\ At(t, "dead")

CloseThread(c) ==
    /\ hThread' = NoThread
    /\ Goto(c, "deinit")
    /\ UNCHANGED <<returnTo, engine_running, exiting, driver, config, scan>>

StopWait(c) ==
    /\ At(c, "wait")
    /\ WaitOver
    /\ CloseThread(c)

StopTimesOut(c) ==
    /\ At(c, "wait")
    /\ CloseThread(c)

StopDeinit(c) == deinit_all(c, "deinit", "clear")

StopClear(c) ==
    /\ At(c, "clear")
    /\ engine_running' = FALSE
    /\ Goto(c, returnTo[c])
    /\ UNCHANGED <<returnTo, hThread, exiting, driver, config, scan>>

(* A thread that ended and whose handles are all closed can stand for a    *)
(* new one.                                                                *)
Fresh(t) ==
    /\ pc[t] \in {"none", "dead"}
    /\ t # hThread
    /\ \A i \in Slot : handle[<<t, i>>] \in {"none", "closed"}
    /\ \A i \in Slot : filters[i] # NoHandle => filters[i][1] # t
    /\ w_filter # NoHandle => w_filter[1] # t

StartSkipped(c) ==
    /\ At(c, "start")
    /\ engine_running
    /\ Goto(c, "idle")
    /\ UNCHANGED <<returnTo, flags, driver, config, scan>>

StartCreates(c) ==
    /\ At(c, "start")
    /\ ~engine_running
    /\ \E t \in Thread :
          /\ Fresh(t)
          /\ hThread' = t
          /\ pc' = [pc EXCEPT ![c] = "idle", ![t] = "config"]
          /\ handle' = [h \in Handle |-> IF h[1] = t /\ handle[h] = "closed"
                                         THEN "none" ELSE handle[h]]
    /\ UNCHANGED <<returnTo, engine_running, exiting, filters, filter_num,
                   w_filter, config, scan>>

-----------------------------------------------------------------------------
(* The engine thread.                                                      *)

ReadConfig(t) ==
    /\ At(t, "config")
    /\ loaded' = [loaded EXCEPT ![t] = saved]
    /\ Goto(t, "announce")
    /\ UNCHANGED <<returnTo, flags, driver, saved, lists, scan>>

Announce(t) ==
    /\ At(t, "announce")
    /\ engine_running' = TRUE
    /\ Goto(t, "unexit")
    /\ UNCHANGED <<returnTo, hThread, exiting, driver, config, scan>>

(* reset_hayalet_state: the stop request is withdrawn, the filters closed, *)
(* the engine structure (w_filter in it), the filter table and the hash of *)
(* hosts wiped.                                                            *)
ResetExiting(t) ==
    /\ At(t, "unexit")
    /\ exiting' = FALSE
    /\ Goto(t, "reset")
    /\ UNCHANGED <<returnTo, engine_running, hThread, driver, config, scan>>

ResetDeinit(t) == deinit_all(t, "reset", "wipe")

(* blackwhitelist.c: the hash is emptied; hosts are added to it.           *)
blackwhitelist_clear == blackwhitelist' = {}

blackwhitelist_load_list(hosts) ==
    blackwhitelist' = blackwhitelist \cup hosts

(* Slip: blackwhitelist_clear is not called.                               *)
ResetWithoutClear(t) ==
    /\ At(t, "wipe")
    /\ w_filter' = NoHandle
    /\ filter_num' = 0
    /\ filters' = [i \in Slot |-> NoHandle]
    /\ Goto(t, "lists")
    /\ UNCHANGED <<returnTo, flags, handle, config, scan>>

ResetWipe(t) ==
    /\ At(t, "wipe")
    /\ w_filter' = NoHandle
    /\ filter_num' = 0
    /\ filters' = [i \in Slot |-> NoHandle]
    /\ blackwhitelist_clear
    /\ Goto(t, "lists")
    /\ UNCHANGED <<returnTo, flags, handle, saved, loaded, saved_list, scan>>

(* Hayalet_RunConfig, in filter mode 1, adds the hosts of the file named   *)
(* in settings.ini to the hash; by default that is not the file the        *)
(* dashboard writes.                                                       *)
HostsFor(s) ==
    IF s \notin Listing THEN {}
    ELSE IF s \in Naming THEN saved_list
    ELSE OtherList

LoadLists(t) ==
    /\ At(t, "lists")
    /\ blackwhitelist_load_list(HostsFor(loaded[t]))
    /\ Goto(t, "open")
    /\ UNCHANGED <<returnTo, flags, driver, saved, loaded, saved_list, scan>>

(* The DROP filters, then the active one, which becomes w_filter.  The     *)
(* slot comes from the shared filter_num, set to 0 before the first.       *)
OpenedBy(t) == {i \in Slot : handle[<<t, i>>] # "none"}

NextSlot(t) == IF OpenedBy(t) = {} THEN 1 ELSE filter_num + 1

(* Slip: one filter too many.                                              *)
OpenOneMore(t) ==
    /\ At(t, "open")
    /\ LET n    == Cardinality(OpenedBy(t)) + 1
           i    == NextSlot(t)
           last == filter_num = NumFilters
       IN  /\ filters' = [filters EXCEPT ![i] = <<t, n>>]
           /\ handle' = [handle EXCEPT ![<<t, n>>] = "open"]
           /\ filter_num' = i
           /\ w_filter' = IF last THEN filters[NumFilters] ELSE w_filter
           /\ Goto(t, IF last THEN "loop" ELSE "open")
    /\ UNCHANGED <<returnTo, flags, config, scan>>

OpenFilter(t) ==
    /\ At(t, "open")
    /\ LET n    == Cardinality(OpenedBy(t)) + 1
           i    == NextSlot(t)
           h    == <<t, n>>
           last == n = NumFilters
       IN  /\ filters' = [filters EXCEPT ![i] = h]
           /\ handle' = [handle EXCEPT ![h] = "open"]
           /\ filter_num' = i
           /\ w_filter' = IF last THEN h ELSE w_filter
           /\ Goto(t, IF last THEN "loop" ELSE "open")
    /\ UNCHANGED <<returnTo, flags, config, scan>>

(* init() fails: run_hayalet returns without closing what it opened.       *)
OpenFails(t) ==
    /\ InitFails
    /\ At(t, "open")
    /\ filters' = [filters EXCEPT ![NextSlot(t)] = NoHandle]
    /\ filter_num' = NextSlot(t) - 1
    /\ Goto(t, "clear")
    /\ UNCHANGED <<returnTo, flags, w_filter, handle, config, scan>>

(* The loop ends when it finds exiting set, after a packet, or when        *)
(* WinDivertRecv fails: on a handle that is shut or closed, or on an open  *)
(* one (a packet larger than the buffer, the driver unloaded).             *)
LoopEnds(t) ==
    /\ At(t, "loop")
    /\ exiting \/ ~IsOpen(w_filter) \/ RecvFails
    /\ Goto(t, "deinit")
    /\ UNCHANGED <<returnTo, flags, driver, config, scan>>

LoopDeinit(t) == deinit_all(t, "deinit", "clear")

(* Slip: dpi_thread leaves engine_running set.                             *)
ThreadLeaves(t) ==
    /\ At(t, "clear")
    /\ Goto(t, "dead")
    /\ UNCHANGED <<returnTo, flags, driver, config, scan>>

ThreadClear(t) ==
    /\ At(t, "clear")
    /\ engine_running' = FALSE
    /\ Goto(t, "dead")
    /\ UNCHANGED <<returnTo, hThread, exiting, driver, config, scan>>

-----------------------------------------------------------------------------
(* A process of the program as it starts: static data is zero, and no      *)
(* handle of the driver is its own.                                        *)
IdleAll  == [p \in Process |-> IF p \in Controller THEN "idle" ELSE "none"]
ReturnNone  == [c \in Controller |-> "idle"]
Empty    == [i \in Slot |-> NoHandle]
Unopened == [h \in Handle |-> "none"]
FirstAll == [p \in Process |-> 1]

Init ==
    /\ pc = IdleAll
    /\ returnTo = ReturnNone
    /\ engine_running = FALSE
    /\ hThread = NoThread
    /\ exiting = FALSE
    /\ filters = Empty
    /\ filter_num = 0
    /\ w_filter = NoHandle
    /\ handle = Unopened
    /\ saved \in Config
    /\ loaded = [t \in Thread |-> saved]
    /\ saved_list \in List
    /\ blackwhitelist = {}
    /\ slot = FirstAll
    /\ closing = {}

(* WinMain returns: the process ends with all its threads, the system      *)
(* closes its handles, and a new one may be started.                       *)
ProcessEnds(c) ==
    /\ At(c, "end")
    /\ pc' = IdleAll
    /\ returnTo' = ReturnNone
    /\ engine_running' = FALSE
    /\ hThread' = NoThread
    /\ exiting' = FALSE
    /\ filters' = Empty
    /\ filter_num' = 0
    /\ w_filter' = NoHandle
    /\ handle' = Unopened
    /\ loaded' = [t \in Thread |-> saved]
    /\ blackwhitelist' = {}
    /\ slot' = FirstAll
    /\ closing' = {}
    /\ UNCHANGED <<saved, saved_list>>

StopSteps(c) ==
    \/ StopGuard(c)
    \/ StopExit(c)
    \/ StopShutdown(c)
    \/ StopWait(c)
    \/ StopDeinit(c)
    \/ StopClear(c)

Engine(t) ==
    \/ ReadConfig(t)
    \/ Announce(t)
    \/ ResetExiting(t)
    \/ ResetDeinit(t)
    \/ ResetWipe(t)
    \/ LoadLists(t)
    \/ OpenFilter(t)
    \/ OpenFails(t)
    \/ LoopEnds(t)
    \/ LoopDeinit(t)
    \/ ThreadClear(t)

Act(c) ==
    \/ Toggle(c)
    \/ Restart(c)
    \/ StartOnTimer(c)
    \/ SaveConfig(c)
    \/ SaveList(c)
    \/ Exit(c)

(* What goes on without anybody acting and before any timeout.             *)
Proceed ==
    \/ \E c \in Controller :
          \/ StopSteps(c)
          \/ StartSkipped(c)
          \/ StartCreates(c)
          \/ ProcessEnds(c)
    \/ \E t \in Thread : Engine(t)
    \/ \E p \in Process : DeinitNull(p)

Next ==
    \/ \E c \in Controller : Act(c) \/ StopTimesOut(c)
    \/ Proceed

Spec == Init /\ [][Next]_vars

(* Nothing in the code serialises the tray and the dashboard, keeps them   *)
(* from acting during a start, or bounds the time the engine thread takes  *)
(* to end.  Next allows all of that; the properties below hold when it does*)
(* not happen, which PacedSpec assumes of the user and of the machine:     *)
(* nobody acts while another controller does or a thread is between its    *)
(* creation and its packet loop, and no wait times out.                    *)
Starting(t) == pc[t] \in {"config", "announce", "unexit", "reset", "wipe",
                         "lists", "open"}

Unhurried ==
    /\ \A t \in Thread : ~Starting(t)
    /\ \A c \in Controller : At(c, "idle")

PacedNext ==
    \/ \E c \in Controller : Unhurried /\ Act(c)
    \/ Proceed

PacedSpec == Init /\ [][PacedNext]_vars

(* A thread that can take a step eventually does; nobody has to act, no    *)
(* call has to fail, and a loop blocked in WinDivertRecv on an open handle *)
(* waits for a packet that need not come.                                  *)
Fairness ==
    /\ \A c \in Controller :
          WF_vars(\/ StopSteps(c) \/ StartSkipped(c) \/ StartCreates(c)
                  \/ ProcessEnds(c))
    /\ \A t \in Thread :
          WF_vars(\/ ReadConfig(t) \/ Announce(t) \/ ResetExiting(t)
                  \/ ResetDeinit(t) \/ ResetWipe(t) \/ LoadLists(t)
                  \/ OpenFilter(t)
                  \/ (LoopEnds(t) /\ ~IsOpen(w_filter))
                  \/ LoopDeinit(t) \/ ThreadClear(t))
    /\ \A p \in Process : WF_vars(DeinitNull(p))

FairPacedSpec == PacedSpec /\ Fairness

-----------------------------------------------------------------------------
(* Properties.                                                             *)

TypeOK ==
    /\ pc \in [Process -> ControllerPC \cup ThreadPC]
    /\ returnTo \in [Controller -> {"idle", "start", "end"}]
    /\ engine_running \in BOOLEAN
    /\ hThread \in Thread \cup {NoThread}
    /\ exiting \in BOOLEAN
    /\ filters \in [Slot -> Handle \cup {NoHandle}]
    /\ filter_num \in 0..MaxFilters
    /\ w_filter \in Handle \cup {NoHandle}
    /\ handle \in [Handle -> {"none", "open", "shut", "closed", "twice"}]
    /\ saved \in Config
    /\ loaded \in [Thread -> Config]
    /\ saved_list \in List
    /\ blackwhitelist \subseteq (UNION List) \cup OtherList
    /\ slot \in [Process -> 1..(MaxFilters + 1)]
    /\ closing \subseteq Process

Alive(t) == pc[t] \notin {"none", "dead"}

Settled == \A t \in Thread : pc[t] \in {"none", "loop", "dead"}

AtRest == Settled /\ \A c \in Controller : At(c, "idle")

(* No WinDivert handle is closed twice, although the engine thread and     *)
(* StopEngine both run deinit_all.                                         *)
NoDoubleClose == \A h \in Handle : handle[h] # "twice"

(* A handle that is not closed is still in the table, where deinit_all     *)
(* finds it: reset_hayalet_state wipes the table without looking.          *)
NoLeak ==
    \A h \in Handle :
        handle[h] \in {"open", "shut"} => \E i \in Slot : filters[i] = h

(* When the engine is not running and nobody is acting on it, the driver   *)
(* holds no filter: no packet is diverted to a process that does not read  *)
(* it, or dropped for it.                                                  *)
ReleasedAtRest ==
    AtRest /\ ~(\E t \in Thread : At(t, "loop"))
        => \A h \in Handle : handle[h] \notin {"open", "shut"}

(* The same of every engine that got as far as its packet loop: however it *)
(* ended, nothing of it is left in the driver.                             *)
ReleasedAfterRun ==
    AtRest =>
        \A t \in Thread :
            ~At(t, "loop") /\ Cardinality(OpenedBy(t)) = NumFilters
                => \A i \in OpenedBy(t) : handle[<<t, i>>] = "closed"

(* The status shown agrees with the engine once things have settled.       *)
StatusTruthful ==
    AtRest => engine_running = \E t \in Thread : At(t, "loop")

(* The engine, once settled, runs with the settings saved last and with    *)
(* the hosts of the file those name, no host of an earlier list among them:*)
(* paced, a save reaches the engine through its restart, whatever the      *)
(* engine was doing.                                                       *)
SavedTakesEffect ==
    AtRest =>
        \A t \in Thread :
            At(t, "loop") => loaded[t] = saved /\ blackwhitelist = HostsFor(saved)

(* In filter mode 1 it is the list the user edits that is in force: the    *)
(* hosts saved in the dashboard get the treatment, and no others.          *)
SavedListInForce ==
    AtRest =>
        \A t \in Thread :
            At(t, "loop") /\ loaded[t] \in Listing
                => blackwhitelist = saved_list

(* The thread that StopEngine waits for is on its way out, or, if it is    *)
(* still in its packet loop, has both reasons to leave it: exiting is set, *)
(* and no WinDivertRecv blocks on a handle that shutdown_hayalet missed.   *)
StopHeeded ==
    \A c \in Controller, t \in Thread :
        At(c, "wait") /\ t = hThread =>
            /\ pc[t] \in {"loop", "deinit", "clear", "dead"}
            /\ At(t, "loop") => exiting /\ ~IsOpen(w_filter)

(* A StopEngine call returns without its five-second timeout: the thread   *)
(* it waits for has been given a reason to leave WinDivertRecv.            *)
StopReturns ==
    \A c \in Controller : At(c, "wait") ~> pc[c] \in {"start", "idle", "end"}

-----------------------------------------------------------------------------
(* The switch this implements: what is in force are the settings and the   *)
(* hosts of a thread that has reached the packet loop.                     *)
InLoop == {t \in Thread : At(t, "loop")}

InForce ==
    IF InLoop = {} THEN NoThread
    ELSE <<loaded[CHOOSE t \in InLoop : TRUE], blackwhitelist>>

Switch == INSTANCE EngineSwitch WITH
    Setting <- Config \X SUBSET ((UNION List) \cup OtherList),
    Off     <- NoThread,
    saved   <- <<saved, HostsFor(saved)>>,
    inForce <- InForce

(* Every paced behaviour of the lifecycle is one of the switch: the engine *)
(* comes on with what was saved last and the hosts of the file it names,   *)
(* from off only, and what StopEngine and dpi_thread do in between is not  *)
(* seen.                                                                   *)
ImplementsSwitch == Switch!Spec
=============================================================================
