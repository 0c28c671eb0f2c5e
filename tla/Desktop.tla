------------------------------- MODULE Desktop -------------------------------
(***************************************************************************)
(* The program as the desktop sees it: WinMain's guard against a second    *)
(* instance, the relaunch with administrator's rights, the tray window and *)
(* the dashboard it opens (gui.c, V2Thread of webview_v2.cc).              *)
(*                                                                         *)
(* Instances are processes of the program; each may have a tray window     *)
(* and launch threads, of which one at a time should show a dashboard.     *)
(* Windows itself is modelled from how it is used: a mutex exists while    *)
(* some process has a handle to it, a process without administrator's      *)
(* rights cannot open one that an elevated process made, and handles,      *)
(* windows and threads go when their process ends.                         *)
(***************************************************************************)
EXTENDS Naturals, FiniteSets

CONSTANTS
    Instance,      \* processes; one that ended may be started again
    Launcher,      \* launch threads an instance may have at once
    MaxPosted,     \* bound: messages waiting for a tray window
    MaxLaunched,   \* bound: instances there are when the user launches one
    MaxAsked       \* bound: launch threads there are when the user asks

ASSUME DesktopAssumption ==
    MaxPosted \in Nat \ {0} /\ MaxLaunched \in Nat /\ MaxAsked \in Nat

VARIABLES
    pc,            \* where WinMain of each instance is
    admin,         \* instances with administrator's rights
    guest,         \* instances started with --guest
    mutex,         \* instances that have a handle to the mutex
    made_elevated, \* an elevated instance made it
    tray,          \* instances whose tray window exists
    posted,        \* instance -> IDM_DASHBOARD messages not handled yet
    guest_delay,   \* instances whose guest timer is set
    launcher,      \* instance -> launch thread -> where it is
    g_v2Open       \* instances whose dashboard flag is set

vars == <<pc, admin, guest, mutex, made_elevated, tray, posted, guest_delay,
          launcher, g_v2Open>>

rights    == <<admin, guest>>
guards    == <<mutex, made_elevated>>
desk      == <<tray, posted, guest_delay>>
dashboard == <<launcher, g_v2Open>>

LauncherPC == {"none", "created", "passed", "opening", "open", "closed"}

At(i, label) == pc[i] = label

(* A process of the instance exists.                                       *)
Exists(i) == ~At(i, "none")

-----------------------------------------------------------------------------
(* WinMain.                                                                *)

Launch(i, elevated, asGuest) ==
    /\ At(i, "none")
    /\ Cardinality({j \in Instance : Exists(j)}) < MaxLaunched
    /\ pc' = [pc EXCEPT ![i] = "start"]
    /\ admin' = IF elevated THEN admin \cup {i} ELSE admin
    /\ guest' = IF asGuest THEN guest \cup {i} ELSE guest
    /\ UNCHANGED <<guards, desk, dashboard>>

(* ShellExecute "runas", then exit: if the user consents, another process  *)
(* starts, elevated and without arguments.                                 *)
RelaunchElevated(i) ==
    \/ /\ \E j \in Instance :
              /\ At(j, "none")
              /\ pc' = [pc EXCEPT ![i] = "leaving", ![j] = "start"]
              /\ admin' = admin \cup {j}
       /\ UNCHANGED guest
    \/ /\ pc' = [pc EXCEPT ![i] = "leaving"]
       /\ UNCHANGED rights

Elevate(i) ==
    /\ At(i, "start")
    /\ i \notin guest \cup admin
    /\ RelaunchElevated(i)
    /\ UNCHANGED <<guards, desk, dashboard>>

(* Slip: the guard looks for a tray window instead of the mutex.           *)
GuardByWindow(i) ==
    /\ At(i, "start")
    /\ i \in guest \cup admin
    /\ mutex' = mutex \cup {i}
    /\ made_elevated' = IF mutex = {} THEN i \in admin ELSE made_elevated
    /\ pc' = [pc EXCEPT ![i] = IF tray = {} THEN "first" ELSE "found"]
    /\ UNCHANGED <<rights, desk, dashboard>>

(* CreateMutex makes the mutex, or opens it, or is denied; only when it    *)
(* opened it the instance gives up.                                        *)
Guard(i) ==
    /\ At(i, "start")
    /\ i \in guest \cup admin
    /\ LET denied == mutex # {} /\ made_elevated /\ i \notin admin
       IN  /\ mutex' = IF denied THEN mutex ELSE mutex \cup {i}
           /\ made_elevated' = IF mutex = {} THEN i \in admin
                                             ELSE made_elevated
           /\ pc' = [pc EXCEPT ![i] = IF mutex = {} \/ denied THEN "first"
                                                              ELSE "found"]
    /\ UNCHANGED <<rights, desk, dashboard>>

(* Slip: the request is posted to every instance.                          *)
AskEverybody(i) ==
    /\ At(i, "found")
    /\ posted' = [j \in Instance |-> posted[j] + 1]
    /\ pc' = [pc EXCEPT ![i] = "leaving"]
    /\ UNCHANGED <<rights, guards, tray, guest_delay, dashboard>>

(* It asks the instance it found to show its dashboard.                    *)
AskOther(i) ==
    /\ At(i, "found")
    /\ \/ tray = {} /\ UNCHANGED posted
       \/ \E j \in tray :
             /\ posted[j] < MaxPosted
             /\ posted' = [posted EXCEPT ![j] = @ + 1]
    /\ pc' = [pc EXCEPT ![i] = "leaving"]
    /\ UNCHANGED <<rights, guards, tray, guest_delay, dashboard>>

(* CreateWindowEx, then the message loop; a guest starts its engine later. *)
CreateTray(i) ==
    /\ At(i, "first")
    /\ tray' = tray \cup {i}
    /\ guest_delay' = IF i \in guest THEN guest_delay \cup {i} ELSE guest_delay
    /\ pc' = [pc EXCEPT ![i] = "serving"]
    /\ UNCHANGED <<rights, guards, posted, dashboard>>

(* StartEngine of an instance without rights, by the timer or by the user. *)
StartEngine(i) ==
    IF i \in admin THEN UNCHANGED <<pc, rights>> ELSE RelaunchElevated(i)

GuestDelayOver(i) ==
    /\ At(i, "serving")
    /\ i \in guest_delay
    /\ guest_delay' = guest_delay \ {i}
    /\ StartEngine(i)
    /\ UNCHANGED <<guards, tray, posted, dashboard>>

UserStarts(i) ==
    /\ At(i, "serving")
    /\ i \notin admin
    /\ StartEngine(i)
    /\ UNCHANGED <<guards, desk, dashboard>>

(* IDM_EXIT: the message loop ends; the window is there to the end.        *)
Exit(i) ==
    /\ At(i, "serving")
    /\ pc' = [pc EXCEPT ![i] = "leaving"]
    /\ UNCHANGED <<rights, guards, desk, dashboard>>

Ends(i) ==
    /\ At(i, "leaving")
    /\ pc' = [pc EXCEPT ![i] = "none"]
    /\ admin' = admin \ {i}
    /\ guest' = guest \ {i}
    /\ mutex' = mutex \ {i}
    /\ made_elevated' = (made_elevated /\ mutex # {i})
    /\ tray' = tray \ {i}
    /\ posted' = [posted EXCEPT ![i] = 0]
    /\ guest_delay' = guest_delay \ {i}
    /\ launcher' = [launcher EXCEPT ![i] = [k \in Launcher |-> "none"]]
    /\ g_v2Open' = g_v2Open \ {i}

-----------------------------------------------------------------------------
(* The dashboard.                                                          *)

(* IDM_DASHBOARD: a launch thread, unless the flag is set.  Then the code  *)
(* looks for a window by a title no window of the program has, and no      *)
(* dashboard comes to the front.                                           *)
ShowDashboard(i) ==
    /\ At(i, "serving")
    /\ IF i \in g_v2Open
       THEN UNCHANGED launcher
       ELSE \E k \in Launcher :
                /\ launcher[i][k] = "none"
                /\ launcher' = [launcher EXCEPT ![i][k] = "created"]

Launched ==
    {t \in Instance \X Launcher : launcher[t[1]][t[2]] # "none"}

(* The tray's menu and double click.                                       *)
UserAsks(i) ==
    /\ Cardinality(Launched) < MaxAsked
    /\ ShowDashboard(i)
    /\ UNCHANGED <<pc, rights, guards, desk, g_v2Open>>

HandlePosted(i) ==
    /\ posted[i] > 0
    /\ posted' = [posted EXCEPT ![i] = @ - 1]
    /\ ShowDashboard(i)
    /\ UNCHANGED <<pc, rights, guards, tray, guest_delay, g_v2Open>>

Move(i, k, from, to) ==
    /\ Exists(i)
    /\ launcher[i][k] = from
    /\ launcher' = [launcher EXCEPT ![i][k] = to]

(* V2LaunchThread looks at the flag, then sets it.                         *)
TestFlag(i, k) ==
    /\ Move(i, k, "created", IF i \in g_v2Open THEN "none" ELSE "passed")
    /\ UNCHANGED <<pc, rights, guards, desk, g_v2Open>>

SetFlag(i, k) ==
    /\ Move(i, k, "passed", "opening")
    /\ g_v2Open' = g_v2Open \cup {i}
    /\ UNCHANGED <<pc, rights, guards, desk>>

(* Slip: a thread whose window cannot be made returns at once.             *)
OpensOrReturns(i, k) ==
    /\ \/ Move(i, k, "opening", "open")
       \/ Move(i, k, "opening", "none")
    /\ UNCHANGED <<pc, rights, guards, desk, g_v2Open>>

(* webview_create succeeds, or fails and says so.                          *)
Opens(i, k) ==
    /\ \/ Move(i, k, "opening", "open")
       \/ Move(i, k, "opening", "closed")
    /\ UNCHANGED <<pc, rights, guards, desk, g_v2Open>>

UserCloses(i, k) ==
    /\ Move(i, k, "open", "closed")
    /\ UNCHANGED <<pc, rights, guards, desk, g_v2Open>>

(* Slip: the thread leaves the flag set.                                   *)
LeaveFlag(i, k) ==
    /\ Move(i, k, "closed", "none")
    /\ UNCHANGED <<pc, rights, guards, desk, g_v2Open>>

ClearFlag(i, k) ==
    /\ Move(i, k, "closed", "none")
    /\ g_v2Open' = g_v2Open \ {i}
    /\ UNCHANGED <<pc, rights, guards, desk>>

-----------------------------------------------------------------------------
Init ==
    /\ pc = [i \in Instance |-> "none"]
    /\ admin = {}
    /\ guest = {}
    /\ mutex = {}
    /\ made_elevated = FALSE
    /\ tray = {}
    /\ posted = [i \in Instance |-> 0]
    /\ guest_delay = {}
    /\ launcher = [i \in Instance |-> [k \in Launcher |-> "none"]]
    /\ g_v2Open = {}

(* What a process does by itself.                                          *)
Proceeds(i) ==
    Elevate(i) \/ Guard(i) \/ AskOther(i) \/ CreateTray(i) \/ Ends(i)

LaunchStep(i, k) ==
    TestFlag(i, k) \/ SetFlag(i, k) \/ Opens(i, k) \/ ClearFlag(i, k)

Next ==
    \E i \in Instance :
        \/ \E elevated, asGuest \in BOOLEAN : Launch(i, elevated, asGuest)
        \/ Proceeds(i)
        \/ GuestDelayOver(i)
        \/ UserStarts(i)
        \/ Exit(i)
        \/ UserAsks(i)
        \/ HandlePosted(i)
        \/ \E k \in Launcher : LaunchStep(i, k) \/ UserCloses(i, k)

Spec == Init /\ [][Next]_vars

(* An instance that serves handles its messages, and its threads go on; a  *)
(* user need not do anything.                                              *)
Fairness ==
    \A i \in Instance :
        /\ WF_vars(HandlePosted(i))
        /\ \A k \in Launcher : WF_vars(LaunchStep(i, k))

FairSpec == Spec /\ Fairness

-----------------------------------------------------------------------------
(* Properties.                                                             *)

TypeOK ==
    /\ pc \in [Instance -> {"none", "start", "first", "found", "serving",
                            "leaving"}]
    /\ admin \subseteq Instance
    /\ guest \subseteq Instance
    /\ mutex \subseteq Instance
    /\ made_elevated \in BOOLEAN
    /\ tray \subseteq Instance
    /\ posted \in [Instance -> 0..MaxPosted]
    /\ guest_delay \subseteq tray
    /\ launcher \in [Instance -> [Launcher -> LauncherPC]]
    /\ g_v2Open \subseteq tray

(* However instances are launched, relaunched and ended, no two elevated   *)
(* ones have a tray window, so that no two engines divert packets; a guest *)
(* that may not open an elevated instance's mutex does pass the guard      *)
(* beside it, but its StartEngine only relaunches it.                      *)
OneEngineOwner ==
    \A i, j \in tray \cap admin : i = j

Showing(i) ==
    {k \in Launcher : launcher[i][k] \in {"opening", "open", "closed"}}

(* An instance shows one dashboard at a time, as its documentation says    *)
(* its singleton guard ensures; the flag is tested by the window procedure *)
(* and by the launch threads, and set by them later.                       *)
OneDashboard ==
    \A i \in Instance : \A k, l \in Showing(i) : k = l

(* A flag that is set has a launch thread that will clear it, also when    *)
(* there are two of them, when the window cannot be made, and when the     *)
(* instance ends: no flag left behind locks the dashboard out.             *)
FlagMeant == \A i \in g_v2Open : Showing(i) # {}

(* A second launch's request is answered: a dashboard is shown, or was     *)
(* being closed, or the user is told that it cannot be, unless the         *)
(* instance leaves first.                                                  *)
RequestShown ==
    \A i \in Instance :
        posted[i] > 0 ~>
           \/ \E k \in Launcher : launcher[i][k] \in {"open", "closed"}
           \/ ~At(i, "serving")
=============================================================================
