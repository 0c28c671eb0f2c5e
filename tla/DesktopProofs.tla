---------------------------- MODULE DesktopProofs ----------------------------
(***************************************************************************)
(* Proofs about Desktop, for any number of instances and launch threads.   *)
(* Only the instance that made the mutex can be elevated and past the      *)
(* guard, since only an instance without rights passes it while the mutex  *)
(* exists.                                                                 *)
(***************************************************************************)
EXTENDS Desktop, TLAPS

(* An elevated instance past the guard: it owns the engine.                *)
Owner(i) == i \in admin /\ (At(i, "first") \/ i \in tray)

(* A tray window belongs to an instance that serves or leaves.             *)
TrayPlaced ==
    \A i \in Instance :
        /\ At(i, "serving") => i \in tray
        /\ i \in tray => pc[i] \in {"serving", "leaving"}

(* Launch threads belong to instances with a tray window.                  *)
LaunchersPlaced ==
    \A i \in Instance : \A k \in Launcher :
        launcher[i][k] # "none" => i \in tray

OwnersHold == \A i \in Instance : Owner(i) => i \in mutex

OwnerUnique == \A i, j \in Instance : Owner(i) /\ Owner(j) => i = j

Inv == TypeOK /\ TrayPlaced /\ LaunchersPlaced /\ OwnersHold /\ OwnerUnique

LEMMA InitInv == Init => Inv
<1> SUFFICES ASSUME Init PROVE Inv
  OBVIOUS
<1>1. 0 \in 0..MaxPosted
  BY DesktopAssumption
<1>2. posted \in [Instance -> 0..MaxPosted]
  BY <1>1 DEF Init
<1>3. launcher \in [Instance -> [Launcher -> LauncherPC]]
  BY DEF Init, LauncherPC
<1>4. TypeOK
  BY <1>2, <1>3 DEF Init, TypeOK
<1>5. TrayPlaced /\ LaunchersPlaced
  BY DEF Init, TrayPlaced, LaunchersPlaced, At
<1>6. OwnersHold /\ OwnerUnique
  BY DEF Init, OwnersHold, OwnerUnique, Owner
<1> QED BY <1>4, <1>5, <1>6 DEF Inv

-----------------------------------------------------------------------------
(* Instances.                                                              *)

LEMMA LaunchInv ==
    ASSUME Inv, NEW i \in Instance, NEW e \in BOOLEAN, NEW g \in BOOLEAN,
           Launch(i, e, g)
    PROVE  Inv'
BY DEF Launch, Inv, TypeOK, TrayPlaced, LaunchersPlaced, OwnersHold,
       OwnerUnique, Owner, At, guards, desk, dashboard

LEMMA RelaunchInv ==
    ASSUME Inv, NEW i \in Instance, pc[i] \in {"start", "serving"},
           RelaunchElevated(i), UNCHANGED <<guards, tray, posted, dashboard>>,
           guest_delay' \subseteq guest_delay
    PROVE  Inv'
<1> USE DEF Inv, TypeOK, TrayPlaced, guards, dashboard
<1>1. pc' \in [Instance -> {"none", "start", "first", "found", "serving",
                            "leaving"}]
  BY DEF RelaunchElevated
<1>2. admin' \subseteq Instance /\ guest' = guest
  BY DEF RelaunchElevated, rights
<1>3. TypeOK'
  BY <1>1, <1>2
<1>4. \A m \in tray : pc'[m] = pc[m] \/ pc'[m] = "leaving"
  BY DEF RelaunchElevated, At
<1>5. \A m \in Instance : At(m, "serving")' => At(m, "serving")
  BY DEF RelaunchElevated, At
<1>6. TrayPlaced'
  BY <1>4, <1>5, <1>1 DEF At
<1>7. LaunchersPlaced'
  BY DEF LaunchersPlaced
<1>8. \A m \in Instance : Owner(m)' => Owner(m)
  <2> SUFFICES ASSUME NEW m \in Instance, Owner(m)' PROVE Owner(m)
    OBVIOUS
  <2>1. m \in tray \/ At(m, "first")
    BY DEF Owner, RelaunchElevated, At
  <2>2. ~At(m, "none")
    BY <2>1 DEF At
  <2>3. m \in admin
    BY <2>2 DEF Owner, RelaunchElevated, rights
  <2> QED BY <2>1, <2>3 DEF Owner
<1>9. OwnersHold' /\ OwnerUnique'
  BY <1>8 DEF OwnersHold, OwnerUnique
<1> QED BY <1>3, <1>6, <1>7, <1>9

LEMMA GuardInv ==
    ASSUME Inv, NEW i \in Instance, Guard(i)
    PROVE  Inv'
<1> USE DEF Inv, TypeOK, TrayPlaced, rights, desk, dashboard
<1>1. /\ pc' \in [Instance -> {"none", "start", "first", "found", "serving",
                               "leaving"}]
      /\ \A m \in Instance \ {i} : pc'[m] = pc[m]
      /\ pc'[i] \in {"first", "found"} /\ i \notin tray
  BY DEF Guard, At
<1>2. mutex' \subseteq Instance /\ mutex \subseteq mutex'
  BY DEF Guard
<1>0. made_elevated' \in BOOLEAN
  <2>1. CASE mutex = {}
    <3>1. made_elevated' = (i \in admin)
      BY <2>1 DEF Guard
    <3>2. (i \in admin) \in BOOLEAN
      OBVIOUS
    <3> HIDE DEF Inv, TypeOK, TrayPlaced
    <3> QED BY <3>1, <3>2, Zenon
  <2>2. CASE mutex # {}
    BY <2>2 DEF Guard
  <2> QED BY <2>1, <2>2
<1>3. TypeOK'
  BY <1>0, <1>1, <1>2 DEF Guard
<1>4. TrayPlaced' /\ LaunchersPlaced'
  BY <1>1 DEF Guard, LaunchersPlaced, At
<1>5. \A m \in Instance \ {i} : Owner(m)' => Owner(m)
  BY <1>1 DEF Guard, Owner, At
<1>6. Owner(i)' => mutex = {} /\ i \in mutex'
  BY <1>1 DEF Guard, Owner, At
<1>7. OwnersHold'
  BY <1>2, <1>5, <1>6 DEF OwnersHold
<1>8. OwnerUnique'
  BY <1>5, <1>6 DEF OwnersHold, OwnerUnique
<1> QED BY <1>3, <1>4, <1>7, <1>8

LEMMA AskInv ==
    ASSUME Inv, NEW i \in Instance, AskOther(i)
    PROVE  Inv'
BY DesktopAssumption
DEF AskOther, Inv, TypeOK, TrayPlaced, LaunchersPlaced, OwnersHold,
    OwnerUnique, Owner, At, rights, guards, dashboard

LEMMA TrayInv ==
    ASSUME Inv, NEW i \in Instance, CreateTray(i)
    PROVE  Inv'
BY DEF CreateTray, Inv, TypeOK, TrayPlaced, LaunchersPlaced, OwnersHold,
       OwnerUnique, Owner, At, rights, guards, dashboard

LEMMA EndsInv ==
    ASSUME Inv, NEW i \in Instance, Ends(i)
    PROVE  Inv'
BY DesktopAssumption
DEF Ends, Inv, TypeOK, TrayPlaced, LaunchersPlaced, OwnersHold,
    OwnerUnique, Owner, At, LauncherPC

-----------------------------------------------------------------------------
(* The dashboard: nothing about owners changes.                            *)

LEMMA ShowInv ==
    ASSUME Inv, NEW i \in Instance, ShowDashboard(i),
           posted' \in [Instance -> 0..MaxPosted],
           UNCHANGED <<pc, rights, guards, tray, guest_delay, g_v2Open>>
    PROVE  Inv'
<1> USE DEF Inv, TypeOK, TrayPlaced, rights, guards
<1>1. i \in tray
  BY DEF ShowDashboard, At
<1>2. /\ launcher' \in [Instance -> [Launcher -> LauncherPC]]
      /\ \A m \in Instance \ {i} : launcher'[m] = launcher[m]
  BY DEF ShowDashboard, LauncherPC
<1>3. TypeOK'
  BY <1>2
<1>4. TrayPlaced' /\ LaunchersPlaced'
  BY <1>1, <1>2 DEF LaunchersPlaced, At
<1>5. OwnersHold' /\ OwnerUnique'
  BY DEF OwnersHold, OwnerUnique, Owner, At
<1> QED BY <1>3, <1>4, <1>5

LEMMA MoveInv ==
    ASSUME Inv, NEW i \in Instance, NEW k \in Launcher,
           NEW from \in LauncherPC, NEW to \in LauncherPC, from # "none",
           Move(i, k, from, to), g_v2Open' \subseteq g_v2Open \cup {i},
           UNCHANGED <<pc, rights, guards, desk>>
    PROVE  Inv'
<1>1. i \in tray
  BY DEF Move, Inv, LaunchersPlaced
<1> QED
  BY <1>1 DEF Move, Inv, TypeOK, TrayPlaced, LaunchersPlaced, OwnersHold,
              OwnerUnique, Owner, At, rights, guards, desk, LauncherPC

-----------------------------------------------------------------------------
LEMMA NextInv == Inv /\ [Next]_vars => Inv'
<1> SUFFICES ASSUME Inv, [Next]_vars PROVE Inv'
  OBVIOUS
<1>0. CASE UNCHANGED vars
  BY <1>0 DEF vars, Inv, TypeOK, TrayPlaced, LaunchersPlaced, OwnersHold,
              OwnerUnique, Owner, At
<1>1. CASE Next
  <2> PICK i \in Instance :
        \/ \E e, g \in BOOLEAN : Launch(i, e, g)
        \/ Proceeds(i)
        \/ GuestDelayOver(i)
        \/ UserStarts(i)
        \/ Exit(i)
        \/ UserAsks(i)
        \/ HandlePosted(i)
        \/ \E k \in Launcher : LaunchStep(i, k) \/ UserCloses(i, k)
    BY <1>1 DEF Next
  <2>1. CASE \E e, g \in BOOLEAN : Launch(i, e, g)
    BY <2>1, LaunchInv
  <2>2. CASE Elevate(i)
    BY <2>2, RelaunchInv DEF Elevate, At, desk
  <2>3. CASE Guard(i) \/ AskOther(i) \/ CreateTray(i) \/ Ends(i)
    BY <2>3, GuardInv, AskInv, TrayInv, EndsInv
  <2>4. CASE GuestDelayOver(i)
    <3>1. CASE i \in admin
      BY <2>4, <3>1
      DEF GuestDelayOver, StartEngine, Inv, TypeOK, TrayPlaced, LaunchersPlaced,
          OwnersHold, OwnerUnique, Owner, At, rights, guards, dashboard
    <3>2. CASE i \notin admin
      BY <2>4, <3>2, RelaunchInv DEF GuestDelayOver, StartEngine, At
    <3> QED BY <3>1, <3>2
  <2>5. CASE UserStarts(i)
    BY <2>5, RelaunchInv DEF UserStarts, StartEngine, At, desk
  <2>6. CASE Exit(i)
    BY <2>6 DEF Exit, Inv, TypeOK, TrayPlaced, LaunchersPlaced, OwnersHold,
                OwnerUnique, Owner, At, rights, guards, desk, dashboard
  <2>7. CASE UserAsks(i)
    BY <2>7, ShowInv DEF UserAsks, desk, Inv, TypeOK
  <2>8. CASE HandlePosted(i)
    <3>1. posted' \in [Instance -> 0..MaxPosted]
      BY <2>8, DesktopAssumption DEF HandlePosted, Inv, TypeOK
    <3> QED BY <2>8, <3>1, ShowInv DEF HandlePosted
  <2>9. CASE \E k \in Launcher : LaunchStep(i, k) \/ UserCloses(i, k)
    <3> PICK k \in Launcher : LaunchStep(i, k) \/ UserCloses(i, k)
      BY <2>9
    <3> QED
      BY MoveInv DEF LaunchStep, TestFlag, SetFlag, Opens, ClearFlag,
                     UserCloses, LauncherPC
  <2> QED
    BY <2>1, <2>2, <2>3, <2>4, <2>5, <2>6, <2>7, <2>8, <2>9 DEF Proceeds
<1> QED BY <1>0, <1>1

LEMMA Invariance == Spec => []Inv
BY InitInv, NextInv, PTL DEF Spec

(* Every variable stays within its type.                                   *)
THEOREM TypeCorrect == Spec => []TypeOK
<1>1. Inv => TypeOK
  BY DEF Inv
<1> QED BY <1>1, Invariance, PTL

(* No two elevated instances have a tray window: the guard of WinMain, the *)
(* relaunch and the guest timer never lead to two engines.                 *)
THEOREM EngineOwnerUnique == Spec => []OneEngineOwner
<1>1. Inv => OneEngineOwner
  BY DEF Inv, TypeOK, OwnerUnique, Owner, OneEngineOwner
<1> QED BY <1>1, Invariance, PTL

-----------------------------------------------------------------------------
(* The flag is never left behind.                                          *)

LEMMA NextMeant ==
    ASSUME Inv, FlagMeant, [Next]_vars
    PROVE  FlagMeant'
<1> USE DEF FlagMeant, Showing
<1>1. ASSUME UNCHANGED dashboard PROVE FlagMeant'
  BY <1>1 DEF dashboard
<1>2. ASSUME NEW i \in Instance, Ends(i) PROVE FlagMeant'
  <2>1. \A m \in Instance \ {i} : launcher'[m] = launcher[m]
    BY <1>2 DEF Ends, Inv, TypeOK
  <2> QED BY <1>2, <2>1 DEF Ends, Inv, TypeOK
<1>3. ASSUME NEW i \in Instance, ShowDashboard(i), UNCHANGED g_v2Open
      PROVE  FlagMeant'
  <2>1. CASE i \in g_v2Open
    BY <1>3, <2>1 DEF ShowDashboard
  <2>2. CASE i \notin g_v2Open
    <3>1. \A m \in Instance \ {i} : launcher'[m] = launcher[m]
      BY <1>3, <2>2 DEF ShowDashboard, Inv, TypeOK
    <3> QED BY <1>3, <2>2, <3>1 DEF Inv, TypeOK
  <2> QED BY <2>1, <2>2
<1>4. ASSUME NEW i \in Instance, NEW k \in Launcher, NEW from, NEW to,
             Move(i, k, from, to),
             \/ /\ to \in {"opening", "open", "closed"}
                /\ g_v2Open' \subseteq g_v2Open \cup {i}
             \/ from \in {"created", "passed"} /\ UNCHANGED g_v2Open
             \/ g_v2Open' = g_v2Open \ {i}
      PROVE  FlagMeant'
  <2>1. /\ launcher[i][k] = from /\ launcher'[i][k] = to
        /\ \A l \in Launcher \ {k} : launcher'[i][l] = launcher[i][l]
        /\ \A m \in Instance \ {i} : launcher'[m] = launcher[m]
    BY <1>4 DEF Move, Inv, TypeOK
  <2>2. \A m \in Instance \ {i} : Showing(m)' = Showing(m)
    BY <2>1
  <2>3. i \in g_v2Open' => Showing(i)' # {}
    BY <1>4, <2>1
  <2>4. \A m \in g_v2Open' \ {i} : m \in g_v2Open /\ m \in Instance
    BY <1>4 DEF Inv, TypeOK
  <2> HIDE DEF Showing
  <2> QED BY <2>2, <2>3, <2>4
<1>5. ASSUME NEW i \in Instance, NEW k \in Launcher,
             LaunchStep(i, k) \/ UserCloses(i, k)
      PROVE  FlagMeant'
  BY <1>4, <1>5 DEF LaunchStep, TestFlag, SetFlag, Opens, ClearFlag, UserCloses
<1>6. CASE UNCHANGED vars
  BY <1>1, <1>6 DEF vars, dashboard
<1>7. ASSUME NEW i \in Instance,
             \/ \E e, g \in BOOLEAN : Launch(i, e, g)
             \/ Elevate(i) \/ Guard(i) \/ AskOther(i) \/ CreateTray(i)
             \/ GuestDelayOver(i) \/ UserStarts(i) \/ Exit(i)
      PROVE  FlagMeant'
  BY <1>1, <1>7 DEF Launch, Elevate, Guard, AskOther, CreateTray,
                    GuestDelayOver, UserStarts, Exit
<1>8. ASSUME NEW i \in Instance, UserAsks(i) \/ HandlePosted(i)
      PROVE  FlagMeant'
  BY <1>3, <1>8 DEF UserAsks, HandlePosted
<1> QED BY <1>2, <1>5, <1>6, <1>7, <1>8 DEF Next, Proceeds

(* However many launch threads run at once, a dashboard flag that is set   *)
(* has one that will clear it: a stale flag never locks the dashboard out. *)
(* The converse is false: a dashboard that closes clears the flag of one   *)
(* that is still shown.                                                    *)
THEOREM FlagTruthful == Spec => []FlagMeant
<1>1. Init => FlagMeant
  BY DEF Init, FlagMeant
<1>2. Inv /\ FlagMeant /\ [Next]_vars => FlagMeant'
  BY NextMeant
<1> QED BY <1>1, <1>2, Invariance, PTL DEF Spec
=============================================================================
