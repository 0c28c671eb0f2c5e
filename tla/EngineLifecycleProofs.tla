------------------------ MODULE EngineLifecycleProofs ------------------------
(***************************************************************************)
(* Proofs about the paced lifecycle, PacedSpec: nobody acts while another  *)
(* controller does or a thread is starting, and no wait times out.  The    *)
(* code enforces neither, and what is proved here fails without them; what *)
(* remains free is when the engine fails or ends by itself, against        *)
(* whatever a controller is doing.  Any number of controllers, threads,    *)
(* filters and settings.                                                   *)
(*                                                                         *)
(* The invariant has three layers.  Control says which threads can be      *)
(* where at the same time; Driver, what that makes of the filter table and *)
(* the handles; Settings, of what the engine has read.                     *)
(***************************************************************************)
EXTENDS EngineLifecycle, FiniteSetTheorems, TLAPS

-----------------------------------------------------------------------------
(* Control.                                                                *)

Acting(c) == pc[c] # "idle"

Announced(t) == pc[t] \in {"unexit", "reset", "wipe", "lists", "open", "loop",
                           "deinit", "clear"}

ControlTypes ==
    /\ pc \in [Process -> ControllerPC \cup ThreadPC]
    /\ \A c \in Controller : pc[c] \in ControllerPC
    /\ \A t \in Thread : pc[t] \in ThreadPC
    /\ returnTo \in [Controller -> {"idle", "start", "end"}]
    /\ engine_running \in BOOLEAN
    /\ hThread \in Thread \cup {NoThread}

(* No second engine thread beside one that is alive.                       *)
OneEngine == \A t, u \in Thread : Alive(t) /\ Alive(u) => t = u

OneActs == \A c, d \in Controller : Acting(c) /\ Acting(d) => c = d

StartsAlone == \A t \in Thread : Starting(t) => \A c \in Controller : ~Acting(c)

(* An engine thread that is alive is the one StopEngine will wait for.     *)
HandleKept == \A t \in Thread : Alive(t) => hThread = t

(* The status flag is set for as long as a thread that announced itself is *)
(* alive.                                                                  *)
StatusExact ==
    /\ engine_running => \E t \in Thread : Announced(t)
    /\ \A t \in Thread : Announced(t) => engine_running

StopsWait ==
    \A c \in Controller :
        pc[c] \in {"exit", "shutdown", "wait"} => hThread \in Thread

(* Past the wait, StopEngine is alone with the filters.                    *)
StoppedFirst ==
    \A c \in Controller :
        pc[c] \in {"deinit", "clear", "end"} => \A t \in Thread : ~Alive(t)

Control ==
    /\ ControlTypes
    /\ OneActs
    /\ StartsAlone
    /\ HandleKept
    /\ StatusExact
    /\ StopsWait
    /\ StoppedFirst

Moves(p, label) ==
    /\ pc' \in [Process -> ControllerPC \cup ThreadPC]
    /\ pc'[p] = label
    /\ \A q \in Process \ {p} : pc'[q] = pc[q]

LEMMA GotoMoves ==
    ASSUME ControlTypes, NEW p \in Process,
           NEW label \in ControllerPC \cup ThreadPC, Goto(p, label)
    PROVE  Moves(p, label)
BY DEF Goto, ControlTypes, Moves

LEMMA Apart ==
    /\ \A c \in Controller : c \in Process /\ c \notin Thread
    /\ \A t \in Thread : t \in Process /\ t \notin Controller
BY LifecycleAssumption DEF Process

LEMMA ControlStutters ==
    ASSUME Control, UNCHANGED <<pc, returnTo, engine_running, hThread>>
    PROVE  Control'
BY DEF Control, ControlTypes, OneActs, StartsAlone, HandleKept, StatusExact,
       StopsWait, StoppedFirst, Acting, Announced, Alive, Starting, At

(* A controller begins.                                                    *)
LEMMA ActControl ==
    ASSUME Control, Unhurried, NEW c \in Controller,
           NEW label \in {"guard", "start"}, Goto(c, label),
           NEW r \in {"idle", "start", "end"},
           returnTo' = [returnTo EXCEPT ![c] = r],
           UNCHANGED <<engine_running, hThread>>
    PROVE  Control'
<1>1. Moves(c, label)
  BY GotoMoves, Apart DEF Control, ControllerPC
<1>2. /\ \A t \in Thread : pc'[t] = pc[t]
      /\ \A d \in Controller \ {c} : pc'[d] = "idle"
      /\ \A t \in Thread : ~Starting(t)
  BY <1>1, Apart DEF Moves, Unhurried, At
<1>3. ControlTypes'
  BY <1>1, <1>2 DEF Control, ControlTypes, Moves, ControllerPC
<1>4. OneActs' /\ StartsAlone' /\ HandleKept' /\ StatusExact'
  BY <1>1, <1>2 DEF Control, OneActs, StartsAlone, HandleKept, StatusExact,
                    Moves, Acting, Announced, Alive, Starting
<1>5. StopsWait' /\ StoppedFirst'
  BY <1>1, <1>2 DEF StopsWait, StoppedFirst, Moves
<1> QED BY <1>3, <1>4, <1>5 DEF Control

(* A controller goes on, and no thread does.                               *)
LEMMA ContinueControl ==
    ASSUME Control, NEW c \in Controller, Acting(c), NEW label \in ControllerPC,
           Goto(c, label), UNCHANGED <<returnTo, engine_running>>,
           hThread' = hThread \/ (hThread' = NoThread /\ \A t \in Thread : ~Alive(t)),
           label \in {"exit", "shutdown", "wait"} => hThread' \in Thread,
           label \in {"deinit", "clear", "end"} => \A t \in Thread : ~Alive(t)
    PROVE  Control'
<1>1. Moves(c, label)
  BY GotoMoves, Apart DEF Control
<1>2. /\ \A t \in Thread : pc'[t] = pc[t]
      /\ \A d \in Controller \ {c} : pc'[d] = "idle"
      /\ \A t \in Thread : ~Starting(t)
  BY <1>1, Apart DEF Control, OneActs, StartsAlone, Moves, Acting, ControlTypes
<1>3. ControlTypes'
  BY <1>1, <1>2 DEF Control, ControlTypes, Moves, ControllerPC
<1>4. OneActs' /\ StartsAlone' /\ HandleKept' /\ StatusExact'
  BY <1>1, <1>2 DEF Control, OneActs, StartsAlone, HandleKept, StatusExact,
                    Moves, Acting, Announced, Alive, Starting
<1>5. StopsWait' /\ StoppedFirst'
  BY <1>1, <1>2 DEF StopsWait, StoppedFirst, Moves, Alive
<1> QED BY <1>3, <1>4, <1>5 DEF Control

LEMMA NoneAlive ==
    ASSUME Control, NEW c \in Controller, Acting(c),
           ~engine_running \/ hThread = NoThread
    PROVE  \A t \in Thread : ~Alive(t)
<1> SUFFICES ASSUME NEW t \in Thread, Alive(t) PROVE FALSE
  OBVIOUS
<1>1. hThread = t /\ t # NoThread
  BY LifecycleAssumption DEF Control, HandleKept
<1>2. ~Starting(t)
  BY DEF Control, StartsAlone
<1>3. Announced(t)
  BY <1>2 DEF Control, ControlTypes, ThreadPC, Starting, Announced, Alive
<1> QED BY <1>1, <1>3 DEF Control, StatusExact

LEMMA GuardControl ==
    ASSUME Control, NEW c \in Controller, StopGuard(c)
    PROVE  Control'
<1>0. Acting(c) /\ returnTo[c] \in {"idle", "start", "end"}
  BY DEF StopGuard, At, Acting, Control, ControlTypes
<1>1. CASE engine_running /\ hThread # NoThread
  <2>1. hThread \in Thread
    BY <1>1 DEF Control, ControlTypes
  <2> QED BY <1>0, <1>1, <2>1, ContinueControl DEF StopGuard, ControllerPC, flags
<1>2. CASE ~(engine_running /\ hThread # NoThread)
  <2>1. \A t \in Thread : ~Alive(t)
    BY <1>0, <1>2, NoneAlive DEF Control, ControlTypes
  <2> QED BY <1>0, <1>2, <2>1, ContinueControl DEF StopGuard, ControllerPC, flags
<1> QED BY <1>1, <1>2

LEMMA WaitControl ==
    ASSUME Control, NEW c \in Controller, StopWait(c)
    PROVE  Control' /\ \A t \in Thread : ~Alive(t)
<1>1. hThread \in Thread /\ At(hThread, "dead")
  BY DEF StopWait, WaitOver, At, Control, StopsWait
<1>2. \A t \in Thread : ~Alive(t)
  BY <1>1 DEF Control, HandleKept, Alive, At
<1> QED BY <1>2, ContinueControl DEF StopWait, CloseThread, ControllerPC, At, Acting

LEMMA ClearControl ==
    ASSUME Control, NEW c \in Controller, StopClear(c)
    PROVE  Control'
<1>0. Acting(c) /\ returnTo[c] \in {"idle", "start", "end"}
  BY DEF StopClear, At, Acting, Control, ControlTypes
<1>1. \A t \in Thread : ~Alive(t) /\ ~Announced(t)
  BY DEF StopClear, Control, StoppedFirst, At, Alive, Announced
<1>2. ~engine_running
  BY <1>1 DEF Control, StatusExact
<1>3. engine_running' = engine_running
  BY <1>2 DEF StopClear, Control, ControlTypes
<1> QED BY <1>0, <1>1, <1>3, ContinueControl DEF StopClear, ControllerPC

LEMMA CreateControl ==
    ASSUME Control, NEW c \in Controller, StartCreates(c)
    PROVE  Control'
<1> PICK t \in Thread :
        /\ Fresh(t)
        /\ hThread' = t
        /\ pc' = [pc EXCEPT ![c] = "idle", ![t] = "config"]
  BY DEF StartCreates
<1>0. Acting(c) /\ ~engine_running
  BY DEF StartCreates, At, Acting
<1>1. \A u \in Thread : ~Alive(u) /\ ~Announced(u)
  BY <1>0, NoneAlive DEF Alive, Announced
<1>2. /\ pc' \in [Process -> ControllerPC \cup ThreadPC]
      /\ pc'[c] = "idle" /\ pc'[t] = "config"
      /\ \A q \in Process \ {c, t} : pc'[q] = pc[q]
  BY Apart DEF Control, ControlTypes, ControllerPC, ThreadPC
<1>3. \A d \in Controller : pc'[d] = "idle"
  BY <1>0, <1>2, Apart DEF Control, OneActs, Acting
<1>4. \A u \in Thread \ {t} : pc'[u] = pc[u]
  BY <1>2, Apart
<1>5. engine_running' = engine_running /\ returnTo' = returnTo
  BY DEF StartCreates
<1>6. ControlTypes'
  BY <1>2, <1>3, <1>4, <1>5 DEF Control, ControlTypes, ControllerPC, ThreadPC
<1>7. OneActs' /\ StartsAlone' /\ StopsWait' /\ StoppedFirst'
  BY <1>3 DEF OneActs, StartsAlone, StopsWait, StoppedFirst, Acting
<1>8. HandleKept' /\ StatusExact'
  BY <1>0, <1>1, <1>2, <1>4, <1>5
  DEF HandleKept, StatusExact, Alive, Announced
<1> QED BY <1>6, <1>7, <1>8 DEF Control

(* An engine thread that announced itself goes on.                         *)
LEMMA RunControl ==
    ASSUME Control, NEW t \in Thread, Announced(t),
           NEW label \in {"reset", "wipe", "lists", "open", "loop", "deinit",
                          "clear"},
           Goto(t, label), Starting(t)' => Starting(t),
           UNCHANGED <<returnTo, engine_running, hThread>>
    PROVE  Control'
<1>1. Moves(t, label)
  BY GotoMoves, Apart DEF Control, ThreadPC
<1>2. /\ \A c \in Controller : pc'[c] = pc[c]
      /\ \A u \in Thread \ {t} : pc'[u] = pc[u]
      /\ pc'[t] = label
  BY <1>1, Apart DEF Moves
<1>3. Alive(t) /\ Alive(t)' /\ Announced(t)'
  BY <1>2 DEF Alive, Announced
<1>4. ControlTypes'
  BY <1>1, <1>2 DEF Control, ControlTypes, Moves, ThreadPC
<1>5. OneActs' /\ StopsWait'
  BY <1>2 DEF Control, OneActs, StopsWait, Acting
<1>6. StartsAlone'
  BY <1>2 DEF Control, StartsAlone, Starting, Acting
<1>7. HandleKept' /\ StoppedFirst'
  BY <1>2, <1>3 DEF Control, HandleKept, StoppedFirst, Alive
<1>8. StatusExact'
  BY <1>2, <1>3 DEF Control, StatusExact, Announced
<1> QED BY <1>4, <1>5, <1>6, <1>7, <1>8 DEF Control

LEMMA ReadControl ==
    ASSUME Control, NEW t \in Thread, ReadConfig(t)
    PROVE  Control'
<1>1. Moves(t, "announce")
  BY GotoMoves, Apart DEF Control, ThreadPC, ReadConfig
<1>2. /\ \A c \in Controller : pc'[c] = pc[c]
      /\ \A u \in Thread \ {t} : pc'[u] = pc[u]
      /\ pc'[t] = "announce" /\ pc[t] = "config"
      /\ UNCHANGED <<returnTo, engine_running, hThread>>
  BY <1>1, Apart DEF Moves, ReadConfig, At, flags
<1>3. ControlTypes'
  BY <1>1, <1>2 DEF Control, ControlTypes, Moves, ThreadPC
<1>4. OneActs' /\ StopsWait' /\ StartsAlone'
  BY <1>2 DEF Control, OneActs, StopsWait, StartsAlone, Starting, Acting
<1>5. HandleKept' /\ StoppedFirst'
  BY <1>2 DEF Control, HandleKept, StoppedFirst, Alive
<1>6. StatusExact'
  BY <1>2 DEF Control, StatusExact, Announced
<1> QED BY <1>3, <1>4, <1>5, <1>6 DEF Control

LEMMA AnnounceControl ==
    ASSUME Control, NEW t \in Thread, Announce(t)
    PROVE  Control'
<1>1. Moves(t, "unexit")
  BY GotoMoves, Apart DEF Control, ThreadPC, Announce
<1>2. /\ \A c \in Controller : pc'[c] = pc[c]
      /\ \A u \in Thread \ {t} : pc'[u] = pc[u]
      /\ pc'[t] = "unexit" /\ pc[t] = "announce"
      /\ UNCHANGED <<returnTo, hThread>>
      /\ engine_running' = TRUE
  BY <1>1, Apart DEF Moves, Announce, At
<1>3. ControlTypes'
  BY <1>1, <1>2 DEF Control, ControlTypes, Moves, ThreadPC
<1>4. OneActs' /\ StopsWait' /\ StartsAlone'
  BY <1>2 DEF Control, OneActs, StopsWait, StartsAlone, Starting, Acting
<1>5. HandleKept' /\ StoppedFirst'
  BY <1>2 DEF Control, HandleKept, StoppedFirst, Alive
<1>6. StatusExact'
  BY <1>2 DEF StatusExact, Announced
<1> QED BY <1>3, <1>4, <1>5, <1>6 DEF Control

LEMMA DeadControl ==
    ASSUME Control, NEW t \in Thread, ThreadClear(t)
    PROVE  Control'
<1>1. Moves(t, "dead")
  BY GotoMoves, Apart DEF Control, ThreadPC, ThreadClear
<1>2. /\ \A c \in Controller : pc'[c] = pc[c]
      /\ \A u \in Thread \ {t} : pc'[u] = pc[u]
      /\ pc'[t] = "dead" /\ pc[t] = "clear"
      /\ UNCHANGED <<returnTo, hThread>>
      /\ engine_running' = FALSE
  BY <1>1, Apart DEF Moves, ThreadClear, At
<1>3. ControlTypes'
  BY <1>1, <1>2 DEF Control, ControlTypes, Moves, ThreadPC
<1>4. OneActs' /\ StopsWait' /\ StartsAlone'
  BY <1>2 DEF Control, OneActs, StopsWait, StartsAlone, Starting, Acting
<1>5. HandleKept' /\ StoppedFirst'
  BY <1>2 DEF Control, HandleKept, StoppedFirst, Alive
<1>6. Alive(t)
  BY <1>2 DEF Alive
<1>7. \A u \in Thread \ {t} : ~Alive(u)
  BY <1>6 DEF Control, HandleKept
<1>8. StatusExact'
  BY <1>2, <1>7 DEF StatusExact, Announced, Alive
<1> QED BY <1>3, <1>4, <1>5, <1>8 DEF Control

LEMMA FirstControl ==
    ASSUME pc = IdleAll, returnTo = ReturnNone, engine_running = FALSE,
           hThread = NoThread
    PROVE  Control
<1>1. /\ \A c \in Controller : pc[c] = "idle"
      /\ \A t \in Thread : pc[t] = "none"
  BY Apart DEF IdleAll
<1>2. ControlTypes
  BY <1>1 DEF ControlTypes, IdleAll, ReturnNone, ControllerPC, ThreadPC
<1> QED
  BY <1>1, <1>2 DEF Control, OneActs, StartsAlone, HandleKept, StatusExact,
                    StopsWait, StoppedFirst, Acting, Announced, Alive, Starting

-----------------------------------------------------------------------------
(* The driver.                                                             *)

(* In the middle of deinit_all.                                            *)
Deiniting(p) == pc[p] \in {"reset", "deinit"}

TableEmpty == \A i \in Slot : filters[i] = NoHandle

NothingOpened(t) == \A n \in Slot : handle[<<t, n>>] = "none"

AllClosed(t) == \A n \in Slot : handle[<<t, n>>] \in {"none", "closed"}

DriverTypes ==
    /\ filters \in [Slot -> Handle \cup {NoHandle}]
    /\ filter_num \in 0..MaxFilters
    /\ w_filter \in Handle \cup {NoHandle}
    /\ handle \in [Handle -> {"none", "open", "shut", "closed", "twice"}]
    /\ slot \in [Process -> 1..(MaxFilters + 1)]
    /\ closing \subseteq Process

(* What deinit_all is closing, and that it left nothing behind.            *)
ScanPlaced ==
    /\ \A p \in closing :
          /\ Deiniting(p) /\ slot[p] \in Slot
          /\ filters[slot[p]] # NoHandle
          /\ handle[filters[slot[p]]] = "closed"
    /\ \A p \in Process : Deiniting(p) =>
          \A i \in Slot : i < slot[p] => filters[i] = NoHandle
    /\ \A p \in Process : ~Deiniting(p) => slot[p] = 1

TableOnce ==
    \A i, j \in Slot : filters[i] = filters[j] /\ filters[i] # NoHandle => i = j

(* The table holds handles that are not closed yet, but for the one that   *)
(* is being closed.                                                        *)
TableHeld ==
    \A i \in Slot :
        filters[i] # NoHandle /\ handle[filters[i]] \notin {"open", "shut"}
            => \E p \in closing : slot[p] = i

(* What a thread has opened at each stage, and where it stands.            *)
Stage(t) ==
    /\ pc[t] \in {"none", "config", "announce", "unexit", "reset", "wipe",
                  "lists"} => NothingOpened(t)
    /\ pc[t] \in {"wipe", "lists"} => TableEmpty
    /\ pc[t] = "lists" => filter_num = 0
    /\ pc[t] = "open" =>
          /\ filter_num < NumFilters
          /\ \A n \in Slot : handle[<<t, n>>] # "none" <=> n <= filter_num
          /\ \A i \in Slot : i > filter_num => filters[i] = NoHandle
    /\ pc[t] \in {"clear", "dead"} =>
          AllClosed(t) \/ (InitFails /\ Cardinality(OpenedBy(t)) # NumFilters)

Driver ==
    /\ DriverTypes
    /\ ScanPlaced
    /\ TableOnce
    /\ TableHeld
    /\ NoDoubleClose
    /\ NoLeak
    /\ \A t \in Thread : Stage(t)

LEMMA OneDeinit ==
    ASSUME Control, NEW p \in Process, NEW q \in Process,
           Deiniting(p), Deiniting(q)
    PROVE  p = q
<1>1. \A t \in Thread : Deiniting(t) => Alive(t)
  BY DEF Deiniting, Alive
<1>2. \A c \in Controller : Deiniting(c) => pc[c] = "deinit" /\ Acting(c)
  BY DEF Deiniting, Control, ControlTypes, ControllerPC, Acting
<1> QED
  BY <1>1, <1>2 DEF Control, OneActs, HandleKept, StoppedFirst, Process

LEMMA OnlyClosing ==
    ASSUME Control, Driver, NEW p \in Process, Deiniting(p)
    PROVE  closing \subseteq {p}
BY OneDeinit DEF Driver, DriverTypes, ScanPlaced

LEMMA StageKept ==
    ASSUME NEW t \in Thread, Stage(t), pc'[t] = pc[t],
           filter_num' = filter_num \/ ~Alive(t),
           \A i \in Slot : filters[i] = NoHandle => filters'[i] = NoHandle,
           \A n \in Slot :
              /\ handle'[<<t, n>>] = "none" <=> handle[<<t, n>>] = "none"
              /\ handle[<<t, n>>] = "closed" => handle'[<<t, n>>] = "closed"
    PROVE  Stage(t)'
<1>1. OpenedBy(t)' = OpenedBy(t)
  BY DEF OpenedBy
<1>2. NothingOpened(t) => NothingOpened(t)'
  BY DEF NothingOpened
<1>3. AllClosed(t) => AllClosed(t)'
  BY DEF AllClosed
<1>4. TableEmpty => TableEmpty'
  BY DEF TableEmpty
<1> QED
  BY <1>1, <1>2, <1>3, <1>4 DEF Stage, Alive

(* A step that only moves a process which is not in deinit_all.            *)
LEMMA MoveDriver ==
    ASSUME Control, Driver, NEW p \in Process,
           NEW label \in ControllerPC \cup ThreadPC, Moves(p, label),
           ~Deiniting(p), p \in Thread => Stage(p)',
           UNCHANGED <<driver, scan>>
    PROVE  Driver'
<1>1. UNCHANGED <<filters, filter_num, w_filter, handle, slot, closing>>
  BY DEF driver, scan
<1>2. \A q \in Process \ {p} : Deiniting(q)' = Deiniting(q)
  BY DEF Moves, Deiniting
<1>3. p \notin closing /\ slot[p] = 1
  BY DEF Driver, ScanPlaced
<1>4. DriverTypes' /\ TableOnce' /\ TableHeld' /\ NoDoubleClose' /\ NoLeak'
  BY <1>1 DEF Driver, DriverTypes, TableOnce, TableHeld, NoDoubleClose, NoLeak
<1>5. ScanPlaced'
  BY <1>1, <1>2, <1>3 DEF Driver, DriverTypes, ScanPlaced, Slot
<1>6. \A t \in Thread \ {p} : Stage(t)'
  BY <1>1, StageKept, Apart DEF Driver, Moves
<1> QED
  BY <1>4, <1>5, <1>6 DEF Driver

LEMMA SkipDriver ==
    ASSUME Control, Driver, NEW p \in Process,
           NEW label \in {"reset", "deinit"}, DeinitSkip(p, label)
    PROVE  Driver'
<1>1. Deiniting(p)
  BY DEF DeinitSkip, At, Deiniting
<1>2. /\ UNCHANGED <<pc, filters, filter_num, w_filter, handle, closing>>
      /\ p \notin closing /\ slot[p] \in Slot /\ filters[slot[p]] = NoHandle
      /\ slot' = [slot EXCEPT ![p] = @ + 1]
  BY DEF DeinitSkip, driver
<1>3. closing = {}
  BY <1>1, <1>2, OnlyClosing
<1>4. /\ slot' \in [Process -> 1..(MaxFilters + 1)] /\ slot'[p] = slot[p] + 1
      /\ \A q \in Process \ {p} : slot'[q] = slot[q]
  BY <1>2, LifecycleAssumption DEF Driver, DriverTypes, Slot
<1>5. DriverTypes' /\ TableOnce' /\ TableHeld' /\ NoDoubleClose' /\ NoLeak'
  BY <1>2, <1>3, <1>4
  DEF Driver, DriverTypes, TableOnce, TableHeld, NoDoubleClose, NoLeak
<1>6. \A i \in Slot : i < slot[p] + 1 => filters[i] = NoHandle
  BY <1>1, <1>2 DEF Driver, DriverTypes, ScanPlaced, Slot
<1>7. ScanPlaced'
  BY <1>1, <1>2, <1>3, <1>4, <1>6
  DEF Driver, ScanPlaced, Deiniting
<1>8. \A t \in Thread : Stage(t)'
  BY <1>2, StageKept DEF Driver
<1> QED
  BY <1>5, <1>7, <1>8 DEF Driver

LEMMA CloseDriver ==
    ASSUME Control, Driver, NEW p \in Process,
           NEW label \in {"reset", "deinit"}, DeinitClose(p, label)
    PROVE  Driver'
<1>1. Deiniting(p)
  BY DEF DeinitClose, At, Deiniting
<1> DEFINE h == filters[slot[p]]
<1>2. /\ UNCHANGED <<pc, filters, filter_num, w_filter, slot>>
      /\ p \notin closing /\ slot[p] \in Slot /\ h # NoHandle
      /\ closing' = closing \cup {p}
  BY DEF DeinitClose
<1>3. closing = {}
  BY <1>1, <1>2, OnlyClosing
<1>4. h \in Handle /\ handle[h] \in {"open", "shut"}
  BY <1>2, <1>3 DEF Driver, DriverTypes, TableHeld
<1>5. handle' = [handle EXCEPT ![h] = "closed"]
  BY <1>4 DEF DeinitClose
<1> HIDE DEF h
<1>6. /\ handle' \in [Handle -> {"none", "open", "shut", "closed", "twice"}]
      /\ handle'[h] = "closed"
      /\ \A g \in Handle \ {h} : handle'[g] = handle[g]
  BY <1>4, <1>5 DEF Driver, DriverTypes
<1>7. DriverTypes' /\ TableOnce'
  BY <1>2, <1>6 DEF Driver, DriverTypes, TableOnce
<1>8. TableHeld'
  <2> SUFFICES ASSUME NEW i \in Slot, filters[i] # NoHandle,
                      handle'[filters[i]] \notin {"open", "shut"}
               PROVE  i = slot[p]
    BY <1>2 DEF TableHeld
  <2>1. CASE filters[i] = h
    BY <2>1, <1>2 DEF Driver, TableOnce, h
  <2>2. CASE filters[i] # h
    BY <2>2, <1>3, <1>6 DEF Driver, DriverTypes, TableHeld
  <2> QED BY <2>1, <2>2
<1>9. NoDoubleClose' /\ NoLeak'
  BY <1>2, <1>6 DEF Driver, NoDoubleClose, NoLeak
<1>10. ScanPlaced'
  BY <1>1, <1>2, <1>3, <1>6 DEF Driver, ScanPlaced, Deiniting, h
<1>11. \A t \in Thread : Stage(t)'
  <2> TAKE t \in Thread
  <2>1. \A n \in Slot : <<t, n>> \in Handle
    BY DEF Handle
  <2> QED
    BY <1>2, <1>4, <1>6, <2>1, StageKept DEF Driver
<1> QED
  BY <1>7, <1>8, <1>9, <1>10, <1>11 DEF Driver

LEMMA NullDriver ==
    ASSUME Control, Driver, NEW p \in Process, DeinitNull(p)
    PROVE  Driver'
<1>1. /\ UNCHANGED <<pc, filter_num, w_filter, handle>>
      /\ p \in closing
      /\ filters' = [filters EXCEPT ![slot[p]] = NoHandle]
      /\ slot' = [slot EXCEPT ![p] = @ + 1]
      /\ closing' = closing \ {p}
  BY DEF DeinitNull
<1>2. /\ Deiniting(p) /\ slot[p] \in Slot /\ filters[slot[p]] # NoHandle
      /\ handle[filters[slot[p]]] = "closed"
  BY <1>1 DEF Driver, ScanPlaced
<1>3. closing' = {} /\ closing = {p}
  BY <1>1, <1>2, OnlyClosing
<1>4. /\ slot' \in [Process -> 1..(MaxFilters + 1)] /\ slot'[p] = slot[p] + 1
      /\ \A q \in Process \ {p} : slot'[q] = slot[q]
  BY <1>1, <1>2, LifecycleAssumption DEF Driver, DriverTypes, Slot
<1>5. /\ filters' \in [Slot -> Handle \cup {NoHandle}]
      /\ filters'[slot[p]] = NoHandle
      /\ \A i \in Slot \ {slot[p]} : filters'[i] = filters[i]
  BY <1>1, <1>2 DEF Driver, DriverTypes
<1>6. DriverTypes' /\ TableOnce' /\ NoDoubleClose'
  BY <1>1, <1>3, <1>4, <1>5
  DEF Driver, DriverTypes, TableOnce, NoDoubleClose
<1>7. TableHeld'
  BY <1>1, <1>3, <1>5 DEF Driver, TableHeld
<1>8. NoLeak'
  <2> SUFFICES ASSUME NEW h \in Handle, handle[h] \in {"open", "shut"}
               PROVE  \E i \in Slot : filters'[i] = h
    BY <1>1 DEF NoLeak
  <2>1. PICK i \in Slot : filters[i] = h
    BY DEF Driver, NoLeak
  <2>2. i # slot[p]
    BY <1>2, <2>1
  <2> QED BY <1>5, <2>1, <2>2
<1>9. \A i \in Slot : i < slot[p] + 1 => filters'[i] = NoHandle
  BY <1>2, <1>5 DEF Driver, DriverTypes, ScanPlaced, Slot
<1>10. ScanPlaced'
  <2>1. \A q \in Process : Deiniting(q) => q = p
    BY <1>2, OneDeinit
  <2> QED
    BY <1>1, <1>2, <1>3, <1>4, <1>9, <2>1 DEF Driver, ScanPlaced, Deiniting
<1>11. \A t \in Thread : Stage(t)'
  BY <1>1, <1>2, <1>5, StageKept DEF Driver
<1> QED
  BY <1>6, <1>7, <1>8, <1>10, <1>11 DEF Driver

LEMMA EmptyClosed ==
    ASSUME Driver, TableEmpty, NEW t \in Thread
    PROVE  AllClosed(t)
<1> SUFFICES ASSUME NEW n \in Slot
             PROVE  handle[<<t, n>>] \in {"none", "closed"}
  BY DEF AllClosed
<1> DEFINE h == <<t, n>>
<1>1. h \in Handle /\ h # NoHandle
  BY LifecycleAssumption DEF Handle, Slot
<1> HIDE DEF h
<1>2. handle[h] \notin {"open", "shut", "twice"}
  BY <1>1 DEF Driver, NoLeak, NoDoubleClose, TableEmpty
<1>3. handle[h] \in {"none", "closed"}
  BY <1>1, <1>2 DEF Driver, DriverTypes
<1> QED BY <1>3 DEF h

(* Leaving deinit_all: the table is empty.                                 *)
LEMMA DoneDriver ==
    ASSUME Control, Driver, NEW p \in Process,
           \/ DeinitDone(p, "deinit", "clear")
           \/ p \in Thread /\ DeinitDone(p, "reset", "wipe")
    PROVE  Driver'
<1> PICK after \in {"clear", "wipe"} :
        /\ Goto(p, after)
        /\ after = "wipe" => p \in Thread /\ pc[p] = "reset"
  BY DEF DeinitDone, At
<1>1. /\ UNCHANGED <<filters, filter_num, w_filter, handle, closing>>
      /\ slot[p] \notin Slot
      /\ slot' = [slot EXCEPT ![p] = 1]
      /\ Deiniting(p)
  BY DEF DeinitDone, driver, At, Deiniting
<1>2. slot[p] = MaxFilters + 1
  BY <1>1, LifecycleAssumption DEF Driver, DriverTypes, Slot
<1>3. TableEmpty
  BY <1>1, <1>2, LifecycleAssumption DEF Driver, ScanPlaced, Slot, TableEmpty
<1>4. closing = {}
  BY <1>1, OnlyClosing DEF Driver, ScanPlaced
<1>5. /\ slot' \in [Process -> 1..(MaxFilters + 1)] /\ slot'[p] = 1
      /\ \A q \in Process \ {p} : slot'[q] = slot[q]
  BY <1>1, LifecycleAssumption DEF Driver, DriverTypes
<1>6. Moves(p, after)
  BY GotoMoves DEF Control, ControllerPC, ThreadPC
<1>7. DriverTypes' /\ TableOnce' /\ TableHeld' /\ NoDoubleClose' /\ NoLeak'
  BY <1>1, <1>3, <1>5
  DEF Driver, DriverTypes, TableOnce, TableHeld, NoDoubleClose, NoLeak,
      TableEmpty
<1>8. \A q \in Process : ~Deiniting(q)'
  <2>1. \A q \in Process \ {p} : ~Deiniting(q)
    BY <1>1, OneDeinit
  <2> QED BY <1>6, <2>1 DEF Moves, Deiniting
<1>9. ScanPlaced'
  <2>1. \A q \in Process : slot'[q] = 1
    BY <1>1, <1>5, OneDeinit DEF Driver, ScanPlaced
  <2> QED BY <1>1, <1>4, <1>8, <2>1 DEF ScanPlaced
<1>10. \A t \in Thread \ {p} : Stage(t)'
  BY <1>1, <1>6, StageKept, Apart DEF Driver, Moves
<1>11. p \in Thread => Stage(p)'
  <2> SUFFICES ASSUME p \in Thread PROVE Stage(p)'
    OBVIOUS
  <2>1. AllClosed(p)
    BY <1>3, EmptyClosed
  <2>2. pc[p] = "reset" => NothingOpened(p)
    BY DEF Driver, Stage
  <2>3. AllClosed(p)' /\ TableEmpty' /\ (NothingOpened(p) => NothingOpened(p)')
    BY <1>1, <1>3, <2>1 DEF AllClosed, TableEmpty, NothingOpened
  <2> QED BY <1>6, <2>2, <2>3 DEF Stage, Moves
<1> QED
  BY <1>7, <1>9, <1>10, <1>11 DEF Driver

LEMMA ShutdownDriver ==
    ASSUME Control, Driver, NEW c \in Controller, StopShutdown(c)
    PROVE  Driver'
<1>1. /\ UNCHANGED <<filters, filter_num, w_filter, slot, closing>>
      /\ pc[c] = "shutdown"
  BY DEF StopShutdown, scan, At
<1>2. Moves(c, "wait")
  BY GotoMoves, Apart DEF StopShutdown, Control, ControllerPC
<1>3. /\ handle' \in [Handle -> {"none", "open", "shut", "closed", "twice"}]
      /\ \A h \in Handle :
            handle'[h] = handle[h] \/ (handle[h] = "open" /\ handle'[h] = "shut")
  BY DEF StopShutdown, Driver, DriverTypes
<1>4. DriverTypes' /\ TableOnce' /\ NoDoubleClose' /\ NoLeak'
  BY <1>1, <1>3
  DEF Driver, DriverTypes, TableOnce, NoDoubleClose, NoLeak
<1>5. TableHeld'
  BY <1>1, <1>3 DEF Driver, DriverTypes, TableHeld
<1>6. \A q \in Process : Deiniting(q)' = Deiniting(q)
  BY <1>1, <1>2 DEF Moves, Deiniting
<1>7. ScanPlaced'
  <2>1. \A q \in closing : handle'[filters[slot[q]]] = "closed"
    BY <1>3 DEF Driver, DriverTypes, ScanPlaced
  <2> QED BY <1>1, <1>6, <2>1 DEF Driver, DriverTypes, ScanPlaced
<1>8. \A t \in Thread : Stage(t)'
  <2> TAKE t \in Thread
  <2>1. \A n \in Slot : <<t, n>> \in Handle
    BY DEF Handle
  <2>2. pc'[t] = pc[t]
    BY <1>2, Apart DEF Moves
  <2> QED
    BY <1>1, <1>3, <2>1, <2>2, StageKept DEF Driver
<1> QED
  BY <1>4, <1>5, <1>7, <1>8 DEF Driver

LEMMA CreateDriver ==
    ASSUME Control, Driver, NEW c \in Controller, StartCreates(c)
    PROVE  Driver'
<1> PICK t \in Thread :
        /\ Fresh(t)
        /\ pc' = [pc EXCEPT ![c] = "idle", ![t] = "config"]
        /\ handle' = [h \in Handle |-> IF h[1] = t /\ handle[h] = "closed"
                                       THEN "none" ELSE handle[h]]
  BY DEF StartCreates
<1>1. /\ UNCHANGED <<filters, filter_num, w_filter, slot, closing>>
      /\ pc[c] = "start"
  BY DEF StartCreates, scan, At
<1>2. /\ pc'[c] = "idle" /\ pc'[t] = "config"
      /\ \A q \in Process \ {c, t} : pc'[q] = pc[q]
  BY Apart DEF Control, ControlTypes
<1>3. /\ pc[t] \in {"none", "dead"}
      /\ \A n \in Slot : handle[<<t, n>>] \in {"none", "closed"}
      /\ \A i \in Slot : filters[i] # NoHandle => filters[i][1] # t
  BY DEF Fresh
<1>4. \A q \in Process : Deiniting(q)' <=> Deiniting(q)
  <2> TAKE q \in Process
  <2>1. CASE q \in {c, t}
    BY <2>1, <1>1, <1>2, <1>3 DEF Deiniting
  <2>2. CASE q \notin {c, t}
    BY <2>2, <1>2 DEF Deiniting
  <2> QED BY <2>1, <2>2
<1>5. /\ handle' \in [Handle -> {"none", "open", "shut", "closed", "twice"}]
      /\ \A h \in Handle : handle'[h] = handle[h]
                            \/ (handle[h] = "closed" /\ handle'[h] = "none")
      /\ \A i \in Slot : filters[i] # NoHandle =>
            handle'[filters[i]] = handle[filters[i]]
  BY <1>3 DEF Driver, DriverTypes
<1>6. DriverTypes' /\ TableOnce' /\ NoDoubleClose' /\ NoLeak' /\ TableHeld'
  BY <1>1, <1>5
  DEF Driver, DriverTypes, TableOnce, NoDoubleClose, NoLeak, TableHeld
<1>7. ScanPlaced'
  <2>1. \A q \in closing : q \in Process /\ slot[q] \in Slot
    BY DEF Driver, DriverTypes, ScanPlaced
  <2>2. \A q \in closing : handle'[filters[slot[q]]] = "closed"
    BY <1>5, <2>1 DEF Driver, ScanPlaced
  <2> HIDE DEF Deiniting
  <2> QED BY <1>1, <1>4, <2>1, <2>2 DEF Driver, ScanPlaced
<1>8. \A u \in Thread \ {t} : Stage(u)'
  <2> TAKE u \in Thread \ {t}
  <2>1. \A n \in Slot : handle'[<<u, n>>] = handle[<<u, n>>]
    BY DEF Handle
  <2>2. pc'[u] = pc[u]
    BY <1>2, Apart
  <2> QED
    BY <1>1, <2>1, <2>2, StageKept DEF Driver
<1>9. Stage(t)'
  <2>1. \A n \in Slot : handle'[<<t, n>>] = "none"
    BY <1>3 DEF Handle
  <2> QED BY <1>2, <2>1 DEF Stage, NothingOpened
<1> QED
  BY <1>6, <1>7, <1>8, <1>9 DEF Driver

(* While an engine starts, nobody else is at the filters.                  *)
LEMMA StartingAlone ==
    ASSUME Control, Driver, NEW t \in Thread, pc[t] \in {"wipe", "lists", "open"}
    PROVE  /\ \A u \in Thread \ {t} : ~Alive(u)
           /\ \A q \in Process : ~Deiniting(q)
           /\ closing = {}
<1>1. Alive(t) /\ Starting(t)
  BY DEF Alive, Starting
<1>2. \A u \in Thread \ {t} : ~Alive(u)
  BY <1>1 DEF Control, HandleKept
<1>3. \A c \in Controller : pc[c] = "idle"
  BY <1>1 DEF Control, StartsAlone, Acting
<1>4. \A q \in Process : ~Deiniting(q)
  BY <1>2, <1>3 DEF Process, Deiniting, Alive
<1> QED BY <1>2, <1>4 DEF Driver, DriverTypes, ScanPlaced

LEMMA WipeDriver ==
    ASSUME Control, Driver, NEW t \in Thread, ResetWipe(t)
    PROVE  Driver'
<1>1. /\ UNCHANGED <<handle, slot, closing>> /\ pc[t] = "wipe"
      /\ w_filter' = NoHandle /\ filter_num' = 0
      /\ filters' = [i \in Slot |-> NoHandle]
  BY DEF ResetWipe, scan, At
<1>2. Moves(t, "lists")
  BY GotoMoves, Apart DEF ResetWipe, Control, ThreadPC
<1>3. TableEmpty /\ NothingOpened(t)
  BY <1>1 DEF Driver, Stage
<1>4. filters' = filters
  BY <1>1, <1>3 DEF Driver, DriverTypes, TableEmpty
<1>5. DriverTypes' /\ TableOnce' /\ TableHeld' /\ NoDoubleClose' /\ NoLeak'
  BY <1>1, <1>4, LifecycleAssumption
  DEF Driver, DriverTypes, TableOnce, TableHeld, NoDoubleClose, NoLeak
<1>6. \A q \in Process : ~Deiniting(q) /\ ~Deiniting(q)'
  BY <1>1, <1>2, StartingAlone DEF Moves, Deiniting
<1>7. ScanPlaced'
  BY <1>1, <1>6, StartingAlone DEF Driver, ScanPlaced
<1>8. \A u \in Thread \ {t} : Stage(u)'
  BY <1>1, <1>2, <1>4, StartingAlone, StageKept, Apart DEF Driver, Moves
<1>9. Stage(t)'
  BY <1>1, <1>2, <1>3, <1>4 DEF Stage, Moves, NothingOpened, TableEmpty
<1> QED
  BY <1>5, <1>7, <1>8, <1>9 DEF Driver

(* The next filter goes to the next slot, and its handle is new.           *)
LEMMA NextIsNext ==
    ASSUME Control, Driver, NEW t \in Thread, pc[t] = "open"
    PROVE  /\ filter_num + 1 \in Slot /\ filter_num + 1 <= NumFilters
           /\ Cardinality(OpenedBy(t)) = filter_num
           /\ NextSlot(t) = filter_num + 1
           /\ filters[filter_num + 1] = NoHandle
           /\ handle[<<t, filter_num + 1>>] = "none"
<1>1. /\ filter_num \in Nat /\ filter_num < NumFilters
      /\ \A n \in Slot : handle[<<t, n>>] # "none" <=> n <= filter_num
      /\ \A i \in Slot : i > filter_num => filters[i] = NoHandle
  BY LifecycleAssumption DEF Driver, DriverTypes, Stage
<1>2. OpenedBy(t) = 1..filter_num
  BY <1>1, LifecycleAssumption DEF OpenedBy, Slot
<1>3. Cardinality(OpenedBy(t)) = filter_num
  BY <1>1, <1>2, FS_Interval
<1>4. NextSlot(t) = filter_num + 1
  BY <1>1, <1>2 DEF NextSlot
<1> QED
  BY <1>1, <1>3, <1>4, LifecycleAssumption DEF Slot

LEMMA OpenDriver ==
    ASSUME Control, Driver, NEW t \in Thread, OpenFilter(t)
    PROVE  Driver'
<1> DEFINE k == filter_num + 1
           h == <<t, k>>
           last == k = NumFilters
<1>1. pc[t] = "open"
  BY DEF OpenFilter, At
<1>2. /\ k \in Slot /\ k <= NumFilters
      /\ Cardinality(OpenedBy(t)) = filter_num /\ filter_num \in Nat
      /\ NextSlot(t) = k
      /\ filters[k] = NoHandle /\ handle[h] = "none"
      /\ h \in Handle
  BY <1>1, NextIsNext DEF Driver, DriverTypes, Handle
<1>3. /\ filters' = [filters EXCEPT ![k] = h]
      /\ handle' = [handle EXCEPT ![h] = "open"]
      /\ filter_num' = k
      /\ w_filter' = IF last THEN h ELSE w_filter
      /\ Goto(t, IF last THEN "loop" ELSE "open")
      /\ UNCHANGED <<slot, closing>>
  BY <1>2 DEF OpenFilter, scan
<1>4. Moves(t, IF last THEN "loop" ELSE "open")
  BY <1>3, GotoMoves, Apart DEF Control, ThreadPC
<1> HIDE DEF h
<1>5. /\ filters' \in [Slot -> Handle \cup {NoHandle}]
      /\ filters'[k] = h
      /\ \A i \in Slot \ {k} : filters'[i] = filters[i]
      /\ handle' \in [Handle -> {"none", "open", "shut", "closed", "twice"}]
      /\ handle'[h] = "open"
      /\ \A g \in Handle \ {h} : handle'[g] = handle[g]
  BY <1>2, <1>3 DEF Driver, DriverTypes
<1>6. closing = {}
  BY <1>1, StartingAlone
<1>7. \A i \in Slot : filters[i] # h
  BY <1>2, <1>6, LifecycleAssumption DEF Driver, TableHeld, Handle, Slot
<1>8. DriverTypes'
  BY <1>2, <1>3, <1>5, LifecycleAssumption DEF Driver, DriverTypes, Slot
<1>9. TableOnce'
  BY <1>5, <1>7 DEF Driver, TableOnce
<1>10. TableHeld'
  <2> SUFFICES ASSUME NEW i \in Slot, filters'[i] # NoHandle
               PROVE  handle'[filters'[i]] \in {"open", "shut"}
    BY DEF TableHeld
  <2>1. CASE i = k
    BY <2>1, <1>5
  <2>2. CASE i # k
    BY <2>2, <1>5, <1>6, <1>7 DEF Driver, DriverTypes, TableHeld
  <2> QED BY <2>1, <2>2
<1>11. NoDoubleClose'
  BY <1>5 DEF Driver, NoDoubleClose
<1>12. NoLeak'
  <2> SUFFICES ASSUME NEW g \in Handle, handle'[g] \in {"open", "shut"}
               PROVE  \E i \in Slot : filters'[i] = g
    BY DEF NoLeak
  <2>1. CASE g = h
    BY <2>1, <1>2, <1>5
  <2>2. CASE g # h
    <3>1. PICK i \in Slot : filters[i] = g
      BY <2>2, <1>5 DEF Driver, NoLeak
    <3>2. i # k
      BY <3>1, <1>2, LifecycleAssumption DEF Handle, Slot
    <3> QED BY <3>1, <3>2, <1>5
  <2> QED BY <2>1, <2>2
<1>13. ScanPlaced'
  BY <1>3, <1>4, <1>6, <1>1, StartingAlone
  DEF Driver, DriverTypes, ScanPlaced, Moves, Deiniting
<1>14. \A u \in Thread \ {t} : Stage(u)'
  <2> TAKE u \in Thread \ {t}
  <2>1. \A n \in Slot : handle'[<<u, n>>] = handle[<<u, n>>]
    BY <1>5 DEF Handle, h
  <2>2. ~Alive(u) /\ pc'[u] = pc[u]
    BY <1>1, <1>4, StartingAlone, Apart DEF Moves
  <2>3. NothingOpened(u)' <=> NothingOpened(u)
    BY <2>1 DEF NothingOpened
  <2>4. AllClosed(u)' <=> AllClosed(u)
    BY <2>1 DEF AllClosed
  <2>5. OpenedBy(u)' = OpenedBy(u)
    BY <2>1 DEF OpenedBy
  <2> QED
    BY <2>2, <2>3, <2>4, <2>5 DEF Driver, Stage, Alive
<1>15. Stage(t)'
  <2>1. CASE last
    BY <2>1, <1>4 DEF Stage, Moves
  <2>2. CASE ~last
    <3>1. pc'[t] = "open" /\ filter_num' < NumFilters
      BY <2>2, <1>2, <1>3, <1>4, LifecycleAssumption DEF Moves
    <3>2. \A n \in Slot : handle'[<<t, n>>] # "none" <=> n <= k
      <4> TAKE n \in Slot
      <4>1. CASE n = k
        BY <4>1, <1>2, <1>5 DEF h
      <4>2. CASE n # k
        <5>1. handle'[<<t, n>>] = handle[<<t, n>>]
          BY <4>2, <1>5 DEF h, Handle
        <5>2. handle[<<t, n>>] # "none" <=> n <= filter_num
          BY <1>1 DEF Driver, Stage
        <5> QED
          BY <4>2, <5>1, <5>2, <1>2 DEF Slot
      <4> QED BY <4>1, <4>2
    <3>3. \A i \in Slot : i > k => filters'[i] = NoHandle
      BY <1>1, <1>2, <1>5 DEF Driver, Stage, Slot
    <3> QED
      BY <3>1, <3>2, <3>3, <1>3 DEF Stage
  <2> QED BY <2>1, <2>2
<1> QED
  BY <1>8, <1>9, <1>10, <1>11, <1>12, <1>13, <1>14, <1>15 DEF Driver

LEMMA FailDriver ==
    ASSUME Control, Driver, NEW t \in Thread, OpenFails(t)
    PROVE  Driver'
<1>1. pc[t] = "open" /\ UNCHANGED <<w_filter, handle, slot, closing>>
  BY DEF OpenFails, At, scan
<1>2. /\ NextSlot(t) = filter_num + 1 /\ filter_num + 1 \in Slot
      /\ filters[filter_num + 1] = NoHandle
      /\ Cardinality(OpenedBy(t)) = filter_num
      /\ filter_num + 1 <= NumFilters
  BY <1>1, NextIsNext
<1>0. filter_num \in Nat
  BY LifecycleAssumption DEF Driver, DriverTypes
<1>3. filters' = filters /\ filter_num' = filter_num
  BY <1>0, <1>2 DEF OpenFails, Driver, DriverTypes
<1>4. Moves(t, "clear")
  BY GotoMoves, Apart DEF OpenFails, Control, ThreadPC
<1>5. OpenedBy(t)' = OpenedBy(t)
  BY <1>1 DEF OpenedBy
<1>6. Cardinality(OpenedBy(t)) # NumFilters
  BY <1>0, <1>2, LifecycleAssumption
<1>7. Stage(t)'
  BY <1>4, <1>5, <1>6 DEF OpenFails, Stage, Moves
<1> QED
  BY <1>1, <1>3, <1>4, <1>7, MoveDriver, Apart
  DEF driver, scan, ThreadPC, Deiniting

LEMMA FirstDriver ==
    ASSUME pc = IdleAll, filters = Empty, filter_num = 0, w_filter = NoHandle,
           handle = Unopened, slot = FirstAll, closing = {}
    PROVE  Driver
<1>1. /\ \A i \in Slot : filters[i] = NoHandle
      /\ \A h \in Handle : handle[h] = "none"
      /\ \A p \in Process : slot[p] = 1
      /\ \A p \in Process : pc[p] \in {"idle", "none"}
      /\ \A t \in Thread : pc[t] = "none"
  BY Apart DEF Empty, Unopened, FirstAll, IdleAll
<1>2. DriverTypes
  BY LifecycleAssumption DEF DriverTypes, Empty, Unopened, FirstAll
<1>3. ScanPlaced /\ TableOnce /\ TableHeld /\ NoDoubleClose /\ NoLeak
  BY <1>1 DEF ScanPlaced, TableOnce, TableHeld, NoDoubleClose, NoLeak, Deiniting
<1>4. \A t \in Thread : Stage(t)
  BY <1>1 DEF Stage, NothingOpened, Handle
<1> QED BY <1>2, <1>3, <1>4 DEF Driver

-----------------------------------------------------------------------------
(* Settings.                                                               *)

HasLoaded(t) == pc[t] \in {"announce", "unexit", "reset", "wipe", "lists",
                           "open", "loop"}

HasLists(t) == pc[t] \in {"open", "loop"}

(* A controller is about to stop the engine and start another.             *)
Replacing(c) ==
    pc[c] \in {"guard", "exit", "shutdown", "wait"} /\ returnTo[c] = "start"

UpToDate ==
    \A t \in Thread :
        HasLoaded(t) => loaded[t] = saved \/ \E c \in Controller : Replacing(c)

ListsUpToDate ==
    \A t \in Thread :
        /\ At(t, "lists") => blackwhitelist = {}
        /\ HasLists(t) => \/ blackwhitelist = HostsFor(saved)
                          \/ \E c \in Controller : Replacing(c)

SettingTypes ==
    /\ saved \in Config
    /\ loaded \in [Thread -> Config]
    /\ saved_list \in List
    /\ blackwhitelist \subseteq (UNION List) \cup OtherList

Settings == SettingTypes /\ UpToDate /\ ListsUpToDate

LEMMA HostsListed ==
    ASSUME saved_list \in List, NEW s
    PROVE  HostsFor(s) \subseteq (UNION List) \cup OtherList
<1>1. saved_list \subseteq UNION List
  OBVIOUS
<1>2. HostsFor(s) = {} \/ HostsFor(s) = saved_list \/ HostsFor(s) = OtherList
  BY Zenon DEF HostsFor
<1>3. ASSUME NEW x \in HostsFor(s) PROVE x \in (UNION List) \cup OtherList
  BY <1>1, <1>2, <1>3
<1> QED BY <1>3

LEMMA HostsListedNext ==
    ASSUME saved_list' \in List
    PROVE  HostsFor(saved)' \subseteq (UNION List) \cup OtherList
<1>1. saved_list' \subseteq UNION List
  OBVIOUS
<1>2. \/ HostsFor(saved)' = {}
      \/ HostsFor(saved)' = saved_list'
      \/ HostsFor(saved)' = OtherList
  BY Zenon DEF HostsFor
<1>3. ASSUME NEW x \in HostsFor(saved)' PROVE x \in (UNION List) \cup OtherList
  BY <1>1, <1>2, <1>3
<1> QED BY <1>3

LEMMA HostsKept ==
    ASSUME UNCHANGED <<saved, saved_list>>
    PROVE  HostsFor(saved)' = HostsFor(saved)
BY DEF HostsFor

LEMMA SettingsKept ==
    ASSUME Settings, UNCHANGED config,
           \A t \in Thread :
              /\ HasLoaded(t)' => HasLoaded(t)
              /\ At(t, "lists")' => At(t, "lists")
              /\ HasLists(t)' => HasLists(t),
           (\E c \in Controller : Replacing(c))
              => \/ \E c \in Controller : Replacing(c)'
                 \/ \A t \in Thread : ~Alive(t)'
    PROVE  Settings'
<1>1. UNCHANGED <<saved, loaded, saved_list, blackwhitelist>>
  BY DEF config, lists
<1>2. SettingTypes'
  BY <1>1 DEF Settings, SettingTypes
<1>3. \A t \in Thread : HasLoaded(t)' \/ HasLists(t)' => Alive(t)'
  BY DEF HasLoaded, HasLists, Alive
<1>4. UpToDate'
  BY <1>1, <1>3 DEF Settings, UpToDate
<1>5. ListsUpToDate'
  BY <1>1, <1>3, HostsKept DEF Settings, ListsUpToDate
<1> QED BY <1>2, <1>4, <1>5 DEF Settings

(* A controller goes on: it stops being about to replace the engine only   *)
(* when there is none any more.                                            *)
LEMMA ContinueSettings ==
    ASSUME Settings, Control, NEW c \in Controller, NEW label \in ControllerPC,
           Moves(c, label), UNCHANGED <<config, returnTo>>,
           Replacing(c) => label \in {"guard", "exit", "shutdown", "wait"}
                              \/ \A t \in Thread : ~Alive(t)
    PROVE  Settings'
<1>1. \A t \in Thread : pc'[t] = pc[t]
  BY Apart DEF Moves
<1>2. /\ \A d \in Controller \ {c} : pc'[d] = pc[d]
      /\ pc'[c] = label
  BY Apart DEF Moves
<1>3. \A t \in Thread :
         /\ HasLoaded(t)' => HasLoaded(t)
         /\ At(t, "lists")' => At(t, "lists")
         /\ HasLists(t)' => HasLists(t)
         /\ Alive(t)' => Alive(t)
  BY <1>1 DEF HasLoaded, At, HasLists, Alive
<1>4. (\E d \in Controller : Replacing(d))
         => \/ \E d \in Controller : Replacing(d)'
            \/ \A t \in Thread : ~Alive(t)'
  BY <1>2, <1>3 DEF Replacing
<1> QED BY <1>3, <1>4, SettingsKept

(* So does an engine thread.                                               *)
LEMMA RunSettings ==
    ASSUME Settings, NEW t \in Thread, NEW label, Moves(t, label),
           UNCHANGED <<config, returnTo>>,
           HasLoaded(t)' => HasLoaded(t),
           label # "lists",
           HasLists(t)' => HasLists(t)
    PROVE  Settings'
<1>1. \A u \in Thread \ {t} : pc'[u] = pc[u]
  BY Apart DEF Moves
<1>2. \A c \in Controller : Replacing(c)' <=> Replacing(c)
  BY Apart DEF Moves, Replacing
<1>3. \A u \in Thread :
         /\ HasLoaded(u)' => HasLoaded(u)
         /\ At(u, "lists")' => At(u, "lists")
         /\ HasLists(u)' => HasLists(u)
  BY <1>1, Apart DEF HasLoaded, At, HasLists, Moves
<1> QED BY <1>2, <1>3, SettingsKept

LEMMA ActSettings ==
    ASSUME Settings, Control, Unhurried, NEW c \in Controller,
           NEW label \in {"guard", "start"}, Moves(c, label),
           NEW r \in {"idle", "start", "end"},
           returnTo' = [returnTo EXCEPT ![c] = r],
           UNCHANGED <<loaded, blackwhitelist>>,
           \/ UNCHANGED <<saved, saved_list>>
           \/ label = "guard" /\ r = "start" /\ saved' \in Config
                 /\ saved_list' \in List
    PROVE  Settings'
<1>1. \A t \in Thread : pc'[t] = pc[t]
  BY Apart DEF Moves
<1>2. \A d \in Controller : ~Replacing(d)
  BY DEF Unhurried, At, Replacing
<1>3. SettingTypes'
  BY DEF Settings, SettingTypes
<1>4. CASE UNCHANGED <<saved, saved_list>>
  BY <1>1, <1>2, <1>3, <1>4, HostsKept
  DEF Settings, UpToDate, ListsUpToDate, HasLoaded, HasLists, At
<1>5. CASE label = "guard" /\ r = "start"
  <2>1. Replacing(c)'
    BY <1>5 DEF Replacing, Moves, Control, ControlTypes
  <2> QED
    BY <1>1, <1>3, <2>1
    DEF Settings, UpToDate, ListsUpToDate, At
<1> QED BY <1>4, <1>5

LEMMA CreateSettings ==
    ASSUME Settings, Control, NEW c \in Controller, StartCreates(c)
    PROVE  Settings'
<1> PICK t \in Thread : pc' = [pc EXCEPT ![c] = "idle", ![t] = "config"]
  BY DEF StartCreates
<1>1. /\ pc'[c] = "idle" /\ pc'[t] = "config" /\ pc[c] = "start"
      /\ \A q \in Process \ {c, t} : pc'[q] = pc[q]
      /\ UNCHANGED <<config, returnTo>>
  BY Apart DEF Control, ControlTypes, StartCreates, At
<1>2. \A u \in Thread \ {t} : pc'[u] = pc[u]
  BY <1>1, Apart
<1>3. \A d \in Controller : Replacing(d) => Replacing(d)'
  BY <1>1, Apart DEF Replacing
<1>4. \A u \in Thread :
         /\ HasLoaded(u)' => HasLoaded(u)
         /\ At(u, "lists")' => At(u, "lists")
         /\ HasLists(u)' => HasLists(u)
  BY <1>1, <1>2 DEF HasLoaded, At, HasLists
<1> QED BY <1>1, <1>3, <1>4, SettingsKept

LEMMA ReadSettings ==
    ASSUME Settings, Control, NEW t \in Thread, ReadConfig(t)
    PROVE  Settings'
<1>1. Moves(t, "announce")
  BY GotoMoves, Apart DEF ReadConfig, Control, ThreadPC
<1>2. /\ loaded' = [loaded EXCEPT ![t] = saved]
      /\ UNCHANGED <<saved, saved_list, blackwhitelist, returnTo>>
  BY DEF ReadConfig, lists
<1>3. \A u \in Thread \ {t} : pc'[u] = pc[u]
  BY <1>1, Apart DEF Moves
<1>4. \A c \in Controller : Replacing(c)' <=> Replacing(c)
  BY <1>1, <1>2, Apart DEF Moves, Replacing
<1>5. SettingTypes'
  BY <1>2 DEF Settings, SettingTypes
<1>6. UpToDate'
  BY <1>1, <1>2, <1>3, <1>4 DEF Settings, SettingTypes, UpToDate, HasLoaded
<1>7. ListsUpToDate'
  BY <1>1, <1>2, <1>3, <1>4, HostsKept
  DEF Settings, ListsUpToDate, At, HasLists, Moves
<1> QED BY <1>5, <1>6, <1>7 DEF Settings

LEMMA WipeSettings ==
    ASSUME Settings, Control, NEW t \in Thread, ResetWipe(t)
    PROVE  Settings'
<1>1. Moves(t, "lists")
  BY GotoMoves, Apart DEF ResetWipe, Control, ThreadPC
<1>2. /\ blackwhitelist' = {} /\ pc[t] = "wipe"
      /\ UNCHANGED <<saved, loaded, saved_list, returnTo>>
  BY DEF ResetWipe, blackwhitelist_clear, At
<1>3. \A u \in Thread \ {t} : pc'[u] = pc[u] /\ ~Alive(u)
  BY <1>1, <1>2, Apart DEF Moves, Control, HandleKept, Alive
<1>4. \A c \in Controller : Replacing(c)' <=> Replacing(c)
  BY <1>1, <1>2, Apart DEF Moves, Replacing
<1>5. SettingTypes'
  BY <1>2 DEF Settings, SettingTypes
<1>6. UpToDate'
  BY <1>1, <1>2, <1>3, <1>4 DEF Settings, UpToDate, HasLoaded, Moves
<1>7. ListsUpToDate'
  BY <1>1, <1>2, <1>3 DEF ListsUpToDate, At, HasLists, Moves, Alive
<1> QED BY <1>5, <1>6, <1>7 DEF Settings

LEMMA ListsSettings ==
    ASSUME Settings, Control, NEW t \in Thread, LoadLists(t)
    PROVE  Settings'
<1>1. Moves(t, "open")
  BY GotoMoves, Apart DEF LoadLists, Control, ThreadPC
<1>2. /\ blackwhitelist' = blackwhitelist \cup HostsFor(loaded[t])
      /\ pc[t] = "lists"
      /\ UNCHANGED <<saved, loaded, saved_list, returnTo>>
  BY DEF LoadLists, blackwhitelist_load_list, At
<1>3. \A u \in Thread \ {t} : pc'[u] = pc[u] /\ ~Alive(u)
  BY <1>1, <1>2, Apart DEF Moves, Control, HandleKept, Alive
<1>4. \A c \in Controller : Replacing(c)' <=> Replacing(c)
  BY <1>1, <1>2, Apart DEF Moves, Replacing
<1>5. SettingTypes'
  BY <1>2, HostsListed DEF Settings, SettingTypes
<1>6. UpToDate'
  BY <1>1, <1>2, <1>3, <1>4 DEF Settings, UpToDate, HasLoaded, Moves
<1>7. \/ blackwhitelist' = HostsFor(saved)'
      \/ \E c \in Controller : Replacing(c)'
  <2>1. loaded[t] = saved \/ \E c \in Controller : Replacing(c)
    BY <1>2 DEF Settings, UpToDate, HasLoaded
  <2>2. blackwhitelist' = HostsFor(loaded[t])
    BY <1>2 DEF Settings, ListsUpToDate, At
  <2>3. HostsFor(saved)' = HostsFor(saved)
    BY <1>2, HostsKept
  <2> QED BY <1>4, <2>1, <2>2, <2>3
<1>8. ListsUpToDate'
  BY <1>1, <1>3, <1>7 DEF ListsUpToDate, At, HasLists, Moves, Alive
<1> QED BY <1>5, <1>6, <1>8 DEF Settings

-----------------------------------------------------------------------------
(* Everything together.                                                    *)

Inv == Control /\ Driver /\ Settings /\ exiting \in BOOLEAN

LEMMA InitInv == Init => Inv
<1> SUFFICES ASSUME Init PROVE Inv
  OBVIOUS
<1>1. \A t \in Thread : pc[t] = "none"
  BY Apart DEF Init, IdleAll
<1>2. Settings
  BY <1>1 DEF Init, Settings, SettingTypes, UpToDate, ListsUpToDate, At,
              HasLoaded, HasLists
<1> QED BY <1>2, FirstControl, FirstDriver DEF Init, Inv

LEMMA InitInvNext == Init' => Inv'
BY InitInv, PTL

(* The next process begins as the first did.                               *)
LEMMA EndsInv ==
    ASSUME Inv, NEW c \in Controller, ProcessEnds(c)
    PROVE  Inv'
<1>1. Init'
  BY DEF ProcessEnds, Init, Inv, Settings, SettingTypes
<1> QED BY <1>1, InitInvNext

LEMMA ActInv ==
    ASSUME Inv, Unhurried, NEW c \in Controller,
           NEW label \in {"guard", "start"}, Goto(c, label),
           NEW r \in {"idle", "start", "end"},
           returnTo' = [returnTo EXCEPT ![c] = r],
           UNCHANGED <<flags, driver, loaded, blackwhitelist, scan>>,
           \/ UNCHANGED <<saved, saved_list>>
           \/ label = "guard" /\ r = "start" /\ saved' \in Config
                 /\ saved_list' \in List
    PROVE  Inv'
<1>1. Moves(c, label) /\ label \in ControllerPC
  BY GotoMoves, Apart DEF Inv, Control, ControllerPC
<1>2. Control'
  BY ActControl DEF Inv, flags
<1>3. ~Deiniting(c)
  BY DEF Unhurried, At, Deiniting
<1>4. Driver'
  BY <1>1, <1>3, MoveDriver, Apart DEF Inv
<1>5. Settings'
  BY <1>1, ActSettings DEF Inv
<1> QED BY <1>2, <1>4, <1>5 DEF Inv, flags

LEMMA ActsInv ==
    ASSUME Inv, Unhurried, NEW c \in Controller, Act(c)
    PROVE  Inv'
<1>0. saved \in Config /\ saved_list \in List
  BY DEF Inv, Settings, SettingTypes
<1>1. CASE Toggle(c)
  <2>1. CASE engine_running
    BY <1>1, <2>1, ActInv DEF Toggle, config, lists
  <2>2. CASE ~engine_running
    BY <1>1, <2>2, ActInv DEF Toggle, config, lists
  <2> QED BY <2>1, <2>2
<1>2. CASE Restart(c)
  BY <1>2, ActInv DEF Restart, config, lists
<1>3. CASE StartOnTimer(c)
  BY <1>3, ActInv DEF StartOnTimer, config, lists
<1>4. CASE SaveConfig(c)
  BY <1>0, <1>4, ActInv DEF SaveConfig, lists
<1>5. CASE SaveList(c)
  BY <1>0, <1>5, ActInv DEF SaveList
<1>6. CASE Exit(c)
  BY <1>6, ActInv DEF Exit, config, lists
<1> QED BY <1>1, <1>2, <1>3, <1>4, <1>5, <1>6 DEF Act

LEMMA ContinueInv ==
    ASSUME Inv, Control', NEW c \in Controller, ~Deiniting(c),
           NEW label \in ControllerPC, Goto(c, label),
           UNCHANGED <<returnTo, driver, config, scan>>, exiting' \in BOOLEAN,
           Replacing(c) => label \in {"guard", "exit", "shutdown", "wait"}
                              \/ \A t \in Thread : ~Alive(t)
    PROVE  Inv'
<1>1. Moves(c, label)
  BY GotoMoves, Apart DEF Inv, Control
<1>2. Driver'
  BY <1>1, MoveDriver, Apart DEF Inv
<1>3. Settings'
  BY <1>1, ContinueSettings DEF Inv
<1> QED BY <1>2, <1>3 DEF Inv

LEMMA DeinitInv ==
    ASSUME Inv, NEW p \in Process,
           \/ deinit_all(p, "deinit", "clear")
           \/ p \in Thread /\ deinit_all(p, "reset", "wipe")
    PROVE  Inv'
<1>1. CASE DeinitSkip(p, "deinit") \/ DeinitSkip(p, "reset")
  <2>1. UNCHANGED <<pc, returnTo, flags, config>>
    BY <1>1 DEF DeinitSkip
  <2>2. Control' /\ Driver'
    BY <1>1, <2>1, ControlStutters, SkipDriver DEF Inv, flags
  <2>3. Settings'
    BY <2>1 DEF Inv, Settings, SettingTypes, UpToDate, ListsUpToDate, At,
                HasLoaded, HasLists, Replacing, HostsFor, config, lists
  <2> QED BY <2>1, <2>2, <2>3 DEF Inv, flags
<1>2. CASE DeinitClose(p, "deinit") \/ DeinitClose(p, "reset")
  <2>1. UNCHANGED <<pc, returnTo, flags, config>>
    BY <1>2 DEF DeinitClose
  <2>2. Control' /\ Driver'
    BY <1>2, <2>1, ControlStutters, CloseDriver DEF Inv, flags
  <2>3. Settings'
    BY <2>1 DEF Inv, Settings, SettingTypes, UpToDate, ListsUpToDate, At,
                HasLoaded, HasLists, Replacing, HostsFor, config, lists
  <2> QED BY <2>1, <2>2, <2>3 DEF Inv, flags
<1>3. CASE DeinitDone(p, "deinit", "clear")
              \/ (p \in Thread /\ DeinitDone(p, "reset", "wipe"))
  <2> PICK after \in {"clear", "wipe"} :
        /\ Goto(p, after)
        /\ after = "wipe" => p \in Thread /\ pc[p] = "reset"
        /\ after = "clear" => pc[p] = "deinit"
    BY <1>3 DEF DeinitDone, At
  <2>1. UNCHANGED <<returnTo, flags, config>>
    BY <1>3 DEF DeinitDone
  <2>2. Driver'
    BY <1>3, DoneDriver DEF Inv
  <2>3. Moves(p, after)
    BY GotoMoves DEF Inv, Control, ControllerPC, ThreadPC
  <2>4. CASE p \in Controller
    <3>1. after = "clear" /\ pc[p] = "deinit"
      BY <2>4, Apart
    <3>2. \A t \in Thread : ~Alive(t)
      BY <2>4, <3>1 DEF Inv, Control, StoppedFirst
    <3>3. Control'
      BY <2>1, <2>4, <3>1, <3>2, ContinueControl
      DEF Inv, ControllerPC, Acting, flags
    <3>4. Settings'
      BY <2>1, <2>3, <2>4, <3>1, <3>2, ContinueSettings DEF Inv, ControllerPC
    <3> QED BY <2>1, <2>2, <3>3, <3>4 DEF Inv, flags
  <2>5. CASE p \in Thread
    <3>1. Announced(p) /\ (Starting(p)' => Starting(p))
      BY <2>3 DEF Announced, Starting, Moves
    <3>2. Control'
      BY <2>1, <2>5, <3>1, RunControl DEF Inv, flags
    <3>3. (HasLoaded(p)' => HasLoaded(p)) /\ (HasLists(p)' => HasLists(p))
      BY <2>3 DEF HasLoaded, HasLists, Moves
    <3>4. Settings'
      BY <2>1, <2>3, <2>5, <3>3, RunSettings DEF Inv
    <3> QED BY <2>1, <2>2, <3>2, <3>4 DEF Inv, flags
  <2> QED BY <2>4, <2>5 DEF Process
<1> QED BY <1>1, <1>2, <1>3 DEF deinit_all

LEMMA NullInv ==
    ASSUME Inv, NEW p \in Process, DeinitNull(p)
    PROVE  Inv'
<1>1. UNCHANGED <<pc, returnTo, flags, config>>
  BY DEF DeinitNull
<1>2. Control' /\ Driver'
  BY <1>1, ControlStutters, NullDriver DEF Inv, flags
<1>3. Settings'
  BY <1>1 DEF Inv, Settings, SettingTypes, UpToDate, ListsUpToDate, At,
              HasLoaded, HasLists, Replacing, HostsFor, config, lists
<1> QED BY <1>1, <1>2, <1>3 DEF Inv, flags

LEMMA StopInv ==
    ASSUME Inv, NEW c \in Controller, StopSteps(c)
    PROVE  Inv'
<1>1. CASE StopGuard(c)
  <2>1. Acting(c) /\ ~Deiniting(c) /\ returnTo[c] \in {"idle", "start", "end"}
    BY <1>1 DEF StopGuard, At, Acting, Deiniting, Inv, Control, ControlTypes
  <2>2. Control'
    BY <1>1, GuardControl DEF Inv
  <2>3. UNCHANGED <<returnTo, flags, driver, config, scan>>
    BY <1>1 DEF StopGuard
  <2>4. CASE engine_running /\ hThread # NoThread
    <3>1. Goto(c, "exit")
      BY <1>1, <2>4 DEF StopGuard
    <3> QED
      BY <2>1, <2>2, <2>3, <3>1, ContinueInv DEF Inv, flags, ControllerPC
  <2>5. CASE ~(engine_running /\ hThread # NoThread)
    <3>1. Goto(c, returnTo[c])
      BY <1>1, <2>5 DEF StopGuard
    <3>2. \A t \in Thread : ~Alive(t)
      BY <2>1, <2>5, NoneAlive DEF Inv, Control, ControlTypes
    <3> QED
      BY <2>1, <2>2, <2>3, <3>1, <3>2, ContinueInv
      DEF Inv, flags, ControllerPC
  <2> QED BY <2>4, <2>5
<1>2. CASE StopExit(c)
  <2>1. Acting(c) /\ ~Deiniting(c) /\ Goto(c, "shutdown") /\ hThread \in Thread
    BY <1>2 DEF StopExit, At, Acting, Deiniting, Inv, Control, StopsWait
  <2>2. /\ UNCHANGED <<returnTo, engine_running, hThread, driver, config, scan>>
        /\ exiting' = TRUE
    BY <1>2 DEF StopExit
  <2>3. Control'
    BY <2>1, <2>2, ContinueControl DEF Inv, ControllerPC
  <2> QED
    BY <2>1, <2>2, <2>3, ContinueInv DEF Inv, ControllerPC
<1>3. CASE StopShutdown(c)
  <2>1. Acting(c) /\ Goto(c, "wait") /\ hThread \in Thread
    BY <1>3 DEF StopShutdown, At, Acting, Inv, Control, StopsWait
  <2>2. UNCHANGED <<returnTo, flags, config>>
    BY <1>3 DEF StopShutdown
  <2>3. Control'
    BY <2>1, <2>2, ContinueControl DEF Inv, ControllerPC, flags
  <2>4. Moves(c, "wait")
    BY <2>1, GotoMoves, Apart DEF Inv, Control, ControllerPC
  <2>5. Settings'
    BY <2>2, <2>4, ContinueSettings DEF Inv, ControllerPC
  <2> QED
    BY <1>3, <2>2, <2>3, <2>5, ShutdownDriver DEF Inv, flags
<1>4. CASE StopWait(c)
  <2>1. Control' /\ \A t \in Thread : ~Alive(t)
    BY <1>4, WaitControl DEF Inv
  <2>2. ~Deiniting(c) /\ Goto(c, "deinit")
    BY <1>4 DEF StopWait, CloseThread, At, Deiniting
  <2>3. UNCHANGED <<returnTo, exiting, driver, config, scan>>
    BY <1>4 DEF StopWait, CloseThread
  <2> QED
    BY <2>1, <2>2, <2>3, ContinueInv DEF Inv, ControllerPC
<1>5. CASE StopDeinit(c)
  BY <1>5, DeinitInv, Apart DEF StopDeinit
<1>6. CASE StopClear(c)
  <2>1. Control'
    BY <1>6, ClearControl DEF Inv
  <2>2. /\ ~Deiniting(c) /\ ~Replacing(c) /\ Goto(c, returnTo[c])
        /\ returnTo[c] \in ControllerPC
    BY <1>6 DEF StopClear, At, Deiniting, Replacing, Inv, Control,
                ControlTypes, ControllerPC
  <2>3. UNCHANGED <<returnTo, exiting, driver, config, scan>>
    BY <1>6 DEF StopClear
  <2> QED
    BY <2>1, <2>2, <2>3, ContinueInv DEF Inv
<1> QED BY <1>1, <1>2, <1>3, <1>4, <1>5, <1>6 DEF StopSteps

LEMMA StartInv ==
    ASSUME Inv, NEW c \in Controller, StartSkipped(c) \/ StartCreates(c)
    PROVE  Inv'
<1>1. CASE StartSkipped(c)
  <2>1. Acting(c) /\ ~Deiniting(c) /\ ~Replacing(c) /\ Goto(c, "idle")
    BY <1>1 DEF StartSkipped, At, Acting, Deiniting, Replacing
  <2>2. UNCHANGED <<returnTo, flags, driver, config, scan>>
    BY <1>1 DEF StartSkipped
  <2>3. Control'
    BY <2>1, <2>2, ContinueControl DEF Inv, ControllerPC, flags
  <2> QED
    BY <2>1, <2>2, <2>3, ContinueInv DEF Inv, ControllerPC, flags
<1>2. CASE StartCreates(c)
  BY <1>2, CreateControl, CreateDriver, CreateSettings DEF Inv, StartCreates
<1> QED BY <1>1, <1>2

(* An engine thread that only moves.                                       *)
LEMMA RunInv ==
    ASSUME Inv, NEW t \in Thread,
           \/ Announce(t) \/ ResetExiting(t) \/ LoopEnds(t) \/ ThreadClear(t)
    PROVE  Inv'
<1> PICK label \in {"unexit", "reset", "deinit", "dead"} :
        /\ Goto(t, label)
        /\ label = "unexit" => pc[t] = "announce"
        /\ label = "reset" => pc[t] = "unexit"
        /\ label = "deinit" => pc[t] = "loop"
        /\ label = "dead" => pc[t] = "clear"
  BY DEF Announce, ResetExiting, LoopEnds, ThreadClear, At
<1>1. UNCHANGED <<returnTo, driver, config, scan>> /\ exiting' \in BOOLEAN
  BY DEF Announce, ResetExiting, LoopEnds, ThreadClear, flags, Inv
<1>2. Moves(t, label) /\ label \in ThreadPC
  BY GotoMoves, Apart DEF Inv, Control, ThreadPC
<1>3. Control'
  <2>1. CASE Announce(t)
    BY <2>1, AnnounceControl DEF Inv
  <2>2. CASE ThreadClear(t)
    BY <2>2, DeadControl DEF Inv
  <2>3. CASE ResetExiting(t) \/ LoopEnds(t)
    <3>1. /\ label \in {"reset", "deinit"}
          /\ UNCHANGED <<engine_running, hThread>>
      BY <2>3, <1>2 DEF ResetExiting, LoopEnds, flags, Goto, Inv, Control,
                        ControlTypes, Moves
    <3>2. Announced(t) /\ (Starting(t)' => Starting(t))
      BY <1>2, <3>1 DEF Announced, Starting, Moves
    <3> QED BY <1>1, <3>1, <3>2, RunControl DEF Inv
  <2> QED BY <2>1, <2>2, <2>3
<1>4. ~Deiniting(t)
  BY DEF Deiniting
<1>5. Stage(t)'
  <2>1. Stage(t) /\ UNCHANGED <<handle, filters, filter_num>>
    BY <1>1 DEF Inv, Driver, driver
  <2>2. /\ NothingOpened(t)' <=> NothingOpened(t)
        /\ AllClosed(t)' <=> AllClosed(t)
        /\ OpenedBy(t)' = OpenedBy(t)
    BY <2>1 DEF NothingOpened, AllClosed, OpenedBy
  <2> QED BY <1>2, <2>1, <2>2 DEF Stage, Moves
<1>6. Driver'
  BY <1>1, <1>2, <1>4, <1>5, MoveDriver, Apart DEF Inv
<1>7. (HasLoaded(t)' => HasLoaded(t)) /\ ~HasLists(t)'
  BY <1>2 DEF HasLoaded, HasLists, Moves
<1>8. Settings'
  BY <1>1, <1>2, <1>7, RunSettings DEF Inv
<1> QED BY <1>1, <1>3, <1>6, <1>8 DEF Inv

LEMMA EngineInv ==
    ASSUME Inv, NEW t \in Thread, Engine(t)
    PROVE  Inv'
<1>1. CASE ReadConfig(t)
  <2>1. /\ Goto(t, "announce") /\ pc[t] = "config"
        /\ UNCHANGED <<flags, driver, scan>>
    BY <1>1 DEF ReadConfig, At
  <2>2. Moves(t, "announce")
    BY <2>1, GotoMoves, Apart DEF Inv, Control, ThreadPC
  <2>3. Stage(t)'
    BY <2>1, <2>2 DEF Inv, Driver, driver, Stage, Moves, NothingOpened
  <2>4. Driver'
    BY <2>1, <2>2, <2>3, MoveDriver, Apart DEF Inv, ThreadPC, Deiniting
  <2> QED
    BY <1>1, <2>1, <2>4, ReadControl, ReadSettings DEF Inv, flags
<1>2. CASE Announce(t) \/ ResetExiting(t) \/ LoopEnds(t) \/ ThreadClear(t)
  BY <1>2, RunInv
<1>3. CASE ResetDeinit(t) \/ LoopDeinit(t)
  BY <1>3, DeinitInv, Apart DEF ResetDeinit, LoopDeinit
<1>4. CASE ResetWipe(t)
  <2>1. /\ Goto(t, "lists") /\ pc[t] = "wipe" /\ UNCHANGED <<returnTo, flags>>
    BY <1>4 DEF ResetWipe, At
  <2>2. Announced(t) /\ Starting(t)
    BY <2>1 DEF Announced, Starting
  <2> QED
    BY <1>4, <2>1, <2>2, RunControl, WipeDriver, WipeSettings DEF Inv, flags
<1>5. CASE LoadLists(t)
  <2>1. /\ Goto(t, "open") /\ pc[t] = "lists"
        /\ UNCHANGED <<returnTo, flags, driver, scan>>
    BY <1>5 DEF LoadLists, At
  <2>2. Announced(t) /\ Starting(t) /\ ~Deiniting(t)
    BY <2>1 DEF Announced, Starting, Deiniting
  <2>3. Moves(t, "open")
    BY <2>1, GotoMoves, Apart DEF Inv, Control, ThreadPC
  <2>4. NothingOpened(t) /\ TableEmpty /\ filter_num = 0
    BY <2>1 DEF Inv, Driver, Stage
  <2>5. Stage(t)'
    BY <2>1, <2>3, <2>4, LifecycleAssumption
    DEF driver, Stage, Moves, NothingOpened, TableEmpty, Slot
  <2>6. Driver'
    BY <2>1, <2>2, <2>3, <2>5, MoveDriver, Apart DEF Inv, ThreadPC
  <2> QED
    BY <1>5, <2>1, <2>2, <2>6, RunControl, ListsSettings DEF Inv, flags
<1>6. CASE OpenFilter(t)
  <2> PICK label \in {"loop", "open"} : Goto(t, label)
    BY <1>6 DEF OpenFilter
  <2>1. /\ pc[t] = "open" /\ UNCHANGED <<returnTo, flags, config>>
    BY <1>6 DEF OpenFilter, At
  <2>2. Announced(t) /\ Starting(t) /\ HasLoaded(t) /\ HasLists(t)
    BY <2>1 DEF Announced, Starting, HasLoaded, HasLists
  <2>3. Moves(t, label)
    BY GotoMoves, Apart DEF Inv, Control, ThreadPC
  <2>4. Control'
    BY <2>1, <2>2, RunControl DEF Inv, flags
  <2>5. Settings'
    BY <2>1, <2>2, <2>3, RunSettings DEF Inv
  <2> QED
    BY <1>6, <2>1, <2>4, <2>5, OpenDriver DEF Inv, flags
<1>7. CASE OpenFails(t)
  <2>1. /\ Goto(t, "clear") /\ pc[t] = "open"
        /\ UNCHANGED <<returnTo, flags, config>>
    BY <1>7 DEF OpenFails, At
  <2>2. Announced(t) /\ Starting(t) /\ HasLoaded(t) /\ HasLists(t)
    BY <2>1 DEF Announced, Starting, HasLoaded, HasLists
  <2>3. Moves(t, "clear")
    BY <2>1, GotoMoves, Apart DEF Inv, Control, ThreadPC
  <2>4. Control'
    BY <2>1, <2>2, RunControl DEF Inv, flags
  <2>5. Settings'
    BY <2>1, <2>2, <2>3, RunSettings DEF Inv
  <2> QED
    BY <1>7, <2>1, <2>4, <2>5, FailDriver DEF Inv, flags
<1> QED BY <1>1, <1>2, <1>3, <1>4, <1>5, <1>6, <1>7 DEF Engine

LEMMA NextInv == Inv /\ [PacedNext]_vars => Inv'
<1> SUFFICES ASSUME Inv, [PacedNext]_vars PROVE Inv'
  OBVIOUS
<1>1. CASE \E c \in Controller : Unhurried /\ Act(c)
  BY <1>1, ActsInv
<1>2. CASE \E c \in Controller : StopSteps(c)
  BY <1>2, StopInv
<1>3. CASE \E c \in Controller : StartSkipped(c) \/ StartCreates(c)
  BY <1>3, StartInv
<1>4. CASE \E c \in Controller : ProcessEnds(c)
  BY <1>4, EndsInv
<1>5. CASE \E t \in Thread : Engine(t)
  BY <1>5, EngineInv
<1>6. CASE \E p \in Process : DeinitNull(p)
  BY <1>6, NullInv
<1>7. CASE UNCHANGED vars
  <2>1. UNCHANGED <<pc, returnTo, flags, driver, config, scan>>
    BY <1>7 DEF vars, flags, driver, config, lists, scan
  <2>2. Control'
    BY <2>1, ControlStutters DEF Inv, flags
  <2>3. Driver'
    BY <2>1 DEF Inv, Driver, DriverTypes, ScanPlaced, TableOnce, TableHeld,
                NoDoubleClose, NoLeak, Stage, NothingOpened, AllClosed,
                TableEmpty, OpenedBy, Deiniting, driver, scan
  <2>4. Settings'
    BY <2>1 DEF Inv, Settings, SettingTypes, UpToDate, ListsUpToDate, At,
                HasLoaded, HasLists, Replacing, HostsFor, config, lists
  <2> QED BY <2>1, <2>2, <2>3, <2>4 DEF Inv, flags
<1> QED
  BY <1>1, <1>2, <1>3, <1>4, <1>5, <1>6, <1>7 DEF PacedNext, Proceed

LEMMA Invariance == PacedSpec => []Inv
<1>1. Inv /\ [PacedNext]_vars => Inv'
  BY NextInv
<1> QED BY <1>1, InitInv, PTL DEF PacedSpec

-----------------------------------------------------------------------------
(* A stop request is heeded.                                               *)

(* hThread never names a thread that did not begin.                        *)
Created == \A t \in Thread : t = hThread => pc[t] # "none"

Looping(t) == pc[t] = "loop"

(* The handle the loop receives from is one that shutdown_hayalet reaches. *)
Reachable ==
    (\E t \in Thread : Looping(t)) => \E i \in 1..filter_num : filters[i] = w_filter

Requested ==
    (\E t \in Thread : Looping(t)) =>
        /\ (\E c \in Controller : pc[c] \in {"shutdown", "wait"}) => exiting
        /\ (\E c \in Controller : pc[c] = "wait") => ~IsOpen(w_filter)

Heeded == Created /\ Reachable /\ Requested

(* Steps that neither touch the table nor bring anyone to where it counts. *)
LEMMA QuietHeeded ==
    ASSUME Inv, Heeded,
           UNCHANGED <<filters, filter_num, w_filter>>,
           exiting' = exiting,
           \A h \in Handle : handle'[h] = "open" => handle[h] = "open",
           \A t \in Thread : /\ pc'[t] = "loop" => pc[t] = "loop"
                             /\ pc'[t] = "none" => pc[t] = "none",
           \A c \in Controller : pc'[c] \in {"shutdown", "wait"} => pc'[c] = pc[c],
           hThread' = hThread \/ hThread' = NoThread
    PROVE  Heeded'
<1>1. Created'
  BY LifecycleAssumption DEF Heeded, Created
<1>2. Reachable'
  BY DEF Heeded, Reachable, Looping
<1>3. IsOpen(w_filter)' => IsOpen(w_filter)
  BY DEF IsOpen, Inv, Driver, DriverTypes
<1>4. Requested'
  BY <1>3 DEF Heeded, Requested, Looping
<1> QED BY <1>1, <1>2, <1>4 DEF Heeded

LEMMA NobodyLoops ==
    ASSUME Created', \A t \in Thread : pc'[t] # "loop"
    PROVE  Heeded'
BY DEF Heeded, Reachable, Requested, Looping

LEMMA OthersRest ==
    ASSUME Inv, NEW t \in Thread, Alive(t)
    PROVE  \A u \in Thread \ {t} : pc[u] \in {"none", "dead"}
BY DEF Inv, Control, HandleKept, Alive

LEMMA ControllerHeeded ==
    ASSUME Inv, Heeded, NEW c \in Controller,
           \/ Act(c)
           \/ StopGuard(c) \/ StopWait(c) \/ StopClear(c) \/ StartSkipped(c)
    PROVE  Heeded'
<1>1. PICK label \in {"guard", "start", "exit", "deinit", "idle", "end"} :
          Goto(c, label)
  <2>1. returnTo[c] \in {"idle", "start", "end"}
    BY DEF Inv, Control, ControlTypes
  <2> QED
    BY <2>1 DEF Act, Toggle, Restart, StartOnTimer, SaveConfig, SaveList,
                Exit, StopGuard, StopWait, CloseThread, StopClear, StartSkipped
<1>2. Moves(c, label)
  BY <1>1, GotoMoves, Apart DEF Inv, Control, ControllerPC
<1>3. /\ UNCHANGED <<filters, filter_num, w_filter, handle, exiting>>
      /\ hThread' = hThread \/ hThread' = NoThread
  BY DEF Act, Toggle, Restart, StartOnTimer, SaveConfig, SaveList, Exit,
         StopGuard, StopWait, CloseThread, StopClear, StartSkipped, flags,
         driver
<1>4. \A t \in Thread : pc'[t] = pc[t]
  BY <1>2, Apart DEF Moves
<1>5. \A d \in Controller : pc'[d] \in {"shutdown", "wait"} => pc'[d] = pc[d]
  BY <1>2, Apart DEF Moves
<1> QED BY <1>3, <1>4, <1>5, QuietHeeded

LEMMA ExitHeeded ==
    ASSUME Inv, Heeded, NEW c \in Controller, StopExit(c)
    PROVE  Heeded'
<1>1. Moves(c, "shutdown") /\ pc[c] = "exit"
  BY GotoMoves, Apart DEF StopExit, At, Inv, Control, ControllerPC
<1>2. /\ UNCHANGED <<filters, filter_num, w_filter, handle, hThread>>
      /\ exiting' = TRUE
  BY DEF StopExit, driver
<1>3. \A t \in Thread : pc'[t] = pc[t]
  BY <1>1, Apart DEF Moves
<1>4. \A d \in Controller : pc'[d] # "wait"
  BY <1>1, Apart DEF Moves, Inv, Control, OneActs, Acting
<1> QED
  BY <1>2, <1>3, <1>4 DEF Heeded, Created, Reachable, Requested, Looping

LEMMA ShutdownHeeded ==
    ASSUME Inv, Heeded, NEW c \in Controller, StopShutdown(c)
    PROVE  Heeded'
<1>1. Moves(c, "wait") /\ pc[c] = "shutdown"
  BY GotoMoves, Apart DEF StopShutdown, At, Inv, Control, ControllerPC
<1>2. UNCHANGED <<filters, filter_num, w_filter, hThread, exiting>>
  BY DEF StopShutdown, flags
<1>3. \A t \in Thread : pc'[t] = pc[t]
  BY <1>1, Apart DEF Moves
<1>4. Created' /\ Reachable'
  BY <1>2, <1>3 DEF Heeded, Created, Reachable, Looping
<1>5. ASSUME NEW t \in Thread, Looping(t)' PROVE exiting' /\ ~IsOpen(w_filter)'
  <2>1. Looping(t)
    BY <1>3, <1>5 DEF Looping
  <2>2. exiting
    BY <1>1, <2>1 DEF Heeded, Requested
  <2>3. PICK i \in 1..filter_num : filters[i] = w_filter
    BY <2>1 DEF Heeded, Reachable
  <2>4. w_filter \in Handle => handle'[w_filter] # "open"
    BY <2>3 DEF StopShutdown
  <2>5. w_filter \in Handle \cup {NoHandle}
    BY DEF Inv, Driver, DriverTypes
  <2> QED BY <1>2, <2>2, <2>4, <2>5 DEF IsOpen
<1>6. Requested'
  BY <1>5 DEF Requested
<1> QED BY <1>4, <1>6 DEF Heeded

(* deinit_all runs in one process, and no thread is in its loop then.      *)
LEMMA DeinitNobodyLoops ==
    ASSUME Inv, NEW p \in Process, Deiniting(p)
    PROVE  \A t \in Thread : ~Looping(t)
<1> SUFFICES ASSUME NEW t \in Thread, Looping(t) PROVE FALSE
  OBVIOUS
<1>1. Alive(t) /\ t # p
  BY DEF Looping, Alive, Deiniting
<1>2. CASE p \in Thread
  BY <1>1, <1>2, OthersRest DEF Deiniting
<1>3. CASE p \in Controller
  <2>1. pc[p] = "deinit"
    BY <1>3 DEF Deiniting, Inv, Control, ControlTypes, ControllerPC
  <2> QED BY <1>1, <1>3, <2>1 DEF Inv, Control, StoppedFirst
<1> QED BY <1>2, <1>3 DEF Process

LEMMA DeinitHeeded ==
    ASSUME Inv, Heeded, NEW p \in Process,
           \/ deinit_all(p, "deinit", "clear")
           \/ p \in Thread /\ deinit_all(p, "reset", "wipe")
           \/ DeinitNull(p)
    PROVE  Heeded'
<1>1. Deiniting(p)
  <2>1. CASE DeinitNull(p)
    BY <2>1 DEF DeinitNull, Inv, Driver, ScanPlaced
  <2> QED
    BY <2>1 DEF deinit_all, DeinitSkip, DeinitClose, DeinitDone, At, Deiniting
<1>2. \A t \in Thread : pc[t] # "loop"
  BY <1>1, DeinitNobodyLoops DEF Looping
<1>3. /\ hThread' = hThread
      /\ pc' = pc \/ Goto(p, "clear") \/ Goto(p, "wipe")
  BY DEF deinit_all, DeinitSkip, DeinitClose, DeinitDone, DeinitNull, flags
<1>4. pc' = pc \/ Moves(p, "clear") \/ Moves(p, "wipe")
  BY <1>3, GotoMoves DEF Inv, Control, ControllerPC, ThreadPC
<1>5. \A t \in Thread : pc'[t] # "loop" /\ (pc'[t] = "none" => pc[t] = "none")
  BY <1>2, <1>4, Apart DEF Moves
<1>6. Created'
  BY <1>3, <1>5 DEF Heeded, Created
<1> QED BY <1>5, <1>6, NobodyLoops

LEMMA CreateHeeded ==
    ASSUME Inv, Heeded, NEW c \in Controller, StartCreates(c)
    PROVE  Heeded'
<1> PICK t \in Thread :
        /\ hThread' = t
        /\ pc' = [pc EXCEPT ![c] = "idle", ![t] = "config"]
  BY DEF StartCreates
<1>1. ~engine_running /\ Acting(c)
  BY DEF StartCreates, At, Acting
<1>2. \A u \in Thread : ~Alive(u)
  BY <1>1, NoneAlive DEF Inv
<1>3. pc'[t] = "config" /\ \A u \in Thread \ {t} : pc'[u] = pc[u]
  BY Apart DEF Inv, Control, ControlTypes
<1>4. Created' /\ \A u \in Thread : pc'[u] # "loop"
  BY <1>2, <1>3 DEF Created, Alive
<1> QED BY <1>4, NobodyLoops

(* Engine threads: while one starts, no controller acts.                   *)
LEMMA EngineHeeded ==
    ASSUME Inv, Heeded, NEW t \in Thread, Engine(t)
    PROVE  Heeded'
<1>1. CASE ResetDeinit(t) \/ LoopDeinit(t)
  BY <1>1, DeinitHeeded, Apart DEF ResetDeinit, LoopDeinit
<1>2. CASE OpenFilter(t)
  <2> DEFINE k == filter_num + 1
             last == k = NumFilters
  <2>1. pc[t] = "open"
    BY <1>2 DEF OpenFilter, At
  <2>2. /\ k \in Slot /\ filter_num \in Nat
        /\ Cardinality(OpenedBy(t)) = filter_num /\ NextSlot(t) = k
    <3>1. filter_num \in Nat
      BY LifecycleAssumption DEF Inv, Driver, DriverTypes
    <3> QED BY <2>1, <3>1, NextIsNext DEF Inv
  <2>3. /\ filters' = [filters EXCEPT ![k] = <<t, k>>]
        /\ filter_num' = k
        /\ w_filter' = IF last THEN <<t, k>> ELSE w_filter
        /\ Goto(t, IF last THEN "loop" ELSE "open")
        /\ hThread' = hThread
    BY <1>2, <2>2 DEF OpenFilter, flags
  <2>4. Moves(t, IF last THEN "loop" ELSE "open")
    BY <2>3, GotoMoves, Apart DEF Inv, Control, ThreadPC
  <2>5. Alive(t) /\ Starting(t)
    BY <2>1 DEF Alive, Starting
  <2>6. Created'
    BY <2>3, <2>4, Apart DEF Heeded, Created, Moves
  <2>7. CASE last
    <3>1. filters'[k] = <<t, k>> /\ w_filter' = <<t, k>> /\ k \in 1..filter_num'
      BY <2>2, <2>3, <2>7 DEF Inv, Driver, DriverTypes, Slot
    <3>2. Reachable'
      BY <3>1 DEF Reachable
    <3>3. \A c \in Controller : pc'[c] = "idle"
      BY <2>4, <2>5, Apart DEF Moves, Inv, Control, StartsAlone, Acting
    <3>4. Requested'
      BY <3>3 DEF Requested
    <3> QED BY <2>6, <3>2, <3>4 DEF Heeded
  <2>8. CASE ~last
    <3>1. \A u \in Thread : pc'[u] # "loop"
      BY <2>4, <2>5, <2>8, OthersRest, Apart DEF Moves
    <3> QED BY <2>6, <3>1, NobodyLoops
  <2> QED BY <2>7, <2>8
<1>3. CASE ResetExiting(t) \/ ResetWipe(t) \/ OpenFails(t)
  <2>1. PICK label \in {"reset", "lists", "clear"} :
            Goto(t, label) /\ hThread' = hThread /\ Alive(t)
    BY <1>3 DEF ResetExiting, ResetWipe, OpenFails, flags, At, Alive
  <2>2. Moves(t, label)
    BY <2>1, GotoMoves, Apart DEF Inv, Control, ThreadPC
  <2>3. \A u \in Thread : pc'[u] # "loop" /\ (pc'[u] = "none" => pc[u] = "none")
    BY <2>1, <2>2, OthersRest, Apart DEF Moves
  <2>4. Created'
    BY <2>1, <2>3 DEF Heeded, Created
  <2> QED BY <2>3, <2>4, NobodyLoops
<1>4. CASE ReadConfig(t) \/ Announce(t) \/ LoadLists(t) \/ LoopEnds(t)
              \/ ThreadClear(t)
  <2>1. PICK label \in {"announce", "unexit", "open", "deinit", "dead"} :
            Goto(t, label)
    BY <1>4 DEF ReadConfig, Announce, LoadLists, LoopEnds, ThreadClear
  <2>2. Moves(t, label)
    BY <2>1, GotoMoves, Apart DEF Inv, Control, ThreadPC
  <2>3. UNCHANGED <<filters, filter_num, w_filter, handle, exiting, hThread>>
    BY <1>4 DEF ReadConfig, Announce, LoadLists, LoopEnds, ThreadClear, flags,
                driver
  <2>4. /\ \A c \in Controller : pc'[c] = pc[c]
        /\ \A u \in Thread : /\ pc'[u] = "loop" => pc[u] = "loop"
                             /\ pc'[u] = "none" => pc[u] = "none"
    BY <2>2, Apart DEF Moves
  <2> QED BY <2>3, <2>4, QuietHeeded
<1> QED BY <1>1, <1>2, <1>3, <1>4 DEF Engine

LEMMA FirstHeeded == Init => Heeded
<1> SUFFICES ASSUME Init PROVE Heeded
  OBVIOUS
<1>1. \A t \in Thread : pc[t] = "none" /\ t # hThread
  BY Apart, LifecycleAssumption DEF Init, IdleAll
<1> QED BY <1>1 DEF Heeded, Created, Reachable, Requested, Looping

LEMMA FirstHeededNext == Init' => Heeded'
BY FirstHeeded, PTL

LEMMA NextHeeded ==
    ASSUME Inv, Heeded, [PacedNext]_vars
    PROVE  Heeded'
<1>1. CASE \E c \in Controller :
              \/ Act(c)
              \/ StopGuard(c) \/ StopWait(c) \/ StopClear(c) \/ StartSkipped(c)
  BY <1>1, ControllerHeeded
<1>2. CASE \E c \in Controller :
              StopExit(c) \/ StopShutdown(c) \/ StopDeinit(c)
  BY <1>2, ExitHeeded, ShutdownHeeded, DeinitHeeded, Apart DEF StopDeinit
<1>3. CASE \E c \in Controller : StartCreates(c)
  BY <1>3, CreateHeeded
<1>4. CASE \E c \in Controller : ProcessEnds(c)
  <2>1. Init'
    BY <1>4 DEF ProcessEnds, Init, Inv, Settings, SettingTypes
  <2> QED BY <2>1, FirstHeededNext
<1>5. CASE \E t \in Thread : Engine(t)
  BY <1>5, EngineHeeded
<1>6. CASE \E p \in Process : DeinitNull(p)
  BY <1>6, DeinitHeeded
<1>7. CASE UNCHANGED vars
  BY <1>7, QuietHeeded DEF vars, flags, driver
<1> QED
  BY <1>1, <1>2, <1>3, <1>4, <1>5, <1>6, <1>7 DEF PacedNext, Proceed, StopSteps

-----------------------------------------------------------------------------
(* Refinement: the lifecycle is an engine switch.                          *)

InForceRight ==
    /\ InLoop = {} => InForce = NoThread
    /\ \A t \in InLoop : InForce = <<loaded[t], blackwhitelist>>

LEMMA InForceIs == OneEngine => InForceRight
<1> SUFFICES ASSUME OneEngine, NEW t \in InLoop
             PROVE  InForce = <<loaded[t], blackwhitelist>>
  BY DEF InForce, InForceRight
<1>1. \A u \in InLoop : u = t
  BY DEF OneEngine, InLoop, Alive, At
<1>2. (CHOOSE u \in InLoop : TRUE) \in InLoop
  OBVIOUS
<1> QED BY <1>1, <1>2 DEF InForce

LEMMA InForceIsNext == OneEngine' => InForceRight'
BY InForceIs, PTL

LEMMA InvUnique == Inv => OneEngine
BY DEF Inv, Control, HandleKept, OneEngine

LEMMA InvUniqueNext == Inv' => OneEngine'
BY InvUnique, PTL

(* What is in force changes only with the threads in the packet loop, and  *)
(* with what they read.                                                    *)
LEMMA InForceKept ==
    ASSUME Inv, Inv', InLoop' = InLoop,
           InLoop = {} \/ UNCHANGED <<loaded, blackwhitelist>>
    PROVE  InForce' = InForce
BY InvUnique, InvUniqueNext, InForceIs, InForceIsNext DEF InForceRight

LEMMA LoopKept ==
    ASSUME Inv, NEW p \in Process, NEW label \in ControllerPC \cup ThreadPC,
           Goto(p, label), p \in Thread => label # "loop" /\ pc[p] # "loop"
    PROVE  InLoop' = InLoop
<1>1. Moves(p, label)
  BY GotoMoves DEF Inv, Control
<1>2. \A t \in Thread : At(t, "loop")' <=> At(t, "loop")
  BY <1>1, Apart DEF Moves, At
<1> QED BY <1>2 DEF InLoop

(* A thread that is alive and not in its loop: no thread is.               *)
LEMMA LoopEmpty ==
    ASSUME Inv, NEW t \in Thread, Alive(t), pc[t] # "loop"
    PROVE  InLoop = {}
BY InvUnique DEF OneEngine, InLoop, At, Alive

(* Steps of deinit_all.                                                    *)
LEMMA DeinitSwitch ==
    ASSUME Inv, NEW p \in Process, NEW label \in {"reset", "deinit"},
           NEW after \in {"wipe", "clear"}, deinit_all(p, label, after)
    PROVE  InLoop' = InLoop /\ UNCHANGED config
<1>1. CASE UNCHANGED <<pc, config>>
  BY <1>1 DEF InLoop, At
<1>2. CASE DeinitDone(p, label, after)
  <2>1. Goto(p, after) /\ pc[p] = label /\ UNCHANGED config
    BY <1>2 DEF DeinitDone, At
  <2> QED BY <2>1, LoopKept DEF ControllerPC, ThreadPC
<1> QED BY <1>1, <1>2 DEF deinit_all, DeinitSkip, DeinitClose

LEMMA ControllerSwitch ==
    ASSUME Inv, NEW c \in Controller,
           Act(c) \/ StopSteps(c) \/ StartSkipped(c)
    PROVE  InLoop' = InLoop /\ UNCHANGED <<loaded, blackwhitelist>>
<1>0. c \in Process /\ c \notin Thread
  BY Apart
<1>1. CASE StopDeinit(c)
  BY <1>0, <1>1, DeinitSwitch DEF StopDeinit, config, lists
<1>2. CASE ~StopDeinit(c)
  <2>1. PICK label \in ControllerPC : Goto(c, label)
    BY <1>2 DEF Act, Toggle, Restart, StartOnTimer, SaveConfig, SaveList,
                Exit, StopSteps, StopGuard, StopExit, StopShutdown, StopWait,
                CloseThread, StopClear, StartSkipped, ControllerPC, Inv,
                Control, ControlTypes
  <2>2. UNCHANGED <<loaded, blackwhitelist>>
    BY <1>2 DEF Act, Toggle, Restart, StartOnTimer, SaveConfig, SaveList,
                Exit, StopSteps, StopGuard, StopExit, StopShutdown, StopWait,
                CloseThread, StopClear, StartSkipped, config, lists
  <2> QED BY <1>0, <2>1, <2>2, LoopKept
<1> QED BY <1>1, <1>2

LEMMA CreateSwitch ==
    ASSUME Inv, NEW c \in Controller, StartCreates(c)
    PROVE  InLoop' = InLoop /\ UNCHANGED config
<1> PICK t \in Thread :
        /\ Fresh(t)
        /\ pc' = [pc EXCEPT ![c] = "idle", ![t] = "config"]
  BY DEF StartCreates
<1>1. \A u \in Thread : At(u, "loop")' <=> At(u, "loop")
  BY Apart DEF Fresh, At, Inv, Control, ControlTypes
<1> QED BY <1>1 DEF InLoop, StartCreates

(* The first steps of an engine thread, and its last ones.                 *)
LEMMA EngineSwitchOff ==
    ASSUME Inv, NEW t \in Thread,
           \/ ReadConfig(t) \/ Announce(t) \/ ResetExiting(t)
           \/ ResetDeinit(t) \/ ResetWipe(t) \/ LoadLists(t)
           \/ OpenFails(t) \/ LoopDeinit(t) \/ ThreadClear(t)
    PROVE  InLoop' = InLoop /\ InLoop = {} /\ UNCHANGED <<saved, saved_list>>
<1>0. t \in Process
  BY Apart
<1>1. InLoop = {}
  <2>1. pc[t] \in ThreadPC \ {"none", "loop", "dead"}
    BY DEF ReadConfig, Announce, ResetExiting, ResetDeinit, ResetWipe,
           LoadLists, OpenFails, LoopDeinit, ThreadClear, deinit_all,
           DeinitSkip, DeinitClose, DeinitDone, At, ThreadPC
  <2> QED BY <2>1, LoopEmpty DEF Alive
<1>2. CASE ResetDeinit(t) \/ LoopDeinit(t)
  BY <1>0, <1>1, <1>2, DeinitSwitch DEF ResetDeinit, LoopDeinit, config, lists
<1>3. CASE ~(ResetDeinit(t) \/ LoopDeinit(t))
  <2>1. PICK label \in ThreadPC \ {"loop"} : Goto(t, label)
    BY <1>3 DEF ReadConfig, Announce, ResetExiting, ResetWipe, LoadLists,
                OpenFails, ThreadClear, ThreadPC
  <2>2. pc[t] # "loop"
    BY <1>3 DEF ReadConfig, Announce, ResetExiting, ResetWipe, LoadLists,
                OpenFails, ThreadClear, At
  <2>3. UNCHANGED <<saved, saved_list>>
    BY <1>3 DEF ReadConfig, Announce, ResetExiting, ResetWipe, LoadLists,
                OpenFails, ThreadClear, config, lists
  <2> QED BY <1>0, <1>1, <2>1, <2>2, <2>3, LoopKept
<1> QED BY <1>1, <1>2, <1>3

(* The last filter opened: the engine comes on, with what was saved last.  *)
LEMMA OpenSwitch ==
    ASSUME Inv, Inv', NEW t \in Thread, OpenFilter(t)
    PROVE  Switch!SwitchOn \/ UNCHANGED Switch!vars
<1>1. /\ pc[t] = "open"
      /\ UNCHANGED <<saved, saved_list, loaded, blackwhitelist>>
  BY DEF OpenFilter, At, config, lists
<1>2. InLoop = {} /\ InForce = NoThread
  BY <1>1, LoopEmpty, InvUnique, InForceIs DEF Alive, InForceRight
<1> PICK label \in {"loop", "open"} : Goto(t, label)
  BY DEF OpenFilter
<1>3. CASE label = "open"
  <2>1. InLoop' = InLoop
    BY <1>1, <1>3, Apart, LoopKept DEF ThreadPC
  <2> QED BY <1>1, <2>1, InForceKept DEF Switch!vars, HostsFor
<1>4. CASE label = "loop"
  <2>1. t \in InLoop'
    BY <1>4, Apart DEF InLoop, At, Goto, Inv, Control, ControlTypes
  <2>2. InForce' = <<loaded[t], blackwhitelist>>
    BY <1>1, <2>1, InvUniqueNext, InForceIsNext DEF InForceRight
  <2>3. \A c \in Controller : ~Replacing(c)
    BY <1>1 DEF Inv, Control, StartsAlone, Starting, Acting, Replacing
  <2>4. loaded[t] = saved /\ blackwhitelist = HostsFor(saved)
    BY <1>1, <2>3 DEF Inv, Settings, UpToDate, ListsUpToDate, HasLoaded,
                      HasLists
  <2> QED BY <1>1, <1>2, <2>2, <2>4 DEF Switch!SwitchOn, HostsFor
<1> QED BY <1>3, <1>4

LEMMA LeaveSwitch ==
    ASSUME Inv, Inv', NEW t \in Thread, LoopEnds(t)
    PROVE  Switch!SwitchOff \/ UNCHANGED Switch!vars
<1>1. UNCHANGED <<saved, saved_list>>
  BY DEF LoopEnds, config, lists
<1>2. Moves(t, "deinit") /\ pc[t] = "loop"
  BY GotoMoves, Apart DEF LoopEnds, At, ThreadPC, Inv, Control
<1>3. Alive(t)' /\ pc'[t] # "loop"
  BY <1>2 DEF Moves, Alive
<1>4. InLoop' = {}
  BY <1>3, InvUniqueNext DEF OneEngine, InLoop, At, Alive
<1>5. InForce' = NoThread
  BY <1>4, InvUniqueNext, InForceIsNext DEF InForceRight
<1> QED BY <1>1, <1>5 DEF Switch!SwitchOff, Switch!vars, HostsFor

LEMMA NextSwitch ==
    ASSUME Inv, Inv', [PacedNext]_vars
    PROVE  [Switch!Next]_(Switch!vars)
<1>1. ASSUME InForce' = InForce, UNCHANGED <<saved, saved_list>>
      PROVE  UNCHANGED Switch!vars
  BY <1>1 DEF Switch!vars, HostsFor
<1>2. ASSUME InForce' = InForce PROVE Switch!Save
  <2>1. saved' \in Config /\ saved_list' \in List
    BY DEF Inv, Settings, SettingTypes
  <2>2. HostsFor(saved)' \in SUBSET ((UNION List) \cup OtherList)
    BY <2>1, HostsListedNext
  <2> QED BY <1>2, <2>1, <2>2 DEF Switch!Save
<1>3. ASSUME NEW c \in Controller,
             Act(c) \/ StopSteps(c) \/ StartSkipped(c)
      PROVE  Switch!Save
  BY <1>2, <1>3, ControllerSwitch, InForceKept
<1>4. ASSUME NEW c \in Controller, StartCreates(c) PROVE UNCHANGED Switch!vars
  BY <1>1, <1>4, CreateSwitch, InForceKept DEF config, lists
<1>5. ASSUME NEW c \in Controller, ProcessEnds(c) PROVE UNCHANGED Switch!vars
  <2>1. InLoop = {}
    BY <1>5 DEF ProcessEnds, At, Inv, Control, StoppedFirst, InLoop, Alive
  <2>2. InLoop' = {}
    BY <1>5, Apart DEF ProcessEnds, IdleAll, InLoop, At
  <2> QED BY <1>1, <1>5, <2>1, <2>2, InForceKept DEF ProcessEnds
<1>6. ASSUME NEW t \in Thread, Engine(t)
      PROVE  Switch!SwitchOn \/ Switch!SwitchOff \/ UNCHANGED Switch!vars
  <2>1. CASE OpenFilter(t)
    BY <2>1, OpenSwitch
  <2>2. CASE LoopEnds(t)
    BY <2>2, LeaveSwitch
  <2>3. CASE ~OpenFilter(t) /\ ~LoopEnds(t)
    BY <1>1, <1>6, <2>3, EngineSwitchOff, InForceKept DEF Engine
  <2> QED BY <2>1, <2>2, <2>3
<1>7. ASSUME NEW p \in Process, DeinitNull(p) PROVE UNCHANGED Switch!vars
  <2>1. InLoop' = InLoop /\ UNCHANGED config
    BY <1>7 DEF DeinitNull, InLoop, At
  <2> QED BY <1>1, <2>1, InForceKept DEF config, lists
<1>8. CASE UNCHANGED vars
  <2>1. InLoop' = InLoop /\ UNCHANGED config
    BY <1>8 DEF vars, InLoop, At, config, lists
  <2> QED BY <1>1, <2>1, InForceKept DEF config, lists
<1>9. CASE PacedNext
  BY <1>9, <1>3, <1>4, <1>5, <1>6, <1>7 DEF PacedNext, Proceed, Switch!Next
<1> QED BY <1>8, <1>9

-----------------------------------------------------------------------------
(* Theorems.                                                               *)

(* Paced, every variable stays within its type.                            *)
THEOREM TypeCorrect == PacedSpec => []TypeOK
<1>1. Inv => TypeOK
  BY DEF Inv, Control, ControlTypes, Driver, DriverTypes, Settings,
         SettingTypes, TypeOK
<1> QED BY <1>1, Invariance, PTL

(* Paced, StopEngine and the engine thread, which both run deinit_all,     *)
(* close no handle twice between them, whenever the thread ends by itself. *)
THEOREM HandlesClosedOnce == PacedSpec => []NoDoubleClose
<1>1. Inv => NoDoubleClose
  BY DEF Inv, Driver
<1> QED BY <1>1, Invariance, PTL

(* Paced, a handle that is not closed is never lost from the table,        *)
(* although reset_hayalet_state wipes it: not even those of an engine whose*)
(* init failed, which the next start closes.                               *)
THEOREM HandlesKept == PacedSpec => []NoLeak
<1>1. Inv => NoLeak
  BY DEF Inv, Driver
<1> QED BY <1>1, Invariance, PTL

(* Paced, an engine that reached its packet loop leaves nothing in the     *)
(* driver, whether StopEngine ended it, it ended by itself, or both.       *)
THEOREM RunsReleased == PacedSpec => []ReleasedAfterRun
<1>1. Inv => ReleasedAfterRun
  <2> SUFFICES ASSUME Inv, AtRest, NEW t \in Thread, ~At(t, "loop"),
                      Cardinality(OpenedBy(t)) = NumFilters,
                      NEW i \in OpenedBy(t)
               PROVE  handle[<<t, i>>] = "closed"
    BY DEF ReleasedAfterRun
  <2>1. pc[t] \in {"none", "dead"} /\ Stage(t)
    BY DEF AtRest, Settled, At, Inv, Driver
  <2>2. i \in Slot /\ handle[<<t, i>>] # "none"
    BY DEF OpenedBy
  <2> QED BY <2>1, <2>2 DEF Stage, NothingOpened, AllClosed
<1> QED BY <1>1, Invariance, PTL

(* Paced, the status shown agrees with the engine once things have settled,*)
(* also when the thread ended by itself while StopEngine was on its way.   *)
THEOREM StatusIsTrue == PacedSpec => []StatusTruthful
<1>1. Inv => StatusTruthful
  <2> SUFFICES ASSUME Inv, AtRest
               PROVE  engine_running = \E t \in Thread : At(t, "loop")
    BY DEF StatusTruthful
  <2>1. \A t \in Thread : Announced(t) <=> At(t, "loop")
    BY DEF AtRest, Settled, At, Announced
  <2>2. engine_running <=> \E t \in Thread : At(t, "loop")
    BY <2>1 DEF Inv, Control, StatusExact
  <2>3. engine_running \in BOOLEAN
    BY DEF Inv, Control, ControlTypes
  <2> QED BY <2>2, <2>3
<1> QED BY <1>1, Invariance, PTL

(* Paced, a settled engine runs with the settings saved last and with      *)
(* exactly the hosts of the file those name, which by default is not the   *)
(* file the dashboard writes.                                              *)
THEOREM SavedInForce == PacedSpec => []SavedTakesEffect
<1>1. Inv => SavedTakesEffect
  <2> SUFFICES ASSUME Inv, AtRest, NEW t \in Thread, At(t, "loop")
               PROVE  loaded[t] = saved /\ blackwhitelist = HostsFor(saved)
    BY DEF SavedTakesEffect
  <2>1. \A c \in Controller : ~Replacing(c)
    BY DEF AtRest, At, Replacing
  <2>2. HasLoaded(t) /\ HasLists(t)
    BY DEF At, HasLoaded, HasLists
  <2> QED BY <2>1, <2>2 DEF Inv, Settings, UpToDate, ListsUpToDate
<1> QED BY <1>1, Invariance, PTL

(* Paced, StopEngine never waits for a thread that goes on: the one it     *)
(* waits for has left its packet loop or can no longer stay there.  Without*)
(* pacing a thread that is starting withdraws the request again.  This is  *)
(* the safety half of StopReturns; that the thread then goes is fairness.  *)
THEOREM StopsHeeded == PacedSpec => []StopHeeded
<1>1. Inv /\ Heeded /\ [PacedNext]_vars => Heeded'
  BY NextHeeded
<1>2. Inv /\ Heeded => StopHeeded
  <2> SUFFICES ASSUME Inv, Heeded, NEW c \in Controller, NEW t \in Thread,
                      At(c, "wait"), t = hThread
               PROVE  /\ pc[t] \in {"loop", "deinit", "clear", "dead"}
                      /\ At(t, "loop") => exiting /\ ~IsOpen(w_filter)
    BY DEF StopHeeded
  <2>1. ~Starting(t) /\ pc[t] # "none" /\ pc[t] \in ThreadPC
    BY DEF At, Inv, Control, ControlTypes, StartsAlone, Acting, Heeded, Created
  <2>2. pc[t] \in {"loop", "deinit", "clear", "dead"}
    BY <2>1 DEF Starting, ThreadPC
  <2>3. At(t, "loop") => exiting /\ ~IsOpen(w_filter)
    BY DEF At, Heeded, Requested, Looping
  <2> QED BY <2>2, <2>3
<1> QED BY <1>1, <1>2, FirstHeeded, Invariance, PTL DEF PacedSpec

(* Paced, and as long as no filter fails to open, an engine that is off    *)
(* holds no filter, whatever ended it.  A filter that fails to open leaves *)
(* handles behind, and so may a timeout or two engines.                    *)
THEOREM OffMeansReleased ==
    ASSUME ~InitFails PROVE PacedSpec => []ReleasedAtRest
<1>1. Inv => ReleasedAtRest
  <2> SUFFICES ASSUME Inv, AtRest, \A t \in Thread : ~At(t, "loop"),
                      NEW h \in Handle
               PROVE  handle[h] \notin {"open", "shut"}
    BY DEF ReleasedAtRest
  <2>1. PICK t \in Thread, n \in Slot : h = <<t, n>>
    BY DEF Handle
  <2>2. pc[t] \in {"none", "dead"} /\ Stage(t)
    BY DEF AtRest, Settled, At, Inv, Driver
  <2> QED BY <2>1, <2>2 DEF Stage, NothingOpened, AllClosed
<1> QED BY <1>1, Invariance, PTL

(* Paced, the lifecycle, with all its flags, handles and threads, comes on *)
(* only from off and only with the settings saved last and the hosts of the*)
(* file they name: each of its steps is one of the switch, or is not seen  *)
(* there.  That what is outdated goes out of force, the rest of            *)
(* ImplementsSwitch, is liveness.                                          *)
THEOREM StepsOfSwitch ==
    PacedSpec => Switch!Init /\ [][Switch!Next]_(Switch!vars)
<1>1. Init => Switch!Init
  <2> SUFFICES ASSUME Init PROVE Switch!Init
    OBVIOUS
  <2>1. InLoop = {}
    BY Apart DEF Init, IdleAll, InLoop, At
  <2>2. HostsFor(saved) \subseteq (UNION List) \cup OtherList
    BY HostsListed DEF Init
  <2> QED BY <2>1, <2>2 DEF Init, InForce, Switch!Init
<1>2. Inv /\ Inv' /\ [PacedNext]_vars => [Switch!Next]_(Switch!vars)
  BY NextSwitch
<1>3. PacedSpec => []Inv
  BY Invariance
<1> QED BY <1>1, <1>2, <1>3, PTL DEF PacedSpec
=============================================================================
