-------------------------------- MODULE Session --------------------------------
(***************************************************************************)
(* A session of the installer: the main thread (main.c, menu.c, UI.c), the *)
(* thread that loads the modules of the IOP (iop.c), the callback of the   *)
(* power button (poweroffCallback, system.c), and the user, who chooses,   *)
(* exchanges cards and presses the button whenever he likes.               *)
(*                                                                         *)
(* The operations themselves are one step here, "Work"; CopyFiles,         *)
(* WorkerThread, CrossLink, Secrman and Installation model their inside.   *)
(* What is modelled is what surrounds them: which operation is chosen, for *)
(* which slot, after which checks, under which lock, with which modules.   *)
(***************************************************************************)
EXTENDS Integers, Sequences, FiniteSets

CONSTANTS CardKinds,   \* "none", "ps1", "raw" (not formatted), "plain", "multi" (multi-installation)
          Consoles,    \* PS2SystemType and the disk, "none", "raw", "good" for HDDCheckStatus 3, 1, 0
          MaxSwaps,    \* how often cards are exchanged
          MaxPresses   \* how often the power button is pressed

ASSUME KindsAssumption == CardKinds \subseteq {"none", "ps1", "raw", "plain", "multi"}
ASSUME ConsolesAssumption == Consoles \subseteq {"PS2", "DEX", "PSX"} \X {"none", "raw", "good"}
ASSUME BoundsAssumption == MaxSwaps \in Nat /\ MaxPresses \in Nat

VARIABLES
  pc,         \* of the main thread; "off" when the console is
  event,      \* what it is busy with; "BOOT" before the menu
  port,       \* McPort, once a slot is chosen
  menu,       \* [page, sel]: the page shown and the id of the item selected
  flags,      \* of the last IopInitStart: "MAIN" or "MCTOOLS"
  card,       \* [Slots -> CardKinds]
  fresh,      \* slots whose card MCMAN has not reported yet
  McData,     \* [Slots -> [ps2, counted, multi]]: Type, and what the poll made of it
  type, disk, connected,   \* PS2SystemType, the hard disk, IsHDDUnitConnected
  worker,     \* does the worker thread exist?
  modules,    \* loaded on the IOP by SystemInitThread
  loading,    \* modules SystemInitThread still has to load
  registered, \* poweroffSetCallback since the last reset
  lock,       \* InstallLockSema: 0, 1, or not there
  callback,   \* the power button's thread
  unlocked,   \* did the callback pass PollSema without the semaphore?
  swaps, presses

cardVars == <<card, fresh, swaps>>
iopVars == <<flags, modules, loading, registered>>
lockVars == <<lock, callback, unlocked>>
consoleVars == <<type, disk, connected, worker>>
vars == <<pc, event, port, menu, McData, presses, cardVars, iopVars, lockVars, consoleVars>>

Slots == {0, 1}
NoSema == 2
IsPS2(k) == k \in {"raw", "plain", "multi"}

-----------------------------------------------------------------------------
(* The pages of the menu and UIExecMenu. *)
Pages == <<"Main", "Extra", "MC">>
Items == [Main  |-> <<"INST", "UINST", "EXIT">>,
          Extra |-> <<"INST_CROSS_PSX", "INST_FHDB", "UINST_FHDB", "FORMAT_HDD">>,
          MC    |-> <<"FORMAT_MC", "DUMP_MC", "REST_MC">>]
HddButtons == {"INST_FHDB", "UINST_FHDB", "FORMAT_HDD"}

\* Mutant: one of the buttons of the hard disk is forgotten.
EnabledOnce(id) ==
  /\ id = "INST_CROSS_PSX" => type = "PS2"
  /\ id \in HddButtons \ {"UINST_FHDB"} => connected

(* UISetEnabled at the start of MainMenu. *)
Enabled(id) ==
  /\ id = "INST_CROSS_PSX" => type = "PS2"
  /\ id \in HddButtons => connected

PageNumber(p) == CHOOSE n \in DOMAIN Pages : Pages[n] = p
Index(p, id) == IF \E n \in DOMAIN Items[p] : Items[p][n] = id
                THEN CHOOSE n \in DOMAIN Items[p] : Items[p][n] = id ELSE 0
Selectable(p) == {n \in DOMAIN Items[p] : Enabled(Items[p][n])}

(* UIGetNextSelectableItem, UIGetPrevSelectableItem, UIGetSelectableItem; 0 for -1. *)
NextSelectable(p, n) ==
  LET later == {m \in Selectable(p) : m > n}
  IN IF later = {} THEN 0 ELSE CHOOSE m \in later : \A l \in later : m <= l
PrevSelectable(p, n) ==
  LET before == {m \in Selectable(p) : m < n}
  IN IF before = {} THEN 0 ELSE CHOOSE m \in before : \A l \in before : l <= m
ItemAt(p, n) == IF n = 0 THEN "none" ELSE Items[p][n]
EnterPage(p) == [page |-> p, sel |-> ItemAt(p, NextSelectable(p, 0))]
Reenter(p, id) == IF Index(p, id) \in Selectable(p) THEN [page |-> p, sel |-> id] ELSE EnterPage(p)

(* Up and Down; the selection stays where there is nothing further on. *)
Move ==
  /\ pc = "menu"
  /\ \E n \in {NextSelectable(menu.page, Index(menu.page, menu.sel)),
               PrevSelectable(menu.page, Index(menu.page, menu.sel))} \ {0} :
       menu' = [menu EXCEPT !.sel = Items[menu.page][n]]
  /\ UNCHANGED <<pc, event, port, McData, presses, cardVars, iopVars, lockVars, consoleVars>>

(* R1 and L1. *)
TurnPage ==
  /\ pc = "menu"
  /\ \E n \in {PageNumber(menu.page) - 1, PageNumber(menu.page) + 1} \cap DOMAIN Pages :
       menu' = EnterPage(Pages[n])
  /\ UNCHANGED <<pc, event, port, McData, presses, cardVars, iopVars, lockVars, consoleVars>>

(* The button selected, or the Cancel button, whose result is that of EXIT. *)
Choose ==
  /\ pc = "menu"
  /\ \/ menu.sel # "none" /\ Enabled(menu.sel) /\ event' = menu.sel
     \/ event' = "EXIT"
  /\ pc' = "Poll1"
  /\ UNCHANGED <<port, menu, McData, presses, cardVars, iopVars, lockVars, consoleVars>>

-----------------------------------------------------------------------------
(* GetNumMemcardsInserted: mcGetInfo reports -2 for a card without a       *)
(* format it sees for the first time, -1 for another one it sees for the   *)
(* first time, an error where there is none, and 0 otherwise.              *)
mcGetInfo(s) ==
  IF card[s] = "none" THEN -10
  ELSE IF s \notin fresh THEN 0 ELSE IF card[s] = "raw" THEN -2 ELSE -1

\* Mutant: only a card just reported is searched for a multi-installation.
PolledWhenNew(s) ==
  LET result == mcGetInfo(s)
      counted == result >= -1 /\ IsPS2(card[s])
  IN [ps2 |-> IsPS2(card[s]), counted |-> counted,
      multi |-> IF result < 0 THEN counted /\ card[s] = "multi" ELSE McData[s].multi]

Polled(s) ==
  LET result == mcGetInfo(s)
      kept == IF result < 0 THEN FALSE ELSE McData[s].multi
      counted == result >= -1 /\ IsPS2(card[s])
  IN [ps2 |-> IsPS2(card[s]), counted |-> counted,
      multi |-> kept \/ (counted /\ card[s] = "multi")]

NumCards == Cardinality({s \in Slots : McData[s].counted})

Poll(s) ==
  /\ McData' = [McData EXCEPT ![s] = Polled(s)]
  /\ fresh' = fresh \ {s}
  /\ UNCHANGED <<event, port, menu, presses, card, swaps, iopVars, lockVars, consoleVars>>

(* A poll of the two slots, and the way each event begins. *)
CardEvents == {"INST", "UINST", "INST_CROSS_PSX", "FORMAT_MC", "DUMP_MC", "REST_MC"}
Poll1 == pc = "Poll1" /\ Poll(0) /\ pc' = "Poll2"
Poll2 ==
  /\ pc = "Poll2" /\ Poll(1)
  /\ pc' = IF event \in CardEvents THEN "Pick" ELSE IF event = "INST_FHDB" THEN "CheckFormat" ELSE "Confirm"

(* Back to UIExecMenu, with the option chosen before; the event and the    *)
(* slot of the operation are of no use any more.                           *)
Menu ==
  /\ pc' = "menu"
  /\ menu' = Reenter(menu.page, event)
  /\ event' = "none" /\ port' = 0
GoTo(p) == pc' = p /\ UNCHANGED <<menu, event, port>>

(* The slot: the user's choice between two cards, or the one there is. *)
Pick ==
  /\ pc = "Pick"
  /\ \/ NumCards # 1 /\ Menu
     \/ /\ NumCards # 0
        /\ port' \in IF NumCards = 2 THEN Slots ELSE {IF McData[0].ps2 THEN 0 ELSE 1}
        /\ pc' = "Confirm" /\ UNCHANGED <<menu, event>>
  /\ UNCHANGED <<McData, presses, cardVars, iopVars, lockVars, consoleVars>>

(* The prompts of an event. *)
Confirm ==
  /\ pc = "Confirm"
  /\ \/ event \in CardEvents /\ GoTo("Prereq")
     \/ event = "INST_FHDB" /\ GoTo("Config")
     \/ event = "UINST_FHDB" /\ GoTo("Lock")
     \/ event = "FORMAT_HDD" /\ GoTo("FormatHDD")
     \/ event = "EXIT" /\ GoTo("StopWorker")
     \/ Menu
  /\ UNCHANGED <<McData, presses, cardVars, iopVars, lockVars, consoleVars>>

(* CheckPrerequisites: the table has a place for every event, in the order *)
(* of their numbers, and initialises the first eight.                      *)
Events == <<"INST", "MI", "UINST", "DOWNGRADE_MI", "FORMAT_MC", "DUMP_MC", "REST_MC",
            "INST_FHDB", "UINST_FHDB", "INST_CROSS_PSX", "FORMAT_HDD", "EXIT">>
OpModeFlags(e) ==
  LET n == CHOOSE k \in DOMAIN Events : Events[k] = e
  IN IF n \in 1 .. 3 THEN "no multi" ELSE IF n = 4 THEN "must have multi" ELSE "any"

Refused ==
  \/ OpModeFlags(event) = "no multi" /\ McData[port].multi
  \/ OpModeFlags(event) = "must have multi" /\ ~McData[port].multi
Prereq ==
  /\ pc = "Prereq"
  /\ \/ Refused /\ Menu
     \/ /\ ~Refused
        /\ \/ event \in {"INST", "INST_CROSS_PSX"} /\ GoTo("Config")
           \/ event = "UINST" /\ GoTo("CleanupMC")
           \/ event = "FORMAT_MC" /\ GoTo("FormatMC")
           \/ event \in {"DUMP_MC", "REST_MC"} /\ GoTo("Reset")
  /\ flags' = IF pc' = "Reset" THEN "MCTOOLS" ELSE flags
  /\ UNCHANGED <<McData, presses, cardVars, modules, loading, registered, lockVars, consoleVars>>

(* The question about a configuration file that is there; Back is a no. *)
Config ==
  /\ pc = "Config"
  /\ GoTo("Lock") \/ Menu
  /\ UNCHANGED <<McData, presses, cardVars, iopVars, lockVars, consoleVars>>

(* HDDCheckSMARTStatus, CheckFormat and the checks after it.  A format     *)
(* that failed is reported and the installation goes on.                   *)
HddUsable == "HDD" \in modules /\ disk # "none"
CheckFormat ==
  /\ pc = "CheckFormat"
  /\ \/ HddUsable /\ disk = "good" /\ GoTo("Confirm") /\ UNCHANGED disk
     \/ HddUsable /\ disk = "raw" /\ disk' \in {"raw", "good"} /\ GoTo("Confirm")
     \/ Menu /\ UNCHANGED disk
  /\ UNCHANGED <<McData, presses, cardVars, iopVars, lockVars, type, connected, worker>>

FormatHDD ==
  /\ pc = "FormatHDD"
  /\ \/ HddUsable /\ disk' = "good"
     \/ UNCHANGED disk
  /\ Menu
  /\ UNCHANGED <<McData, presses, cardVars, iopVars, lockVars, type, connected, worker>>

(* mcFormat; the flags are cleared when it succeeds. *)
FormatMC ==
  /\ pc = "FormatMC"
  /\ \/ /\ IsPS2(card[port])
        /\ card' = [card EXCEPT ![port] = "plain"]
        /\ McData' = [McData EXCEPT ![port].multi = FALSE]
     \/ UNCHANGED <<card, McData>>
  /\ Menu
  /\ UNCHANGED <<presses, fresh, swaps, iopVars, lockVars, consoleVars>>

(* CleanupTarget, which takes no lock. *)
CleanupMC ==
  /\ pc = "CleanupMC" /\ Menu
  /\ UNCHANGED <<McData, presses, cardVars, iopVars, lockVars, consoleVars>>

-----------------------------------------------------------------------------
(* IopInitStart with IOP_REBOOT: everything on the IOP is gone, MCMAN's    *)
(* memory of the cards and the calls of the callback that were under way   *)
(* included, which then never return.                                      *)
Calling == {"closing", "dev9", "stopping"}
Reset ==
  /\ pc = "Reset" /\ GoTo("Register")
  /\ modules' = {} /\ loading' = {} /\ registered' = FALSE
  /\ fresh' = Slots
  /\ callback' = IF callback \in Calling THEN "dead" ELSE callback
  /\ UNCHANGED <<McData, presses, card, swaps, flags, lock, unlocked, consoleVars>>

(* The rest of IopInitStart: SystemInitThread begins, the callback is set. *)
Sets == [MAIN |-> {"HDD", "SECRSIF"}, MCTOOLS |-> {"MCTOOLS"}]
Register ==
  /\ pc = "Register"
  /\ registered' = TRUE /\ loading' = Sets[flags]
  /\ GoTo(IF event = "BOOT" THEN "CreateLock" ELSE "WaitInit")
  /\ UNCHANGED <<McData, presses, cardVars, flags, modules, lockVars, consoleVars>>

(* SystemInitThread. *)
Load ==
  /\ registered /\ loading # {}
  /\ \E m \in loading : modules' = modules \cup {m} /\ loading' = loading \ {m}
  /\ UNCHANGED <<pc, event, port, menu, McData, presses, cardVars, flags, registered, lockVars, consoleVars>>

\* Mutant: the memory card tools are used before they are loaded.
WaitInitNot ==
  /\ pc = "WaitInit"
  /\ IF event = "BOOT" THEN GoTo("StartWorker")
     ELSE IF flags = "MCTOOLS" THEN GoTo("MCInfo")
     ELSE Menu
  /\ UNCHANGED <<McData, presses, cardVars, iopVars, lockVars, consoleVars>>

(* WaitSema(InitSemaID), signalled at the end of SystemInitThread. *)
WaitInit ==
  /\ pc = "WaitInit" /\ loading = {}
  /\ IF event = "BOOT" THEN GoTo("StartWorker")
     ELSE IF flags = "MCTOOLS" THEN GoTo("MCInfo")
     ELSE Menu
  /\ UNCHANGED <<McData, presses, cardVars, iopVars, lockVars, consoleVars>>

(* main: the lock is made after the callback is set; whether there is a    *)
(* worker thread is not looked at.                                         *)
CreateLock ==
  /\ pc = "CreateLock" /\ GoTo("WaitInit")
  /\ lock' = 1
  /\ UNCHANGED <<McData, presses, cardVars, iopVars, callback, unlocked, consoleVars>>

StartWorker ==
  /\ pc = "StartWorker"
  /\ worker' \in BOOLEAN
  /\ connected' = (type \in {"PS2", "DEX"} /\ disk # "none")
  /\ pc' = "menu" /\ menu' = EnterPage("Main") /\ event' = "none"
  /\ UNCHANGED <<port, McData, presses, cardVars, iopVars, lockVars, type, disk>>

\* Mutant: the lock is taken before the checks that return early.
MCInfoLocked ==
  /\ pc = "MCInfo" /\ lock = 1
  /\ lock' = 0 /\ fresh' = fresh \ {port}
  /\ IF mcGetInfo(port) >= -1 /\ IsPS2(card[port]) THEN GoTo("Spec") ELSE Menu
  /\ UNCHANGED <<McData, presses, card, swaps, iopVars, callback, unlocked, consoleVars>>

(* InitMCInfo and MCToolsGetMCInfo: an error of either leaves at once. *)
MCInfo ==
  /\ pc = "MCInfo"
  /\ fresh' = fresh \ {port}
  /\ IF mcGetInfo(port) >= -1 /\ IsPS2(card[port]) THEN GoTo("Spec") ELSE Menu
  /\ UNCHANGED <<McData, presses, card, swaps, iopVars, lockVars, consoleVars>>

SpecInfo ==
  /\ pc = "Spec"
  /\ GoTo("Lock") \/ Menu
  /\ UNCHANGED <<McData, presses, cardVars, iopVars, lockVars, consoleVars>>

-----------------------------------------------------------------------------
(* WaitSema(InstallLockSema). *)
Lock ==
  /\ pc = "Lock" /\ lock = 1
  /\ lock' = 0 /\ GoTo("Work")
  /\ UNCHANGED <<McData, presses, cardVars, iopVars, callback, unlocked, consoleVars>>

(* PerformInstallation, PerformHDDInstallation, CleanupHDDTarget, and what *)
(* PerformMemoryCardDump and PerformMemoryCardRestore do under the lock.   *)
(* Without a worker thread a dump or a restore waits for ever.             *)
NeedsWorker == event \in {"DUMP_MC", "REST_MC"}
Work ==
  /\ pc = "Work" /\ GoTo("Unlock")
  /\ NeedsWorker => worker
  /\ IF event = "REST_MC" /\ IsPS2(card[port])
     THEN \E k \in {k \in CardKinds : IsPS2(k)} : card' = [card EXCEPT ![port] = k]
     ELSE UNCHANGED card
  /\ UNCHANGED <<McData, presses, fresh, swaps, iopVars, lockVars, consoleVars>>

\* Mutant: an operation returns without SignalSema.
UnlockSometimes ==
  /\ pc = "Unlock"
  /\ lock' = IF event = "UINST_FHDB" THEN 0 ELSE 1
  /\ IF NeedsWorker THEN GoTo("Reset") /\ flags' = "MAIN" ELSE Menu /\ UNCHANGED flags
  /\ UNCHANGED <<McData, presses, cardVars, modules, loading, registered,
                 callback, unlocked, consoleVars>>

(* SignalSema(InstallLockSema), and the reboot into the main set. *)
Unlock ==
  /\ pc = "Unlock"
  /\ lock' = 1
  /\ IF NeedsWorker THEN GoTo("Reset") /\ flags' = "MAIN" ELSE Menu /\ UNCHANGED flags
  /\ UNCHANGED <<McData, presses, cardVars, modules, loading, registered,
                 callback, unlocked, consoleVars>>

(* The end of main: the worker, the semaphores and the modules go. *)
StopWorker ==
  /\ pc = "StopWorker" /\ GoTo("DeleteLock")
  /\ worker' = FALSE
  /\ UNCHANGED <<McData, presses, cardVars, iopVars, lockVars, type, disk, connected>>

DeleteLock ==
  /\ pc = "DeleteLock" /\ GoTo("Deinit")
  /\ lock' = NoSema
  /\ UNCHANGED <<McData, presses, cardVars, iopVars, callback, unlocked, consoleVars>>

Deinit ==
  /\ pc = "Deinit" /\ GoTo("exited")
  /\ registered' = FALSE
  /\ callback' = IF callback \in Calling THEN "dead" ELSE callback
  /\ UNCHANGED <<McData, presses, cardVars, flags, modules, loading, lock, unlocked, consoleVars>>

-----------------------------------------------------------------------------
(* The power button reaches the program while its callback is set. *)
Press ==
  /\ registered /\ callback = "idle" /\ presses < MaxPresses
  /\ callback' = "pressed" /\ presses' = presses + 1
  /\ UNCHANGED <<pc, event, port, menu, McData, cardVars, iopVars, lock, unlocked, consoleVars>>

\* Mutant: the lock is not looked at.
PollLockNot ==
  /\ callback = "pressed" /\ callback' = "closing"
  /\ UNCHANGED <<pc, event, port, menu, McData, presses, cardVars, iopVars, lock, unlocked, consoleVars>>

(* PollSema(InstallLockSema).  Before the semaphore is made the variable   *)
(* is 0, which names whatever semaphore has that number, if there is one.  *)
(* When the IOP is being reset the first call may find nobody to call.     *)
PollLock ==
  /\ callback = "pressed"
  /\ \/ /\ lock = 1
        /\ lock' = 0
        /\ callback' \in IF registered THEN {"closing"} ELSE {"closing", "dead"}
        /\ UNCHANGED unlocked
     \/ lock # 1 /\ callback' = "idle" /\ UNCHANGED <<lock, unlocked>>
     \/ lock = NoSema /\ event = "BOOT" /\ callback' = "closing" /\ unlocked' = TRUE /\ UNCHANGED lock
  /\ UNCHANGED <<pc, event, port, menu, McData, presses, cardVars, iopVars, consoleVars>>

(* PDIOC_CLOSEALL, DDIOC_OFF until it succeeds, USBMASS_DEVCTL_STOP_ALL. *)
CallbackCalls ==
  /\ registered
  /\ \/ callback = "closing" /\ callback' = "dev9"
     \/ callback = "dev9" /\ callback' = "stopping"
  /\ UNCHANGED <<pc, event, port, menu, McData, presses, cardVars, iopVars, lock, unlocked, consoleVars>>

(* poweroffShutdown. *)
Shutdown ==
  /\ registered /\ callback = "stopping"
  /\ callback' = "done" /\ pc' = "off" /\ registered' = FALSE
  /\ UNCHANGED <<event, port, menu, McData, presses, cardVars, flags, modules, loading, lock, unlocked, consoleVars>>

(* The user exchanges or removes a card. *)
Swap(s) ==
  /\ pc # "off" /\ swaps < MaxSwaps
  /\ \E k \in CardKinds : card' = [card EXCEPT ![s] = k]
  /\ fresh' = fresh \cup {s} /\ swaps' = swaps + 1
  /\ UNCHANGED <<pc, event, port, menu, McData, presses, iopVars, lockVars, consoleVars>>

-----------------------------------------------------------------------------
Init ==
  /\ pc = "Reset" /\ event = "BOOT" /\ port = 0 /\ flags = "MAIN"
  /\ menu = [page |-> "Main", sel |-> "none"]
  /\ card \in [Slots -> CardKinds] /\ fresh = Slots /\ swaps = 0
  /\ McData = [s \in Slots |-> [ps2 |-> FALSE, counted |-> FALSE, multi |-> FALSE]]
  /\ (\E c \in Consoles : type = c[1] /\ disk = c[2]) /\ connected = FALSE /\ worker = FALSE
  /\ modules = {} /\ loading = {} /\ registered = FALSE
  /\ lock = NoSema /\ callback = "idle" /\ unlocked = FALSE /\ presses = 0

(* What the main thread does without waiting for the user. *)
MainNext ==
  \/ Poll1 \/ Poll2 \/ Prereq \/ CheckFormat \/ FormatHDD \/ FormatMC \/ CleanupMC
  \/ Reset \/ Register \/ WaitInit \/ CreateLock \/ StartWorker \/ MCInfo \/ SpecInfo
  \/ Lock \/ Work \/ Unlock \/ StopWorker \/ DeleteLock \/ Deinit
CallbackNext == PollLock \/ CallbackCalls \/ Shutdown
UserNext == Move \/ TurnPage \/ Choose \/ Pick \/ Confirm \/ Config \/ Press \/ \E s \in Slots : Swap(s)

Next == MainNext \/ Load \/ CallbackNext \/ UserNext

Spec == Init /\ [][Next]_vars
FairSpec == Spec /\ WF_vars(MainNext) /\ WF_vars(Load) /\ WF_vars(CallbackNext)

-----------------------------------------------------------------------------
(* A card whose multi-installation the menu was to detect is not installed *)
(* on or cleaned up, unless the user put it there after the poll.  Every   *)
(* poll has to find out about the card that is there then, though MCMAN    *)
(* may have told InitMCInfo of it, or a restore have changed it.           *)
NoInstallOverMulti ==
  \/ pc = "Work" /\ event = "INST"
  \/ pc = "CleanupMC"
  => port \in fresh \/ card[port] # "multi"

(* "Multi-installation detected! Please uninstall first.": no installation *)
(* is made over one, that for another console (PSX) included.              *)
MultiInstallKept ==
  pc = "Work" /\ event \in {"INST", "INST_CROSS_PSX"} => port \in fresh \/ card[port] # "multi"

(* "If no installation is in progress, begin shutdown": the callback of    *)
(* the power button is never between its first call and the power-off      *)
(* while the main thread works under the lock, unless it began before      *)
(* there was a lock.                                                       *)
InProgress == pc \in {"Work", "Unlock"}
NoCutDuringInstall ==
  InProgress => unlocked \/ callback \notin Calling

(* The same of every press.  It fails: one before the semaphore is created *)
(* polls none, and its shutdown goes on beside the menu.                   *)
NeverCut == InProgress => callback \notin Calling

(* Whatever path an operation returns by, the lock is free again: only a   *)
(* shutdown that was begun keeps it.                                       *)
LockReturned ==
  lock = 0 => InProgress \/ callback \in Calling \cup {"dead", "done"}

(* An operation finds what it needs: MCTOOLS is only called once it is     *)
(* loaded, a hard disk is only written to where there is one, and a PSX    *)
(* installation is only offered by a PS2.                                  *)
NeedsMet ==
  /\ pc = "Spec" \/ (pc = "Work" /\ NeedsWorker) => "MCTOOLS" \in modules
  /\ pc \in {"Work", "FormatHDD"} /\ event \in HddButtons => disk # "none"
  /\ pc = "Work" /\ event = "INST_CROSS_PSX" => type = "PS2"

(* "Reboot the IOP to allow the remainder of the program to continue": in  *)
(* the menu the main set of modules is loaded.                             *)
MainModulesInMenu == pc = "menu" => Sets.MAIN \subseteq modules

(* An operation that the user has confirmed returns to the menu, or the    *)
(* program exits; but for the two ways in which it waits for ever: a dump  *)
(* or a restore without a worker, and a lock taken by a shutdown that the  *)
(* reboot of the IOP, or the exit, has cut off or that ends in power off.  *)
OperationReturns ==
  pc \in {"Lock", "Reset", "Work", "StopWorker"} ~>
    \/ pc \in {"menu", "exited"}
    \/ NeedsWorker /\ ~worker
    \/ callback \in Calling \cup {"dead", "done"}

(* The same without the first of them.  It fails: that StartWorkerThread   *)
(* failed is not noticed, and the first dump sleeps for ever.              *)
WaitsForNoWorker ==
  pc \in {"Lock", "Reset", "Work", "StopWorker"} ~>
    \/ pc \in {"menu", "exited"}
    \/ callback \in Calling \cup {"dead", "done"}
=============================================================================
