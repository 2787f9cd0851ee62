----------------------------- MODULE SessionProofs -----------------------------
(***************************************************************************)
(* What keeps the power button and the operations apart, for any consoles, *)
(* cards, exchanges and presses: the lock is taken exactly while one of    *)
(* them has it, and they never have it both.  The lock does not exist at   *)
(* the start and at the end; a callback that found no lock at the start is *)
(* remembered by "unlocked" and is outside the promise.                    *)
(***************************************************************************)
EXTENDS Session, TLAPS

Begun == callback \in Calling \cup {"dead", "done"}
Holding == Begun /\ ~unlocked

(* The lock is taken by the operation or by the callback, not by both. *)
LockMeaning ==
  /\ lock \in {0, 1, NoSema}
  /\ lock # NoSema /\ pc # "off" => (lock = 0 <=> InProgress \/ Holding)
  /\ ~(InProgress /\ Holding)

(* Where the main thread is while there is no lock. *)
LockLife ==
  /\ lock = NoSema => pc \in {"Reset", "Register", "CreateLock", "Deinit", "exited", "off"}
  /\ pc \in {"Reset", "Register"} =>
       IF lock = NoSema THEN event = "BOOT" /\ ~Holding ELSE NeedsWorker
  /\ pc = "CreateLock" => lock = NoSema /\ ~Holding

CallbackLife ==
  /\ unlocked => Begun
  /\ pc = "off" => callback = "done"

IInv == LockMeaning /\ LockLife /\ CallbackLife

LEMMA InitInv == Init => IInv
  BY DEF Init, IInv, LockMeaning, LockLife, CallbackLife, Holding, Begun, Calling, InProgress, NoSema

LEMMA NextInv == IInv /\ [Next]_vars => IInv'
<1> USE DEF IInv, LockMeaning, LockLife, CallbackLife, Holding, Begun, InProgress, NoSema,
            cardVars, iopVars, lockVars, consoleVars
<1>1. ASSUME IInv, Poll1 PROVE IInv'
  BY <1>1 DEF Poll1, Poll
<1>2. ASSUME IInv, Poll2 PROVE IInv'
  BY <1>2 DEF Poll2, Poll
<1>3. ASSUME IInv, Prereq PROVE IInv'
  BY <1>3 DEF Prereq, Menu, GoTo, NeedsWorker
<1>4. ASSUME IInv, CheckFormat PROVE IInv'
  BY <1>4 DEF CheckFormat, Menu, GoTo
<1>5. ASSUME IInv, FormatHDD PROVE IInv'
  BY <1>5 DEF FormatHDD, Menu
<1>6. ASSUME IInv, FormatMC PROVE IInv'
  BY <1>6 DEF FormatMC, Menu
<1>7. ASSUME IInv, CleanupMC PROVE IInv'
  BY <1>7 DEF CleanupMC, Menu
<1>8. ASSUME IInv, Reset PROVE IInv'
  BY <1>8 DEF Reset, GoTo, NeedsWorker, Calling
<1>9. ASSUME IInv, Register PROVE IInv'
  BY <1>9 DEF Register, GoTo, NeedsWorker
<1>10. ASSUME IInv, WaitInit PROVE IInv'
  BY <1>10 DEF WaitInit, Menu, GoTo
<1>11. ASSUME IInv, CreateLock PROVE IInv'
  BY <1>11 DEF CreateLock, GoTo
<1>12. ASSUME IInv, StartWorker PROVE IInv'
  BY <1>12 DEF StartWorker
<1>13. ASSUME IInv, MCInfo PROVE IInv'
  BY <1>13 DEF MCInfo, Menu, GoTo
<1>14. ASSUME IInv, SpecInfo PROVE IInv'
  BY <1>14 DEF SpecInfo, Menu, GoTo
<1>15. ASSUME IInv, Lock PROVE IInv'
  BY <1>15 DEF Lock, GoTo
<1>16. ASSUME IInv, Work PROVE IInv'
  BY <1>16 DEF Work, GoTo
<1>17. ASSUME IInv, Unlock PROVE IInv'
  BY <1>17 DEF Unlock, Menu, GoTo, NeedsWorker
<1>18. ASSUME IInv, StopWorker PROVE IInv'
  BY <1>18 DEF StopWorker, GoTo
<1>19. ASSUME IInv, DeleteLock PROVE IInv'
  BY <1>19 DEF DeleteLock, GoTo
<1>20. ASSUME IInv, Deinit PROVE IInv'
  BY <1>20 DEF Deinit, GoTo, Calling
<1>21. ASSUME IInv, Load PROVE IInv'
  BY <1>21 DEF Load, NeedsWorker
<1>22. ASSUME IInv, PollLock PROVE IInv'
  BY <1>22 DEF PollLock, Calling, NeedsWorker
<1>23. ASSUME IInv, CallbackCalls PROVE IInv'
  BY <1>23 DEF CallbackCalls, Calling, NeedsWorker
<1>24. ASSUME IInv, Shutdown PROVE IInv'
  BY <1>24 DEF Shutdown, Calling
<1>25. ASSUME IInv, Move PROVE IInv'
  BY <1>25 DEF Move, NeedsWorker
<1>26. ASSUME IInv, TurnPage PROVE IInv'
  BY <1>26 DEF TurnPage, NeedsWorker
<1>27. ASSUME IInv, Choose PROVE IInv'
  BY <1>27 DEF Choose, NeedsWorker
<1>28. ASSUME IInv, Pick PROVE IInv'
  BY <1>28 DEF Pick, Menu
<1>29. ASSUME IInv, Confirm PROVE IInv'
  BY <1>29 DEF Confirm, Menu, GoTo
<1>30. ASSUME IInv, Config PROVE IInv'
  BY <1>30 DEF Config, Menu, GoTo
<1>31. ASSUME IInv, Press PROVE IInv'
  BY <1>31 DEF Press, Calling, NeedsWorker
<1>32. ASSUME IInv, NEW s \in Slots, Swap(s) PROVE IInv'
  BY <1>32 DEF NeedsWorker, Swap
<1>33. ASSUME IInv, UNCHANGED vars PROVE IInv'
  BY <1>33 DEF NeedsWorker, vars
<1> HIDE DEF IInv
<1> QED
  BY <1>1, <1>2, <1>3, <1>4, <1>5, <1>6, <1>7, <1>8, <1>9, <1>10, <1>11, <1>12, <1>13, <1>14, <1>15, <1>16, <1>17, <1>18, <1>19, <1>20, <1>21, <1>22, <1>23, <1>24, <1>25, <1>26, <1>27, <1>28, <1>29, <1>30, <1>31, <1>32, <1>33 DEF Next, MainNext, CallbackNext, UserNext

(* For every console, every pair of cards and every number of presses, a   *)
(* shutdown that has the lock is never between its first call and the      *)
(* power-off while an operation works (poweroffCallback, PerformInstall-   *)
(* ation and the others that take InstallLockSema).                        *)
THEOREM NoCut == Spec => []NoCutDuringInstall
<1>1. IInv => NoCutDuringInstall
  BY DEF IInv, LockMeaning, Holding, Begun, NoCutDuringInstall
<1> QED
  BY <1>1, InitInv, NextInv, PTL DEF Spec

(* Whichever way an operation returns, it leaves the lock free, unless a   *)
(* shutdown has it.                                                        *)
THEOREM Returned == Spec => []LockReturned
<1>1. IInv => LockReturned
  BY DEF IInv, LockMeaning, CallbackLife, Holding, Begun, NoSema, LockReturned
<1> QED
  BY <1>1, InitInv, NextInv, PTL DEF Spec

(* The two sides never have the lock both, and the lock says who has it.   *)
THEOREM OneHolder == Spec => []LockMeaning
<1>1. IInv => LockMeaning
  BY DEF IInv
<1> QED
  BY <1>1, InitInv, NextInv, PTL DEF Spec

-----------------------------------------------------------------------------
(* Which modules are on the IOP, and where an event can have come to.      *)
Loaded ==
  /\ pc \notin {"Reset", "Register", "off"} => Sets[flags] \subseteq modules \cup loading
  /\ pc \notin {"Reset", "Register", "CreateLock", "WaitInit", "off"} => loading = {}
Tools ==
  /\ flags \in {"MAIN", "MCTOOLS"}
  /\ pc \in {"MCInfo", "Spec"} => flags = "MCTOOLS"
  /\ pc \in {"Lock", "Work"} /\ NeedsWorker => flags = "MCTOOLS"
Route ==
  /\ pc \in {"Reset", "Register", "WaitInit"} => event = "BOOT" \/ NeedsWorker
  /\ pc = "CreateLock" => event = "BOOT"
  /\ pc \in {"Reset", "Register", "CreateLock", "WaitInit"} /\ event = "BOOT" => flags = "MAIN"
  /\ pc \in {"MCInfo", "Spec"} => NeedsWorker
  /\ pc = "Config" => event \in {"INST", "INST_CROSS_PSX", "INST_FHDB"}

(* A button of the hard disk is enabled with a hard disk only, and one for *)
(* another console on a PS2 only; and an event comes from its button.      *)
Offered ==
  /\ connected => disk # "none"
  /\ event \in HddButtons => connected
  /\ event = "INST_CROSS_PSX" => type = "PS2"

NeedsInv == Loaded /\ Tools /\ Route /\ Offered

LEMMA NeedsInit == Init => NeedsInv
  BY DEF Init, NeedsInv, Loaded, Tools, Route, Offered, NeedsWorker, HddButtons

LEMMA NeedsNext == NeedsInv /\ [Next]_vars => NeedsInv'
<1> USE DEF NeedsInv, Loaded, Tools, Route, Offered, NeedsWorker, HddButtons, Sets,
            cardVars, iopVars, lockVars, consoleVars
<1>1. ASSUME NeedsInv, Poll1 PROVE NeedsInv'
  BY <1>1 DEF Poll1, Poll
<1>2. ASSUME NeedsInv, Poll2 PROVE NeedsInv'
  BY <1>2 DEF Poll2, Poll
<1>3. ASSUME NeedsInv, Prereq PROVE NeedsInv'
  BY <1>3 DEF Prereq, Menu, GoTo
<1>4. ASSUME NeedsInv, CheckFormat PROVE NeedsInv'
  BY <1>4 DEF CheckFormat, Menu, GoTo, HddUsable
<1>5. ASSUME NeedsInv, FormatHDD PROVE NeedsInv'
  BY <1>5 DEF FormatHDD, Menu, HddUsable
<1>6. ASSUME NeedsInv, FormatMC PROVE NeedsInv'
  BY <1>6 DEF FormatMC, Menu
<1>7. ASSUME NeedsInv, CleanupMC PROVE NeedsInv'
  BY <1>7 DEF CleanupMC, Menu
<1>8. ASSUME NeedsInv, Reset PROVE NeedsInv'
  BY <1>8 DEF Reset, GoTo
<1>9. ASSUME NeedsInv, Register PROVE NeedsInv'
  BY <1>9 DEF Register, GoTo
<1>10. ASSUME NeedsInv, WaitInit PROVE NeedsInv'
  BY <1>10 DEF WaitInit, Menu, GoTo
<1>11. ASSUME NeedsInv, CreateLock PROVE NeedsInv'
  BY <1>11 DEF CreateLock, GoTo
<1>12. ASSUME NeedsInv, StartWorker PROVE NeedsInv'
  BY <1>12 DEF StartWorker
<1>13. ASSUME NeedsInv, MCInfo PROVE NeedsInv'
  BY <1>13 DEF MCInfo, Menu, GoTo
<1>14. ASSUME NeedsInv, SpecInfo PROVE NeedsInv'
  BY <1>14 DEF SpecInfo, Menu, GoTo
<1>15. ASSUME NeedsInv, Lock PROVE NeedsInv'
  BY <1>15 DEF Lock, GoTo
<1>16. ASSUME NeedsInv, Work PROVE NeedsInv'
  BY <1>16 DEF Work, GoTo
<1>17. ASSUME NeedsInv, Unlock PROVE NeedsInv'
  BY <1>17 DEF Unlock, Menu, GoTo
<1>18. ASSUME NeedsInv, StopWorker PROVE NeedsInv'
  BY <1>18 DEF StopWorker, GoTo
<1>19. ASSUME NeedsInv, DeleteLock PROVE NeedsInv'
  BY <1>19 DEF DeleteLock, GoTo
<1>20. ASSUME NeedsInv, Deinit PROVE NeedsInv'
  BY <1>20 DEF Deinit, GoTo
<1>21. ASSUME NeedsInv, Load PROVE NeedsInv'
  BY <1>21 DEF Load
<1>22. ASSUME NeedsInv, PollLock PROVE NeedsInv'
  BY <1>22 DEF PollLock
<1>23. ASSUME NeedsInv, CallbackCalls PROVE NeedsInv'
  BY <1>23 DEF CallbackCalls
<1>24. ASSUME NeedsInv, Shutdown PROVE NeedsInv'
  BY <1>24 DEF Shutdown
<1>25. ASSUME NeedsInv, Move PROVE NeedsInv'
  BY <1>25 DEF Move
<1>26. ASSUME NeedsInv, TurnPage PROVE NeedsInv'
  BY <1>26 DEF TurnPage
<1>27. ASSUME NeedsInv, Choose PROVE NeedsInv'
  BY <1>27 DEF Choose, Enabled
<1>28. ASSUME NeedsInv, Pick PROVE NeedsInv'
  BY <1>28 DEF Pick, Menu
<1>29. ASSUME NeedsInv, Confirm PROVE NeedsInv'
  BY <1>29 DEF Confirm, Menu, GoTo, CardEvents
<1>30. ASSUME NeedsInv, Config PROVE NeedsInv'
  BY <1>30 DEF Config, Menu, GoTo
<1>31. ASSUME NeedsInv, Press PROVE NeedsInv'
  BY <1>31 DEF Press
<1>32. ASSUME NeedsInv, NEW s \in Slots, Swap(s) PROVE NeedsInv'
  BY <1>32 DEF Swap
<1>33. ASSUME NeedsInv, UNCHANGED vars PROVE NeedsInv'
  BY <1>33 DEF vars
<1> HIDE DEF NeedsInv
<1> QED
  BY <1>1, <1>2, <1>3, <1>4, <1>5, <1>6, <1>7, <1>8, <1>9, <1>10, <1>11, <1>12, <1>13, <1>14, <1>15, <1>16, <1>17, <1>18, <1>19, <1>20, <1>21, <1>22, <1>23, <1>24, <1>25, <1>26, <1>27, <1>28, <1>29, <1>30, <1>31, <1>32, <1>33
     DEF Next, MainNext, CallbackNext, UserNext

(* Whatever the card slots, the disk and the modules were before, an       *)
(* operation finds what it calls and what it writes to: the exits of       *)
(* menu.c, the reboots of the IOP and UISetEnabled agree.                  *)
THEOREM NeedsAreMet == Spec => []NeedsMet
<1>1. NeedsInv => NeedsMet
  BY DEF NeedsInv, Loaded, Tools, Route, Offered, NeedsWorker, HddButtons, Sets, NeedsMet
<1> QED
  BY <1>1, NeedsInit, NeedsNext, PTL DEF Spec

-----------------------------------------------------------------------------
(* What the poll found out, for the cards that are still there. *)
CardTypes ==
  /\ card \in [Slots -> {"none", "ps1", "raw", "plain", "multi"}] /\ port \in Slots
  /\ McData \in [Slots -> [ps2 : BOOLEAN, counted : BOOLEAN, multi : BOOLEAN]]
Known(s) == s \in fresh \/ (card[s] = "multi" => McData[s].multi)
Polls ==
  /\ pc = "Poll2" => Known(0)
  /\ pc \in {"Pick", "CheckFormat", "Confirm", "Prereq"} => \A s \in Slots : Known(s)

(* From the check to the operation nothing is polled, and a card that is   *)
(* exchanged is one MCMAN has not reported.                                *)
NotMulti == port \in fresh \/ card[port] # "multi"
Checked ==
  /\ pc = "CleanupMC" => NotMulti
  /\ pc \in {"Config", "Lock", "Work"} /\ event = "INST" => NotMulti
  /\ pc \in {"Reset", "Register", "WaitInit"} => event = "BOOT" \/ NeedsWorker
  /\ pc \in {"CreateLock"} => event = "BOOT"
  /\ pc \in {"MCInfo", "Spec"} => NeedsWorker

MultiInv == CardTypes /\ Polls /\ Checked

LEMMA FlagsOfInstall == OpModeFlags("INST") = "no multi" /\ OpModeFlags("UINST") = "no multi"
<1>1. DOMAIN Events = 1 .. 12
  BY DEF Events
<1>2. (CHOOSE k \in DOMAIN Events : Events[k] = "INST") = 1
  BY <1>1 DEF Events
<1>3. (CHOOSE k \in DOMAIN Events : Events[k] = "UINST") = 3
  BY <1>1 DEF Events
<1> QED
  BY <1>2, <1>3 DEF OpModeFlags

(* A poll finds a multi-installation that is there. *)
LEMMA PollFinds ==
  ASSUME CardTypes, NEW s \in Slots, Poll(s)
  PROVE  /\ CardTypes' /\ card' = card
         /\ card[s] = "multi" => McData'[s].multi
         /\ \A t \in Slots : t # s => McData'[t] = McData[t] /\ (t \in fresh => t \in fresh')
<1>1. Polled(s) \in [ps2 : BOOLEAN, counted : BOOLEAN, multi : BOOLEAN]
  BY DEF Polled, CardTypes, IsPS2
<1>2. card[s] = "multi" => Polled(s).multi
  <2> SUFFICES ASSUME card[s] = "multi" PROVE Polled(s).multi
    OBVIOUS
  <2>1. mcGetInfo(s) >= -1 /\ IsPS2(card[s])
    BY DEF mcGetInfo, IsPS2
  <2>2. Polled(s).multi = ((IF mcGetInfo(s) < 0 THEN FALSE ELSE McData[s].multi)
                           \/ ((mcGetInfo(s) >= -1 /\ IsPS2(card[s])) /\ card[s] = "multi"))
    BY DEF Polled
  <2> QED
    BY <2>1, <2>2
<1> QED
  BY <1>1, <1>2 DEF Poll, CardTypes

LEMMA MultiInit == Init => MultiInv
<1> SUFFICES ASSUME Init PROVE MultiInv
  OBVIOUS
<1>1. CardTypes
  BY KindsAssumption DEF Init, CardTypes, Slots
<1>2. Polls /\ Checked
  BY DEF Init, Polls, Checked
<1> QED
  BY <1>1, <1>2 DEF MultiInv

LEMMA MultiNext == MultiInv /\ [Next]_vars => MultiInv'
<1> USE DEF MultiInv, CardTypes, Polls, Checked, Known, NotMulti, NeedsWorker, Slots,
            cardVars, iopVars, lockVars, consoleVars
<1>1. ASSUME MultiInv, Poll1 PROVE MultiInv'
  BY <1>1, PollFinds DEF Poll1, Poll
<1>2. ASSUME MultiInv, Poll2 PROVE MultiInv'
  BY <1>2, PollFinds DEF Poll2, Poll
<1>3. ASSUME MultiInv, Prereq PROVE MultiInv'
  BY <1>3, FlagsOfInstall DEF Prereq, Menu, GoTo, Refused
<1>4. ASSUME MultiInv, CheckFormat PROVE MultiInv'
  BY <1>4 DEF CheckFormat, Menu, GoTo
<1>5. ASSUME MultiInv, FormatHDD PROVE MultiInv'
  BY <1>5 DEF FormatHDD, Menu
<1>6. ASSUME MultiInv, FormatMC PROVE MultiInv'
  <2>1. CardTypes'
    <3>1. card' \in [Slots -> {"none", "ps1", "raw", "plain", "multi"}] /\ port' \in Slots
      BY <1>6 DEF FormatMC, Menu
    <3>2. ASSUME NEW r \in [ps2 : BOOLEAN, counted : BOOLEAN, multi : BOOLEAN]
          PROVE  [r EXCEPT !.multi = FALSE] \in [ps2 : BOOLEAN, counted : BOOLEAN, multi : BOOLEAN]
      OBVIOUS
    <3>3. McData' \in [Slots -> [ps2 : BOOLEAN, counted : BOOLEAN, multi : BOOLEAN]]
      BY <1>6, <3>2 DEF FormatMC
    <3> QED
      BY <3>1, <3>3
  <2>2. (Polls /\ Checked)'
    BY <1>6 DEF FormatMC, Menu
  <2> QED
    BY <2>1, <2>2
<1>7. ASSUME MultiInv, CleanupMC PROVE MultiInv'
  BY <1>7 DEF CleanupMC, Menu
<1>8. ASSUME MultiInv, Reset PROVE MultiInv'
  BY <1>8 DEF Reset, GoTo
<1>9. ASSUME MultiInv, Register PROVE MultiInv'
  BY <1>9 DEF Register, GoTo
<1>10. ASSUME MultiInv, WaitInit PROVE MultiInv'
  BY <1>10 DEF WaitInit, Menu, GoTo
<1>11. ASSUME MultiInv, CreateLock PROVE MultiInv'
  BY <1>11 DEF CreateLock, GoTo
<1>12. ASSUME MultiInv, StartWorker PROVE MultiInv'
  BY <1>12 DEF StartWorker
<1>13. ASSUME MultiInv, MCInfo PROVE MultiInv'
  BY <1>13 DEF MCInfo, Menu, GoTo
<1>14. ASSUME MultiInv, SpecInfo PROVE MultiInv'
  BY <1>14 DEF SpecInfo, Menu, GoTo
<1>15. ASSUME MultiInv, Lock PROVE MultiInv'
  BY <1>15 DEF Lock, GoTo
<1>16. ASSUME MultiInv, Work PROVE MultiInv'
  BY <1>16, KindsAssumption DEF Work, GoTo
<1>17. ASSUME MultiInv, Unlock PROVE MultiInv'
  BY <1>17 DEF Unlock, Menu, GoTo
<1>18. ASSUME MultiInv, StopWorker PROVE MultiInv'
  BY <1>18 DEF StopWorker, GoTo
<1>19. ASSUME MultiInv, DeleteLock PROVE MultiInv'
  BY <1>19 DEF DeleteLock, GoTo
<1>20. ASSUME MultiInv, Deinit PROVE MultiInv'
  BY <1>20 DEF Deinit, GoTo
<1>21. ASSUME MultiInv, Load PROVE MultiInv'
  BY <1>21 DEF Load
<1>22. ASSUME MultiInv, PollLock PROVE MultiInv'
  BY <1>22 DEF PollLock
<1>23. ASSUME MultiInv, CallbackCalls PROVE MultiInv'
  BY <1>23 DEF CallbackCalls
<1>24. ASSUME MultiInv, Shutdown PROVE MultiInv'
  BY <1>24 DEF Shutdown
<1>25. ASSUME MultiInv, Move PROVE MultiInv'
  BY <1>25 DEF Move
<1>26. ASSUME MultiInv, TurnPage PROVE MultiInv'
  BY <1>26 DEF TurnPage
<1>27. ASSUME MultiInv, Choose PROVE MultiInv'
  BY <1>27 DEF Choose
<1>28. ASSUME MultiInv, Pick PROVE MultiInv'
  BY <1>28 DEF Pick, Menu, NumCards
<1>29. ASSUME MultiInv, Confirm PROVE MultiInv'
  BY <1>29 DEF Confirm, Menu, GoTo, CardEvents
<1>30. ASSUME MultiInv, Config PROVE MultiInv'
  BY <1>30 DEF Config, Menu, GoTo
<1>31. ASSUME MultiInv, Press PROVE MultiInv'
  BY <1>31 DEF Press
<1>32. ASSUME MultiInv, NEW s \in Slots, Swap(s) PROVE MultiInv'
  BY <1>32, KindsAssumption DEF Swap
<1>33. ASSUME MultiInv, UNCHANGED vars PROVE MultiInv'
  BY <1>33 DEF vars
<1> HIDE DEF MultiInv
<1> QED
  BY <1>1, <1>2, <1>3, <1>4, <1>5, <1>6, <1>7, <1>8, <1>9, <1>10, <1>11, <1>12, <1>13, <1>14, <1>15, <1>16, <1>17, <1>18, <1>19, <1>20, <1>21, <1>22, <1>23, <1>24, <1>25, <1>26, <1>27, <1>28, <1>29, <1>30, <1>31, <1>32, <1>33
     DEF Next, MainNext, CallbackNext, UserNext

(* Whatever the order of polls, exchanges, reboots, dumps and restores, an *)
(* installation or a cleanup does not touch a multi-installation the last  *)
(* poll could have seen (GetNumMemcardsInserted and CheckPrerequisites).   *)
THEOREM NoMultiTouched == Spec => []NoInstallOverMulti
<1>1. MultiInv => NoInstallOverMulti
  BY DEF MultiInv, Checked, NotMulti, NoInstallOverMulti
<1> QED
  BY <1>1, MultiInit, MultiNext, PTL DEF Spec
=============================================================================
