-------------------------- MODULE WorkerThreadProofs --------------------------
(***************************************************************************)
(* The two threads of a dump or restore, for any number of clusters or     *)
(* blocks and any faults.  Three layers: the types; what each thread may   *)
(* take for granted of the other at each statement of an exchange; what    *)
(* buffers, dump file and card hold while the copy loop runs.              *)
(***************************************************************************)
EXTENDS WorkerThread, TLAPS

Ops == {"dump", "restore"}
InBody == worker \in {"request", "write_file", "sync", "read_file", "request_write"}
TInv == TypeOK /\ (InBody => unit < NumUnits)

-----------------------------------------------------------------------------
Ready == worker \in {"get_arg", "get_cmd", "asleep"}
Left == Ready \/ worker \in {"aborted", "finish"}
Working == FileInUse \/ worker \in {"free", "end", "finish"}
Operation == op \in Ops /\ file = "open"

(* A command is sent to a worker that is asleep with nothing pending. *)
Sending ==
  main \in {"set_cmd", "set_arg", "wake"} /\ sending # "stop" =>
    /\ Operation /\ op = sending
    /\ worker = "asleep" /\ wakes["worker"] = 0 /\ wakes["main"] = 0
    /\ cmd = IF main = "set_cmd" THEN "none" ELSE sending
    /\ main = "wake" => arg = "params"

(* While the main thread sleeps the worker takes the command, and waits to *)
(* be woken a second time.                                                 *)
Taking ==
  main = "sleep" /\ sending # "stop" =>
    /\ Operation /\ op = sending
    /\ \/ /\ worker \in {"asleep", "get_arg", "get_cmd", "accept"}
          /\ cmd = sending /\ arg = "params" /\ wakes["main"] = 0
          /\ wakes["worker"] = IF worker = "asleep" THEN 1 ELSE 0
          /\ worker = "get_cmd" => args = "params"
       \/ /\ worker = "confirm" /\ cmd = "none" /\ res = "accepted"
          /\ wakes["main"] = 1 /\ wakes["worker"] = 0

Taken ==
  main = "wake_again" /\ sending # "stop" =>
    /\ Operation /\ op = sending
    /\ worker = "confirm" /\ cmd = "none" /\ res = "accepted"
    /\ wakes["main"] = 0 /\ wakes["worker"] = 0

(* Only a worker that has finished leaves a state the polling loop takes   *)
(* for the end.                                                            *)
Polling ==
  main \in {"poll", "pad"} =>
    /\ Operation /\ sending = op /\ cmd = "none" /\ wakes["main"] = 0
    /\ Working \/ Ready
    /\ Working => task = op /\ res = IF worker = "confirm" THEN "accepted" ELSE "busy"
    /\ main = "pad" => seen \in {"accepted", "busy"} \/ Ready

(* A STOP is answered once: after the work, or by a worker at rest. *)
Stopping ==
  main \in {"set_cmd", "set_arg", "wake", "sleep"} /\ sending = "stop" =>
    \/ main # "set_cmd" /\ cmd = "none" /\ wakes["main"] = 1 /\ Left
    \/ /\ cmd = IF main = "set_cmd" THEN "none" ELSE "stop"
       /\ wakes["main"] = 0
       /\ \/ op = "exit" /\ (Left \/ worker = "reject")
          \/ Operation /\ (Working \/ Ready \/ worker \in {"reject", "clear_stop"})

AtRest == \/ main \in {"close", "reboot", "menu", "terminate"}
          \/ main = "wake_again" /\ sending = "stop"
Resting == AtRest => cmd = "none" /\ wakes["main"] = 0 /\ Left

Ended == (worker = "gone" <=> main = "exited") /\ (main = "exited" => cmd = "none")

TaskOfOp ==
  /\ worker = "accept" \/ FileInUse => task = op /\ op \in Ops
  /\ worker \in {"reject", "clear_stop"} => cmd = "stop"

Handshake ==
  /\ Sending /\ Taking /\ Taken /\ Polling /\ Stopping /\ Resting /\ Ended
  /\ TaskOfOp /\ ArgumentOfCommand

-----------------------------------------------------------------------------
(* The loop bodies, and the call in flight, belong to the operation. *)
LoopOfTask ==
  /\ worker \in {"request", "write_file"} => task = "dump"
  /\ worker \in {"read_file", "request_write"} => task = "restore"
  /\ rpc.kind = "write" => op = "restore" /\ rpc.data = InFile(rpc.unit)
  /\ rpc.kind = "read" => op = "dump"
  /\ main = "menu" => op = "none" /\ sending = "none"
  /\ main \in {"terminate", "exited"} => op = "exit"

NotYetCalled == op \in Ops /\ sending # "stop" /\ main \in {"set_cmd", "set_arg", "wake", "sleep", "wake_again"}
NothingInFlight ==
  NotYetCalled \/ worker = "confirm" =>
    rpc = NoCall /\ lastErr = "ok" /\ (op = "dump" => dump = <<>>)

BlockInTurn ==
  worker \in {"sync", "request_write"} /\ task = "restore" => bufs[bank] = InFile(unit)

(* What a dump has got so far. *)
Prefix(n) == Len(dump) = n /\ \A k \in 1 .. n : dump[k] = card[k - 1]
Restored(n) == \A u \in 0 .. n - 1 : card[u] = InFile(u)
Done == IF op = "dump" THEN Prefix(NumUnits) ELSE Restored(NumUnits)

Tracked == main \in {"sleep", "wake_again", "poll", "pad"} /\ sending # "stop"

DumpProgress ==
  Tracked /\ task = "dump" =>
    /\ worker \in {"check", "request", "write_file"} => Prefix(IF unit = 0 THEN 0 ELSE unit - 1)
    /\ worker = "sync" => Prefix(unit)
    /\ worker \in {"check", "request"} => rpc = NoCall
    /\ worker \in {"write_file", "sync"} =>
         /\ rpc # NoCall => rpc.unit = unit /\ rpc.bank = bank
         /\ rpc = NoCall /\ lastErr = "ok" => bufs[bank] = card[unit]
    /\ worker \in {"check", "request", "write_file"} /\ unit > 0 => bufs[OtherBank] = card[unit - 1]
    /\ worker = "flush" /\ result = "ok" =>
         rpc = NoCall /\ unit = NumUnits /\ Prefix(unit - 1) /\ bufs[OtherBank] = card[unit - 1]

RestoreProgress ==
  Tracked /\ task = "restore" =>
    /\ worker \in {"check", "read_file", "sync", "request_write", "flush"} =>
         /\ rpc # NoCall => lastErr = "ok" /\ rpc.unit = unit - 1 /\ Restored(unit - 1)
         /\ rpc = NoCall /\ lastErr = "ok" => Restored(unit)
    /\ worker = "request_write" => rpc = NoCall /\ lastErr = "ok"
    /\ worker = "flush" /\ result = "ok" => unit = NumUnits

LoopResult ==
  Tracked =>
    /\ worker = "check" \/ InBody => result = "ok" /\ owned
    /\ worker \in {"free", "end", "finish"} /\ main \in {"poll", "pad"} /\ result = "ok" => Done /\ rpc.kind # "write"
    /\ Ready /\ main \in {"poll", "pad"} /\ res = "ok" => Done /\ rpc.kind # "write"

SeenIsDone ==
  /\ op \in Ops /\ (main \in {"pad", "close"} \/ sending = "stop") /\ seen = "ok" =>
       Done /\ rpc.kind # "write" /\ (Ready \/ worker = "reject")
  /\ op \in Ops /\ main = "reboot" /\ outcome = "complete" => Done /\ rpc.kind # "write"

Copied ==
  /\ LoopOfTask /\ NothingInFlight /\ BlockInTurn /\ RestoreWritesInPlace
  /\ DumpProgress /\ RestoreProgress /\ LoopResult /\ SeenIsDone
-----------------------------------------------------------------------------
LEMMA ContentHas == Garbage \in Content /\ Damaged \in Content /\ \A u \in Units : OnCard(u) \in Content /\ InFile(u) \in Content
  BY DEF Content

LEMMA InitTypes == Init => TInv
<1> SUFFICES ASSUME Init PROVE TInv
  OBVIOUS
<1> USE UnitsAssumption, ContentHas DEF Init
<1>1. owned \in BOOLEAN
  BY Zenon
<1>2. card \in [Units -> Content] /\ bufs \in [Banks -> Content] /\ dump \in Seq(Content)
  OBVIOUS
<1>3. wakes \in [Threads -> Nat] /\ unit \in 0 .. NumUnits /\ bank \in Banks
  BY DEF Banks
<1> QED
  BY <1>1, <1>2, <1>3 DEF TInv, TypeOK, InBody

LEMMA NextTypes == TInv /\ [Next]_vars => TInv'
<1> SUFFICES ASSUME TInv, [Next]_vars PROVE TInv'
  OBVIOUS
<1> USE UnitsAssumption DEF TInv, TypeOK, InBody, Banks, Threads
<1>1. ASSUME NEW o \in {"dump", "restore"}, Start(o) PROVE TInv'
  <2>0. dump' \in {dump, << >>}
    BY ONLY <1>1 DEF Start
  <2>1. dump' \in Seq(Content)
    <3>1. dump \in Seq(Content)
      BY ONLY TypeOK DEF TypeOK
    <3>2. << >> \in Seq(Content)
      OBVIOUS
    <3> QED
      BY ONLY <2>0, <3>1, <3>2
  <2>2. owned' \in BOOLEAN
    BY <1>1, Zenon DEF Start, workerVars
  <2>3. rpc' = rpc /\ card' = card /\ bufs' = bufs /\ wakes' = wakes
    BY <1>1 DEF Start, workerVars
  <2>4. main' \in {"set_cmd", "reboot"} /\ op' = o /\ lastErr' = "ok" /\ file' \in {"open", file}
        /\ sending' \in {o, sending} /\ outcome' \in {"none", "error"} /\ seen' = seen
    BY <1>1 DEF Start
  <2>5. UNCHANGED <<mailVars, workerVars>>
    BY <1>1 DEF Start
  <2> QED
    BY <2>1, <2>2, <2>3, <2>4, <2>5 DEF mailVars, workerVars
<1>2. CASE SendSetCmd
  BY <1>2 DEF SendSetCmd, workerVars, serverVars
<1>3. CASE SendSetArg
  BY <1>3 DEF SendSetArg, workerVars, serverVars
<1>4. CASE SendWake
  BY <1>4 DEF SendWake, mailVars, workerVars, serverVars, Wakeup
<1>5. CASE SendSleep
  BY <1>5 DEF SendSleep, mailVars, workerVars, serverVars, Awoken
<1>6. CASE SendWakeAgain
  BY <1>6 DEF SendWakeAgain, mailVars, workerVars, serverVars, Wakeup
<1>7. CASE Poll
  BY <1>7 DEF Poll, mailVars, workerVars, serverVars
<1>8. CASE Cancel
  BY <1>8 DEF Cancel, mailVars, workerVars, serverVars
<1>9. CASE NoCancel
  BY <1>9 DEF NoCancel, mailVars, workerVars, serverVars
<1>10. CASE Close
  BY <1>10 DEF Close, mailVars, workerVars, serverVars
<1>11. CASE RebootIOP
  BY <1>11 DEF RebootIOP, mailVars, workerVars
<1>12. CASE Quit
  BY <1>12 DEF Quit, mailVars, workerVars, serverVars
<1>13. CASE Terminate
  BY <1>13 DEF Terminate, mailVars, serverVars
<1>14. CASE GetArg
  BY <1>14 DEF GetArg, mainVars, mailVars, serverVars
<1>15. CASE GetCmd
  BY <1>15 DEF GetCmd, mainVars, mailVars, serverVars
<1>16. CASE WakeUp
  BY <1>16 DEF WakeUp, mainVars, mailVars, serverVars, Awoken
<1>17. CASE Reject
  BY <1>17 DEF Reject, mainVars, serverVars, Wakeup
<1>18. CASE Accept
  BY <1>18 DEF Accept, mainVars, serverVars, Wakeup
<1>19. CASE Begin
  <2>1. owned' \in BOOLEAN
    BY <1>19, Zenon DEF Begin
  <2> QED
    BY <1>19, <2>1 DEF Begin, mainVars, serverVars, Awoken
<1>20. CASE Check
  BY <1>20 DEF Check, mainVars, mailVars, serverVars
<1>21. CASE DumpRequest
  <2>1. rpc' = NoCall \/ rpc' \in [kind : {"read", "write"}, unit : Units, bank : Banks, data : Content]
    BY <1>21, ContentHas DEF DumpRequest, Units
  <2> QED
    BY <1>21, <2>1 DEF DumpRequest, mainVars, mailVars, Leave
<1>22. CASE DumpWrite
  <2>1. OtherBank \in Banks
    BY DEF OtherBank
  <2>2. bufs[OtherBank] \in Content
    BY ONLY <2>1, TypeOK DEF TypeOK
  <2>3. dump' \in {dump, Append(dump, bufs[OtherBank])}
    BY ONLY <1>22 DEF DumpWrite
  <2>4. dump' \in Seq(Content)
    <3>1. dump \in Seq(Content)
      BY ONLY TypeOK DEF TypeOK
    <3>2. Append(dump, bufs[OtherBank]) \in Seq(Content)
      BY ONLY <2>2, <3>1
    <3> QED
      BY ONLY <2>3, <3>1, <3>2
  <2>5. worker' \in {"sync", "flush"} /\ result' \in {result, "failed"} /\ worker = "write_file"
    BY ONLY <1>22 DEF DumpWrite, Leave
  <2>6. UNCHANGED <<mainVars, mailVars, wakes, task, args, unit, bank, bufs, owned, serverVars, card>>
    BY ONLY <1>22 DEF DumpWrite
  <2> QED
    BY <2>4, <2>5, <2>6 DEF mainVars, mailVars, serverVars
<1>23. CASE DumpSync
  BY <1>23 DEF DumpSync, mainVars, mailVars, serverVars, Leave, OtherBank
<1>24. CASE DumpLast
  <2>1. bufs[OtherBank] \in Content
    BY <1>24 DEF OtherBank
  <2>2. dump' \in Seq(Content)
    BY <1>24, <2>1 DEF DumpLast
  <2> QED
    BY <1>24, <2>1, <2>2 DEF DumpLast, mainVars, mailVars, serverVars, OtherBank
<1>25. CASE RestoreRead
  <2>1. bufs' \in [Banks -> Content]
    BY <1>25, ContentHas DEF RestoreRead, Units
  <2> QED
    BY <1>25, <2>1 DEF RestoreRead, mainVars, mailVars, serverVars, Leave
<1>26. CASE RestoreSync
  BY <1>26 DEF RestoreSync, mainVars, mailVars, serverVars, Leave
<1>27. CASE RestoreRequest
  <2>1. rpc' = NoCall \/ rpc' \in [kind : {"read", "write"}, unit : Units, bank : Banks, data : Content]
    BY <1>27 DEF RestoreRequest, Units
  <2>2. bank' \in Banks /\ unit' \in 0 .. NumUnits
    BY <1>27 DEF RestoreRequest, OtherBank
  <2> QED
    BY <1>27, <2>1, <2>2 DEF RestoreRequest, mainVars, mailVars, Leave, OtherBank
<1>28. CASE RestoreLast
  BY <1>28 DEF RestoreLast, mainVars, mailVars, serverVars
<1>29. CASE Free
  <2>1. bufs' \in [Banks -> Content]
    BY <1>29, ContentHas DEF Free
  <2>2. owned' \in BOOLEAN
    BY <1>29, Zenon DEF Free
  <2> QED
    BY <1>29, <2>1, <2>2 DEF Free, mainVars, mailVars, serverVars
<1>30. CASE AnswerStop
  BY <1>30 DEF AnswerStop, mainVars, mailVars, serverVars
<1>31. CASE ClearStop
  BY <1>31 DEF ClearStop, mainVars, serverVars, Wakeup
<1>32. CASE Aborted
  BY <1>32 DEF Aborted, mainVars, serverVars
<1>33. CASE Finish
  BY <1>33 DEF Finish, mainVars, serverVars
<1>34. CASE CallSucceeds
  BY <1>34 DEF CallSucceeds, mainVars, mailVars
<1>35. CASE CallFails
  <2>1. card' \in [Units -> Content]
    BY <1>35, ContentHas DEF CallFails
  <2> QED
    BY <1>35, <2>1 DEF CallFails, mainVars, mailVars, workerVars
<1>36. CASE Exited \/ UNCHANGED vars
  BY <1>36 DEF Exited, vars, mainVars, mailVars, workerVars, serverVars
<1> QED
  BY <1>1, <1>2, <1>3, <1>4, <1>5, <1>6, <1>7, <1>8, <1>9, <1>10, <1>11, <1>12, <1>13, <1>14, <1>15,
      <1>16, <1>17, <1>18, <1>19, <1>20, <1>21, <1>22, <1>23, <1>24, <1>25, <1>26, <1>27, <1>28,
      <1>29, <1>30, <1>31, <1>32, <1>33, <1>34, <1>35, <1>36 DEF Next, MainNext, WorkerNext,
      ServerNext

LEMMA InitHandshake == Init => Handshake
  BY DEF Init, Threads, Handshake, Sending, Taking, Taken, Polling, Stopping, Resting, AtRest,
      Ended, TaskOfOp,
    ArgumentOfCommand, Left, Ready, FileInUse

LEMMA NextHandshake == TInv /\ Handshake /\ [Next]_vars => Handshake'
<1> SUFFICES ASSUME TInv, Handshake, [Next]_vars PROVE Handshake'
  OBVIOUS
<1> USE UnitsAssumption DEF TInv, TypeOK, Threads, Handshake, Sending, Taking, Taken, Polling,
    Stopping, Resting, AtRest, Ended, TaskOfOp, ArgumentOfCommand, Operation, Ops, Left, Ready,
    Working, FileInUse
<1>1. ASSUME NEW o \in {"dump", "restore"}, Start(o) PROVE Handshake'
  BY <1>1 DEF Start, mailVars, workerVars, Settled
<1>2. CASE SendSetCmd
  BY <1>2 DEF SendSetCmd, workerVars, serverVars
<1>3. CASE SendSetArg
  BY <1>3 DEF SendSetArg, workerVars, serverVars
<1>4. CASE SendWake
  BY <1>4 DEF SendWake, mailVars, workerVars, serverVars, Wakeup
<1>5. CASE SendSleep
  BY <1>5 DEF SendSleep, mailVars, workerVars, serverVars, Awoken
<1>6. CASE SendWakeAgain
  BY <1>6 DEF SendWakeAgain, mailVars, workerVars, serverVars, Wakeup
<1>7. CASE Poll
  BY <1>7 DEF Poll, mailVars, workerVars, serverVars
<1>8. CASE Cancel
  BY <1>8 DEF Cancel, mailVars, workerVars, serverVars
<1>9. CASE NoCancel
  BY <1>9 DEF NoCancel, mailVars, workerVars, serverVars
<1>10. CASE Close
  BY <1>10 DEF Close, mailVars, workerVars, serverVars
<1>11. CASE RebootIOP
  BY <1>11 DEF RebootIOP, mailVars, workerVars
<1>12. CASE Quit
  BY <1>12 DEF Quit, mailVars, workerVars, serverVars
<1>13. CASE Terminate
  BY <1>13 DEF Terminate, mailVars, serverVars
<1>14. CASE GetArg
  BY <1>14 DEF GetArg, mainVars, mailVars, serverVars
<1>15. CASE GetCmd
  BY <1>15 DEF GetCmd, mainVars, mailVars, serverVars
<1>16. CASE WakeUp
  BY <1>16 DEF WakeUp, mainVars, mailVars, serverVars, Awoken
<1>17. CASE Reject
  BY <1>17 DEF Reject, mainVars, serverVars, Wakeup
<1>18. CASE Accept
  BY <1>18 DEF Accept, mainVars, serverVars, Wakeup
<1>19. CASE Begin
  BY <1>19 DEF Begin, mainVars, serverVars, Awoken
<1>20. CASE Check
  BY <1>20 DEF Check, mainVars, mailVars, serverVars
<1>21. CASE DumpRequest
  BY <1>21 DEF DumpRequest, mainVars, mailVars, Leave
<1>22. CASE DumpWrite
  BY <1>22 DEF DumpWrite, mainVars, mailVars, serverVars, Leave, OtherBank
<1>23. CASE DumpSync
  BY <1>23 DEF DumpSync, mainVars, mailVars, serverVars, Leave, OtherBank
<1>24. CASE DumpLast
  BY <1>24 DEF DumpLast, mainVars, mailVars, serverVars, OtherBank
<1>25. CASE RestoreRead
  BY <1>25 DEF RestoreRead, mainVars, mailVars, serverVars, Leave
<1>26. CASE RestoreSync
  BY <1>26 DEF RestoreSync, mainVars, mailVars, serverVars, Leave
<1>27. CASE RestoreRequest
  BY <1>27 DEF RestoreRequest, mainVars, mailVars, Leave, OtherBank
<1>28. CASE RestoreLast
  BY <1>28 DEF RestoreLast, mainVars, mailVars, serverVars
<1>29. CASE Free
  BY <1>29 DEF Free, mainVars, mailVars, serverVars
<1>30. CASE AnswerStop
  BY <1>30 DEF AnswerStop, mainVars, mailVars, serverVars
<1>31. CASE ClearStop
  BY <1>31 DEF ClearStop, mainVars, serverVars, Wakeup
<1>32. CASE Aborted
  BY <1>32 DEF Aborted, mainVars, serverVars
<1>33. CASE Finish
  BY <1>33 DEF Finish, mainVars, serverVars
<1>34. CASE CallSucceeds
  BY <1>34 DEF CallSucceeds, mainVars, mailVars
<1>35. CASE CallFails
  BY <1>35 DEF CallFails, mainVars, mailVars, workerVars
<1>36. CASE Exited \/ UNCHANGED vars
  BY <1>36 DEF Exited, vars, mainVars, mailVars, workerVars, serverVars
<1> QED
  BY <1>1, <1>2, <1>3, <1>4, <1>5, <1>6, <1>7, <1>8, <1>9, <1>10, <1>11, <1>12, <1>13, <1>14, <1>15,
      <1>16, <1>17, <1>18, <1>19, <1>20, <1>21, <1>22, <1>23, <1>24, <1>25, <1>26, <1>27, <1>28,
      <1>29, <1>30, <1>31, <1>32, <1>33, <1>34, <1>35, <1>36 DEF Next, MainNext, WorkerNext,
      ServerNext

LEMMA InitCopied == Init => Copied
  BY DEF Init, Copied, LoopOfTask, NotYetCalled, NothingInFlight, BlockInTurn, RestoreWritesInPlace,
      Tracked, DumpProgress, RestoreProgress, LoopResult, SeenIsDone, InBody, Ops, NoCall

LEMMA Grow == ASSUME NEW d \in Seq(Content), NEW x \in Content
              PROVE  /\ Len(Append(d, x)) = Len(d) + 1
                     /\ \A k \in 1 .. Len(d) : Append(d, x)[k] = d[k]
                     /\ Append(d, x)[Len(d) + 1] = x
  OBVIOUS

LEMMA StutterCopied == Copied /\ UNCHANGED vars => Copied'
  BY DEF vars, mainVars, mailVars, workerVars, serverVars, Copied, LoopOfTask, NothingInFlight, NotYetCalled,
    BlockInTurn, RestoreWritesInPlace, DumpProgress, RestoreProgress, LoopResult, SeenIsDone, Prefix, Restored,
    Done, Tracked, Ready, InBody, OtherBank

LEMMA NextCopied == TInv /\ Handshake /\ Copied /\ [Next]_vars => Copied'
<1> SUFFICES ASSUME TInv, Handshake, Copied, [Next]_vars PROVE Copied'
  OBVIOUS
<1> USE UnitsAssumption DEF TInv, TypeOK, InBody, Banks, Units, OtherBank, NoCall, Handshake,
    Sending, Taking, Taken, Polling, Stopping, Resting, AtRest, Ended, TaskOfOp, ArgumentOfCommand,
    Operation, Ops, Left, Ready, Working, FileInUse, Copied, LoopOfTask, NotYetCalled,
    NothingInFlight, BlockInTurn, RestoreWritesInPlace, Prefix, Restored, Done, Tracked,
    DumpProgress, RestoreProgress, LoopResult, SeenIsDone
<1>1. ASSUME NEW o \in {"dump", "restore"}, Start(o) PROVE Copied'
  <2>1. LoopOfTask'
    BY <1>1 DEF Start, mailVars, workerVars, Settled
  <2>2. NothingInFlight'
    BY <1>1 DEF Start, mailVars, workerVars, Settled
  <2>3. BlockInTurn'
    BY <1>1 DEF Start, mailVars, workerVars, Settled
  <2>4. RestoreWritesInPlace'
    BY <1>1 DEF Start, mailVars, workerVars, Settled
  <2>5. DumpProgress'
    BY <1>1 DEF Start, mailVars, workerVars, Settled
  <2>6. RestoreProgress'
    BY <1>1 DEF Start, mailVars, workerVars, Settled
  <2>7. LoopResult'
    BY <1>1 DEF Start, mailVars, workerVars, Settled
  <2>8. SeenIsDone'
    BY <1>1 DEF Start, mailVars, workerVars, Settled
  <2> QED
    BY <2>1, <2>2, <2>3, <2>4, <2>5, <2>6, <2>7, <2>8
<1>2. CASE SendSetCmd
  BY <1>2 DEF SendSetCmd, workerVars, serverVars
<1>3. CASE SendSetArg
  BY <1>3 DEF SendSetArg, workerVars, serverVars
<1>4. CASE SendWake
  BY <1>4 DEF SendWake, mailVars, workerVars, serverVars, Wakeup
<1>5. CASE SendSleep
  BY <1>5 DEF SendSleep, mailVars, workerVars, serverVars, Awoken
<1>6. CASE SendWakeAgain
  BY <1>6 DEF SendWakeAgain, mailVars, workerVars, serverVars, Wakeup
<1>7. CASE Poll
  BY <1>7 DEF Poll, mailVars, workerVars, serverVars
<1>8. CASE Cancel
  BY <1>8 DEF Cancel, mailVars, workerVars, serverVars
<1>9. CASE NoCancel
  BY <1>9 DEF NoCancel, mailVars, workerVars, serverVars
<1>10. CASE Close
  BY <1>10 DEF Close, mailVars, workerVars, serverVars
<1>11. CASE RebootIOP
  BY <1>11 DEF RebootIOP, mailVars, workerVars
<1>12. CASE Quit
  BY <1>12 DEF Quit, mailVars, workerVars, serverVars
<1>13. CASE Terminate
  <2>1. LoopOfTask'
    BY <1>13 DEF Terminate, mailVars, serverVars
  <2>2. NothingInFlight'
    BY <1>13 DEF Terminate, mailVars, serverVars
  <2>3. BlockInTurn'
    BY <1>13 DEF Terminate, mailVars, serverVars
  <2>4. RestoreWritesInPlace'
    BY <1>13 DEF Terminate, mailVars, serverVars
  <2>5. DumpProgress'
    BY <1>13 DEF Terminate, mailVars, serverVars
  <2>6. RestoreProgress'
    BY <1>13 DEF Terminate, mailVars, serverVars
  <2>7. LoopResult'
    BY <1>13 DEF Terminate, mailVars, serverVars
  <2>8. SeenIsDone'
    BY <1>13 DEF Terminate, mailVars, serverVars
  <2> QED
    BY <2>1, <2>2, <2>3, <2>4, <2>5, <2>6, <2>7, <2>8
<1>14. CASE GetArg
  BY <1>14 DEF GetArg, mainVars, mailVars, serverVars
<1>15. CASE GetCmd
  BY <1>15 DEF GetCmd, mainVars, mailVars, serverVars
<1>16. CASE WakeUp
  BY <1>16 DEF WakeUp, mainVars, mailVars, serverVars, Awoken
<1>17. CASE Reject
  BY <1>17 DEF Reject, mainVars, serverVars, Wakeup
<1>18. CASE Accept
  BY <1>18 DEF Accept, mainVars, serverVars, Wakeup
<1>19. CASE Begin
  <2>1. LoopOfTask'
    BY <1>19 DEF Begin, mainVars, serverVars, Awoken
  <2>2. NothingInFlight'
    BY <1>19 DEF Begin, mainVars, serverVars, Awoken
  <2>3. BlockInTurn'
    BY <1>19 DEF Begin, mainVars, serverVars, Awoken
  <2>4. RestoreWritesInPlace'
    BY <1>19 DEF Begin, mainVars, serverVars, Awoken
  <2>5. DumpProgress'
    BY <1>19 DEF Begin, mainVars, serverVars, Awoken
  <2>6. RestoreProgress'
    BY <1>19 DEF Begin, mainVars, serverVars, Awoken
  <2>7. LoopResult'
    BY <1>19 DEF Begin, mainVars, serverVars, Awoken
  <2>8. SeenIsDone'
    BY <1>19 DEF Begin, mainVars, serverVars, Awoken
  <2> QED
    BY <2>1, <2>2, <2>3, <2>4, <2>5, <2>6, <2>7, <2>8
<1>20. CASE Check
  BY <1>20 DEF Check, mainVars, mailVars, serverVars
<1>21. CASE DumpRequest
  BY <1>21 DEF DumpRequest, mainVars, mailVars, Leave
<1>22. CASE DumpWrite
  <2>1. LoopOfTask'
    BY <1>22 DEF DumpWrite, mainVars, mailVars, serverVars, Leave, OtherBank
  <2>2. NothingInFlight'
    BY <1>22 DEF DumpWrite, mainVars, mailVars, serverVars, Leave, OtherBank
  <2>3. BlockInTurn'
    BY <1>22 DEF DumpWrite, mainVars, mailVars, serverVars, Leave, OtherBank
  <2>4. RestoreWritesInPlace'
    BY <1>22 DEF DumpWrite, mainVars, mailVars, serverVars, Leave, OtherBank
  <2>5. DumpProgress'
    <3>1. task = "dump" /\ unit \in Units /\ bufs[OtherBank] \in Content
      BY <1>22 DEF DumpWrite
    <3>2. ASSUME Tracked, worker' = "sync" PROVE Prefix(unit)'
      <4>1. CASE unit = 0
        BY <1>22, <3>1, <3>2, <4>1 DEF DumpWrite
      <4>2. CASE unit > 0
        <5>1. Len(dump) = unit - 1 /\ \A k \in 1 .. unit - 1 : dump[k] = card[k - 1]
          BY <1>22, <3>1, <3>2, <4>2 DEF DumpWrite
        <5>2. dump' = Append(dump, bufs[OtherBank]) /\ bufs[OtherBank] = card[unit - 1] /\ card' = card /\ unit' = unit
          BY <1>22, <3>1, <3>2, <4>2 DEF DumpWrite, Leave
        <5> QED
          BY <3>1, <4>2, <5>1, <5>2, Grow
      <4> QED
        BY <3>1, <4>1, <4>2
    <3> QED
      BY <1>22, <3>1, <3>2 DEF DumpWrite, mainVars, mailVars, serverVars, Leave
  <2>6. RestoreProgress'
    BY <1>22 DEF DumpWrite, mainVars, mailVars, serverVars, Leave, OtherBank
  <2>7. LoopResult'
    BY <1>22 DEF DumpWrite, mainVars, mailVars, serverVars, Leave, OtherBank
  <2>8. SeenIsDone'
    BY <1>22 DEF DumpWrite, mainVars, mailVars, serverVars, Leave, OtherBank
  <2> QED
    BY <2>1, <2>2, <2>3, <2>4, <2>5, <2>6, <2>7, <2>8
<1>23. CASE DumpSync
  <2>1. LoopOfTask'
    BY <1>23 DEF DumpSync, mainVars, mailVars, serverVars, Leave, OtherBank
  <2>2. NothingInFlight'
    BY <1>23 DEF DumpSync, mainVars, mailVars, serverVars, Leave, OtherBank
  <2>3. BlockInTurn'
    BY <1>23 DEF DumpSync, mainVars, mailVars, serverVars, Leave, OtherBank
  <2>4. RestoreWritesInPlace'
    BY <1>23 DEF DumpSync, mainVars, mailVars, serverVars, Leave, OtherBank
  <2>5. DumpProgress'
    BY <1>23 DEF DumpSync, mainVars, mailVars, serverVars, Leave, OtherBank
  <2>6. RestoreProgress'
    BY <1>23 DEF DumpSync, mainVars, mailVars, serverVars, Leave, OtherBank
  <2>7. LoopResult'
    BY <1>23 DEF DumpSync, mainVars, mailVars, serverVars, Leave, OtherBank
  <2>8. SeenIsDone'
    BY <1>23 DEF DumpSync, mainVars, mailVars, serverVars, Leave, OtherBank
  <2> QED
    BY <2>1, <2>2, <2>3, <2>4, <2>5, <2>6, <2>7, <2>8
<1>24. CASE DumpLast
  <2>1. LoopOfTask'
    BY <1>24 DEF DumpLast, mainVars, mailVars, serverVars, OtherBank
  <2>2. NothingInFlight'
    BY <1>24 DEF DumpLast, mainVars, mailVars, serverVars, OtherBank
  <2>3. BlockInTurn'
    BY <1>24 DEF DumpLast, mainVars, mailVars, serverVars, OtherBank
  <2>4. RestoreWritesInPlace'
    BY <1>24 DEF DumpLast, mainVars, mailVars, serverVars, OtherBank
  <2>5. DumpProgress'
    BY <1>24 DEF DumpLast, mainVars, mailVars, serverVars, OtherBank
  <2>6. RestoreProgress'
    BY <1>24 DEF DumpLast, mainVars, mailVars, serverVars, OtherBank
  <2>7. LoopResult'
    <3>1. worker' = "free" /\ UNCHANGED <<main, sending>>
      BY ONLY <1>24 DEF DumpLast, mainVars
    <3>2. ASSUME Tracked', result' = "ok" PROVE Done' /\ rpc'.kind # "write"
      <4>1. /\ task = "dump" /\ op = "dump" /\ worker = "flush" /\ result = "ok" /\ dump' = Append(dump, bufs[OtherBank])
            /\ UNCHANGED <<op, rpc, card>>
        BY <1>24, <3>1, <3>2 DEF DumpLast, mainVars, serverVars
      <4>2. /\ rpc = NoCall /\ unit = NumUnits /\ bufs[OtherBank] = card[unit - 1]
            /\ Len(dump) = unit - 1 /\ \A k \in 1 .. unit - 1 : dump[k] = card[k - 1]
        BY ONLY <3>1, <3>2, <4>1, DumpProgress DEF DumpProgress, Tracked, Prefix
      <4>3. dump \in Seq(Content) /\ bufs[OtherBank] \in Content /\ NumUnits \in Nat
        BY DEF OtherBank
      <4>4. Len(dump') = NumUnits /\ \A k \in 1 .. NumUnits : dump'[k] = card'[k - 1]
        BY ONLY <4>1, <4>2, <4>3, Grow
      <4> QED
        BY ONLY <4>1, <4>2, <4>4 DEF Done, Prefix, NoCall
    <3> QED
      BY ONLY <3>1, <3>2 DEF LoopResult, InBody, Ready, Tracked
  <2>8. SeenIsDone'
    BY <1>24 DEF DumpLast, mainVars, mailVars, serverVars, OtherBank
  <2> QED
    BY <2>1, <2>2, <2>3, <2>4, <2>5, <2>6, <2>7, <2>8
<1>25. CASE RestoreRead
  BY <1>25 DEF RestoreRead, mainVars, mailVars, serverVars, Leave
<1>26. CASE RestoreSync
  BY <1>26 DEF RestoreSync, mainVars, mailVars, serverVars, Leave
<1>27. CASE RestoreRequest
  <2>1. LoopOfTask'
    BY <1>27 DEF RestoreRequest, mainVars, mailVars, Leave, OtherBank
  <2>2. NothingInFlight'
    BY <1>27 DEF RestoreRequest, mainVars, mailVars, Leave, OtherBank
  <2>3. BlockInTurn'
    BY <1>27 DEF RestoreRequest, mainVars, mailVars, Leave, OtherBank
  <2>4. RestoreWritesInPlace'
    BY <1>27 DEF RestoreRequest, mainVars, mailVars, Leave, OtherBank
  <2>5. DumpProgress'
    BY <1>27 DEF RestoreRequest, mainVars, mailVars, Leave, OtherBank
  <2>6. RestoreProgress'
    BY <1>27 DEF RestoreRequest, mainVars, mailVars, Leave, OtherBank
  <2>7. LoopResult'
    BY <1>27 DEF RestoreRequest, mainVars, mailVars, Leave, OtherBank
  <2>8. SeenIsDone'
    BY <1>27 DEF RestoreRequest, mainVars, mailVars, Leave, OtherBank
  <2> QED
    BY <2>1, <2>2, <2>3, <2>4, <2>5, <2>6, <2>7, <2>8
<1>28. CASE RestoreLast
  BY <1>28 DEF RestoreLast, mainVars, mailVars, serverVars
<1>29. CASE Free
  BY <1>29 DEF Free, mainVars, mailVars, serverVars
<1>30. CASE AnswerStop
  BY <1>30 DEF AnswerStop, mainVars, mailVars, serverVars
<1>31. CASE ClearStop
  BY <1>31 DEF ClearStop, mainVars, serverVars, Wakeup
<1>32. CASE Aborted
  BY <1>32 DEF Aborted, mainVars, serverVars
<1>33. CASE Finish
  BY <1>33 DEF Finish, mainVars, serverVars
<1>34. CASE CallSucceeds
  <2>1. LoopOfTask'
    BY <1>34 DEF CallSucceeds, mainVars, mailVars
  <2>2. NothingInFlight'
    BY <1>34 DEF CallSucceeds, mainVars, mailVars
  <2>3. BlockInTurn'
    BY <1>34 DEF CallSucceeds, mainVars, mailVars
  <2>4. RestoreWritesInPlace'
    BY <1>34 DEF CallSucceeds, mainVars, mailVars
  <2>5. DumpProgress'
    <3> SUFFICES ASSUME Tracked, task = "dump", worker \in {"write_file", "sync"}
                 PROVE  DumpProgress'
      BY <1>34 DEF CallSucceeds, mainVars, mailVars
    <3>1. rpc.kind = "read" /\ owned
      BY <1>34 DEF CallSucceeds
    <3>2. bufs' = [bufs EXCEPT ![bank] = card[unit]] /\ card' = card
      BY <1>34, <3>1 DEF CallSucceeds
    <3> QED
      BY <1>34, <3>1, <3>2 DEF CallSucceeds, mainVars, mailVars
  <2>6. RestoreProgress'
    BY <1>34 DEF CallSucceeds, mainVars, mailVars
  <2>7. LoopResult'
    BY <1>34 DEF CallSucceeds, mainVars, mailVars
  <2>8. SeenIsDone'
    BY <1>34 DEF CallSucceeds, mainVars, mailVars
  <2> QED
    BY <2>1, <2>2, <2>3, <2>4, <2>5, <2>6, <2>7, <2>8
<1>35. CASE CallFails
  <2>1. LoopOfTask'
    BY <1>35 DEF CallFails, mainVars, mailVars, workerVars
  <2>2. NothingInFlight'
    BY <1>35 DEF CallFails, mainVars, mailVars, workerVars
  <2>3. BlockInTurn'
    BY <1>35 DEF CallFails, mainVars, mailVars, workerVars
  <2>4. RestoreWritesInPlace'
    BY <1>35 DEF CallFails, mainVars, mailVars, workerVars
  <2>5. DumpProgress'
    BY <1>35 DEF CallFails, mainVars, mailVars, workerVars
  <2>6. RestoreProgress'
    BY <1>35 DEF CallFails, mainVars, mailVars, workerVars
  <2>7. LoopResult'
    BY <1>35 DEF CallFails, mainVars, mailVars, workerVars
  <2>8. SeenIsDone'
    BY <1>35 DEF CallFails, mainVars, mailVars, workerVars
  <2> QED
    BY <2>1, <2>2, <2>3, <2>4, <2>5, <2>6, <2>7, <2>8
<1>36. CASE Exited \/ UNCHANGED vars
  BY ONLY Copied, <1>36, StutterCopied DEF Exited
<1> QED
  BY <1>1, <1>2, <1>3, <1>4, <1>5, <1>6, <1>7, <1>8, <1>9, <1>10, <1>11, <1>12, <1>13, <1>14, <1>15,
      <1>16, <1>17, <1>18, <1>19, <1>20, <1>21, <1>22, <1>23, <1>24, <1>25, <1>26, <1>27, <1>28,
      <1>29, <1>30, <1>31, <1>32, <1>33, <1>34, <1>35, <1>36 DEF Next, MainNext, WorkerNext,
      ServerNext

LEMMA Invariant == Spec => [](TInv /\ Handshake /\ Copied)
<1>1. Init => TInv /\ Handshake /\ Copied
  BY InitTypes, InitHandshake, InitCopied
<1>2. TInv /\ Handshake /\ Copied /\ [Next]_vars => (TInv /\ Handshake /\ Copied)'
  BY NextTypes, NextHandshake, NextCopied
<1> QED
  BY <1>1, <1>2, PTL DEF Spec

-----------------------------------------------------------------------------
(* The variables keep their types. *)
THEOREM TypeCorrect == Spec => []TypeOK
<1>1. TInv => TypeOK
  BY DEF TInv
<1> QED
  BY <1>1, Invariant, PTL

(* At whichever statement the two threads are, when SendWorkerThread-      *)
(* Command wakes from its sleep the worker has taken the command it sent,  *)
(* and no wakeup is left over for the main thread's next exchange.         *)
THEOREM CommandTaken == Spec => []AnsweredMeansTaken
<1>1. TInv /\ Handshake => AnsweredMeansTaken
  BY DEF TInv, TypeOK, Handshake, Sending, Taken, Polling, Stopping, Resting, AtRest,
      AnsweredMeansTaken
<1> QED
  BY <1>1, Invariant, PTL

(* The argument was stored before the command that is run was read, though *)
(* the worker reads the argument first.                                    *)
THEOREM RightArgument == Spec => []ArgumentOfCommand
<1>1. Handshake => ArgumentOfCommand
  BY DEF Handshake
<1> QED
  BY <1>1, Invariant, PTL

(* The worker has left DumpMemoryCard and RestoreMemoryCard before the     *)
(* main thread closes the file and leaves the stack frame of the           *)
(* parameters, whatever a cancellation races with.                         *)
THEOREM FileOutlivesUse == Spec => []NoUseAfterClose
<1>1. TInv /\ Handshake => NoUseAfterClose
  BY DEF TInv, TypeOK, Handshake, Sending, Taking, Taken, Polling, Stopping, Resting, AtRest, Ended,
      TaskOfOp,
    Operation, Left, Ready, Working, FileInUse, NoUseAfterClose
<1> QED
  BY <1>1, Invariant, PTL

(* "Complete" is never reported of a dump that misses, repeats or mixes up *)
(* a cluster, or of a restore that left a block out, for every size.       *)
THEOREM CompleteExact == Spec => []CompleteIsExact
<1>1. TInv /\ Copied => CompleteIsExact
  <2> SUFFICES ASSUME TInv, Copied, main = "reboot", outcome = "complete"
               PROVE  /\ op = "dump" => dump = [i \in 1 .. NumUnits |-> card[i - 1]]
                      /\ op = "restore" => card = [u \in Units |-> InFile(u)]
    BY DEF CompleteIsExact
  <2>1. op \in Ops => Done
    BY DEF Copied, SeenIsDone
  <2>2. CASE op = "dump"
    BY <2>1, <2>2, UnitsAssumption DEF TInv, TypeOK, Ops, Done, Prefix
  <2>3. CASE op = "restore"
    BY <2>1, <2>3, UnitsAssumption DEF TInv, TypeOK, Ops, Done, Restored, Units
  <2> QED
    BY <2>2, <2>3
<1> QED
  BY <1>1, Invariant, PTL

(* Cancelled, failed or complete, a restore leaves in each block what was  *)
(* there, what belongs there, or a write of this very block that failed.   *)
THEOREM WritesInPlace == Spec => []RestoreWritesInPlace
<1>1. Copied => RestoreWritesInPlace
  BY DEF Copied
<1> QED
  BY <1>1, Invariant, PTL
=============================================================================
