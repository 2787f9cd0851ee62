---------------------------- MODULE WorkerThread ----------------------------
(***************************************************************************)
(* Dumping and restoring a memory card (system.c): the main thread hands a *)
(* command to the worker thread through WorkerThreadCmd/WorkerThreadArg    *)
(* with SleepThread/WakeupThread as the only synchronisation, then polls   *)
(* WorkerThreadResultCode while the worker copies the card with two        *)
(* buffers, one of which is in the hands of an asynchronous call to the    *)
(* MCTOOLS server on the IOP (mctools_rpc.c).                              *)
(*                                                                         *)
(* A wakeup of a thread that is not asleep is counted, and its next        *)
(* SleepThread returns at once.  Threads and server interleave freely.     *)
(***************************************************************************)
EXTENDS Integers, Sequences

CONSTANTS NumUnits,     \* clusters of a dump, blocks of a restore
          Faults        \* what may fail: "alloc", "send", "card", "disk"

ASSUME UnitsAssumption == NumUnits \in Nat \ {0}
ASSUME FaultsAssumption == Faults \subseteq {"alloc", "send", "card", "disk"}

VARIABLES
  main,        \* where the main thread is
  op,          \* what it performs: "none", "dump", "restore" or "exit"
  sending,     \* the command SendWorkerThreadCommand is sending
  seen,        \* its local copy of the worker's result code
  file,        \* "open" while the FILE and the parameter block on its stack live
  outcome,     \* what it reported last: "none", "complete", "cancelled", "error"
  cmd, arg,    \* WorkerThreadCmd, WorkerThreadArg
  res,         \* WorkerThreadResultCode
  wakes,       \* [Threads -> Nat]: wakeups not consumed yet
  worker,      \* where the worker is
  task, args,  \* its command and CommandArgs
  result,      \* result of the copy loop: "ok" or "failed"
  unit, bank,  \* the loop's cluster or block, and the buffer in turn
  bufs,        \* [Banks -> Content]: buffer1 and buffer2
  owned,       \* are they allocated?
  rpc,         \* the asynchronous call in flight
  lastErr,     \* ReceiveBuffer: how the last call ended
  dump,        \* the dump file, cluster after cluster
  card         \* [Units -> Content]: the memory card

mainVars == <<main, op, sending, seen, file, outcome>>
mailVars == <<cmd, arg, res>>
workerVars == <<worker, task, args, result, unit, bank, bufs, owned>>
serverVars == <<rpc, lastErr>>
vars == <<mainVars, mailVars, wakes, workerVars, serverVars, dump, card>>

Threads == {"main", "worker"}
Banks == {0, 1}
Units == 0 .. NumUnits - 1
Garbage == <<"garbage", 0>>             \* uninitialised memory
OnCard(u) == <<"card", u>>              \* what the card held at first
InFile(u) == <<"file", u>>              \* what the restoration source holds
Damaged == <<"damaged", 0>>             \* a block erased, or partly programmed
Content == {Garbage, Damaged} \cup {OnCard(u) : u \in Units} \cup {InFile(u) : u \in Units}
NoCall == [kind |-> "idle", unit |-> 0, bank |-> 0, data |-> Garbage]
OtherBank == 1 - bank

Init ==
  /\ main = "menu" /\ op = "none" /\ sending = "none" /\ seen = "ok"
  /\ file = "closed" /\ outcome = "none"
  /\ cmd = "none" /\ arg = "null" /\ res = "ok"
  /\ wakes = [t \in Threads |-> 0]
  /\ worker = "get_arg" /\ task = "none" /\ args = "null" /\ result = "ok"
  /\ unit = 0 /\ bank = 0 /\ bufs = [b \in Banks |-> Garbage] /\ owned = FALSE
  /\ rpc = NoCall /\ lastErr = "ok"
  /\ dump = <<>> /\ card = [u \in Units |-> OnCard(u)]

Wakeup(t) == wakes' = [wakes EXCEPT ![t] = @ + 1]
(* SleepThread returns when there is a wakeup to consume. *)
Awoken(t) == wakes[t] > 0 /\ wakes' = [wakes EXCEPT ![t] = @ - 1]

-----------------------------------------------------------------------------
(* The main thread.  A dump or a restore starts with a reboot of the IOP   *)
(* that keeps the main thread waiting for seconds; the worker, if it was   *)
(* still running, runs on until it sleeps.                                 *)
Settled == worker = "asleep" /\ wakes["worker"] = 0

(* The reboot, MCToolsFlushMCMANClusterCache, fopen. *)
Start(o) ==
  /\ main = "menu" /\ Settled
  /\ op' = o
  /\ lastErr' = "ok"
  /\ \/ /\ file' = "open" /\ main' = "set_cmd" /\ sending' = o
        /\ outcome' = "none"
        /\ dump' = IF o = "dump" THEN <<>> ELSE dump
     \/ /\ "disk" \in Faults
        /\ main' = "reboot" /\ outcome' = "error"
        /\ UNCHANGED <<file, sending, dump>>
  /\ UNCHANGED <<seen, mailVars, wakes, workerVars, rpc, card>>

\* Mutant: the worker is woken as soon as the command is set.
SendSetCmdAndWake ==
  /\ main = "set_cmd"
  /\ cmd' = sending /\ main' = "set_arg"
  /\ Wakeup("worker")
  /\ UNCHANGED <<op, sending, seen, file, outcome, arg, res, workerVars, serverVars, dump, card>>

(* SendWorkerThreadCommand, statement by statement. *)
SendSetCmd ==
  /\ main = "set_cmd"
  /\ cmd' = sending /\ main' = "set_arg"
  /\ UNCHANGED <<op, sending, seen, file, outcome, arg, res, wakes, workerVars, serverVars, dump, card>>

SendSetArg ==
  /\ main = "set_arg"
  /\ arg' = IF sending = "stop" THEN "null" ELSE "params"
  /\ main' = "wake"
  /\ UNCHANGED <<op, sending, seen, file, outcome, cmd, res, wakes, workerVars, serverVars, dump, card>>

SendWake ==
  /\ main = "wake"
  /\ Wakeup("worker")
  /\ main' = "sleep"
  /\ UNCHANGED <<op, sending, seen, file, outcome, mailVars, workerVars, serverVars, dump, card>>

SendSleep ==
  /\ main = "sleep"
  /\ Awoken("main")
  /\ main' = "wake_again"
  /\ UNCHANGED <<op, sending, seen, file, outcome, mailVars, workerVars, serverVars, dump, card>>

(* The second wakeup.  The state Send returns is ignored by every caller. *)
SendWakeAgain ==
  /\ main = "wake_again"
  /\ Wakeup("worker")
  /\ main' = IF sending # "stop" THEN "poll" ELSE IF op = "exit" THEN "terminate" ELSE "close"
  /\ UNCHANGED <<op, sending, seen, file, outcome, mailVars, workerVars, serverVars, dump, card>>

(* One turn of the polling loop: read the state, then the pad. *)
Poll ==
  /\ main = "poll"
  /\ seen' = res
  /\ main' = "pad"
  /\ UNCHANGED <<op, sending, file, outcome, mailVars, wakes, workerVars, serverVars, dump, card>>

(* The prompt stays up as long as the user likes; seen is not read again. *)
Cancel ==
  /\ main = "pad"
  /\ main' = "set_cmd" /\ sending' = "stop"
  /\ UNCHANGED <<op, seen, file, outcome, mailVars, wakes, workerVars, serverVars, dump, card>>

\* Mutant: BUSY is not taken for a command still running.
NoCancelForgetsBusy ==
  /\ main = "pad"
  /\ main' = IF seen = "accepted" THEN "poll" ELSE "close"
  /\ UNCHANGED <<op, sending, seen, file, outcome, mailVars, wakes, workerVars, serverVars, dump, card>>

NoCancel ==
  /\ main = "pad"
  /\ main' = IF seen \in {"accepted", "busy"} THEN "poll" ELSE "close"
  /\ UNCHANGED <<op, sending, seen, file, outcome, mailVars, wakes, workerVars, serverVars, dump, card>>

(* fclose; the outcome comes from the state the loop saw last. *)
Close ==
  /\ main = "close"
  /\ file' = "closed"
  /\ outcome' = CASE seen = "ok" -> "complete"
                  [] seen = "failed" -> "error"
                  [] OTHER -> "cancelled"
  /\ main' = "reboot"
  /\ UNCHANGED <<op, sending, seen, mailVars, wakes, workerVars, serverVars, dump, card>>

(* The IOP is rebooted; a call in flight never returns. *)
RebootIOP ==
  /\ main = "reboot"
  /\ rpc' = NoCall
  /\ main' = "menu" /\ op' = "none" /\ sending' = "none" /\ seen' = "ok"
  /\ UNCHANGED <<file, outcome, mailVars, wakes, workerVars, lastErr, dump, card>>

(* StopWorkerThread: a STOP nobody asked the worker to be ready for. *)
Quit ==
  /\ main = "menu"
  /\ main' = "set_cmd" /\ op' = "exit" /\ sending' = "stop"
  /\ UNCHANGED <<seen, file, outcome, mailVars, wakes, workerVars, serverVars, dump, card>>

Terminate ==
  /\ main = "terminate"
  /\ main' = "exited" /\ worker' = "gone"
  /\ UNCHANGED <<op, sending, seen, file, outcome, mailVars, wakes, task, args, result, unit, bank,
                 bufs, owned, serverVars, dump, card>>

MainNext ==
  \/ \E o \in {"dump", "restore"} : Start(o)
  \/ SendSetCmd \/ SendSetArg \/ SendWake \/ SendSleep \/ SendWakeAgain
  \/ Poll \/ Cancel \/ NoCancel \/ Close \/ RebootIOP \/ Quit \/ Terminate

-----------------------------------------------------------------------------
(* The worker's command loop.  GetWorkerThreadCommand reads the argument   *)
(* before the command, SetWorkerThreadCommand writes them the other way    *)
(* round.                                                                  *)
GetArg ==
  /\ worker = "get_arg"
  /\ args' = arg /\ worker' = "get_cmd"
  /\ UNCHANGED <<mainVars, mailVars, wakes, task, result, unit, bank, bufs, owned, serverVars, dump, card>>

GetCmd ==
  /\ worker = "get_cmd"
  /\ task' = cmd
  /\ worker' = CASE cmd = "none" -> "asleep"
                 [] cmd = "stop" -> "reject"
                 [] OTHER -> "accept"
  /\ UNCHANGED <<mainVars, mailVars, wakes, args, result, unit, bank, bufs, owned, serverVars, dump, card>>

(* case WORKER_THREAD_CMD_NONE *)
WakeUp ==
  /\ worker = "asleep"
  /\ Awoken("worker")
  /\ worker' = "get_arg"
  /\ UNCHANGED <<mainVars, mailVars, task, args, result, unit, bank, bufs, owned, serverVars, dump, card>>

\* Mutant: a rejected command is not answered.
RejectSilently ==
  /\ worker = "reject"
  /\ cmd' = "none" /\ arg' = "null" /\ res' = "failed"
  /\ worker' = "asleep"
  /\ UNCHANGED <<mainVars, wakes, task, args, result, unit, bank, bufs, owned, serverVars, dump, card>>

(* default: a STOP that finds nothing to stop *)
Reject ==
  /\ worker = "reject"
  /\ cmd' = "none" /\ arg' = "null" /\ res' = "failed"
  /\ Wakeup("main")
  /\ worker' = "asleep"
  /\ UNCHANGED <<mainVars, task, args, result, unit, bank, bufs, owned, serverVars, dump, card>>

(* The main thread sleeps until the wakeup that ends this step. *)
Accept ==
  /\ worker = "accept"
  /\ cmd' = "none" /\ arg' = "null" /\ res' = "accepted"
  /\ Wakeup("main")
  /\ worker' = "confirm"
  /\ UNCHANGED <<mainVars, task, args, result, unit, bank, bufs, owned, serverVars, dump, card>>

Begin ==
  /\ worker = "confirm"
  /\ Awoken("worker")
  /\ res' = "busy" /\ unit' = 0 /\ bank' = 0
  /\ \/ owned' = TRUE /\ result' = "ok" /\ worker' = "check"
     \/ "alloc" \in Faults /\ owned' = FALSE /\ result' = "failed" /\ worker' = "end"
  /\ UNCHANGED <<mainVars, cmd, arg, task, args, bufs, serverVars, dump, card>>

(* The test that ends the copy loops, and the poll for a STOP. *)
Check ==
  /\ worker = "check"
  /\ worker' = IF unit = NumUnits \/ cmd = "stop" THEN "flush"
               ELSE IF task = "dump" THEN "request" ELSE "read_file"
  /\ UNCHANGED <<mainVars, mailVars, wakes, task, args, result, unit, bank, bufs, owned, serverVars,
                 dump, card>>

Leave(r) == result' = r /\ worker' = "flush"

(* DumpMemoryCard: ask for the next cluster into the buffer in turn ... *)
DumpRequest ==
  /\ worker = "request" /\ rpc = NoCall
  /\ \/ /\ rpc' = [kind |-> "read", unit |-> unit, bank |-> bank, data |-> Garbage]
        /\ worker' = "write_file" /\ result' = result
     \/ "send" \in Faults /\ Leave("failed") /\ rpc' = rpc
  /\ UNCHANGED <<mainVars, mailVars, wakes, task, args, unit, bank, bufs, owned, lastErr, dump, card>>

\* Mutant: the buffer being filled is written to the file.
DumpWriteBankInTurn ==
  /\ worker = "write_file"
  /\ dump' = IF unit > 0 THEN Append(dump, bufs[bank]) ELSE dump
  /\ worker' = "sync" /\ result' = result
  /\ UNCHANGED <<mainVars, mailVars, wakes, task, args, unit, bank, bufs, owned, serverVars, card>>

(* ... and while it comes write the other one, which has the cluster before. *)
DumpWrite ==
  /\ worker = "write_file"
  /\ \/ /\ dump' = IF unit > 0 THEN Append(dump, bufs[OtherBank]) ELSE dump
        /\ worker' = "sync" /\ result' = result
     \/ unit > 0 /\ "disk" \in Faults /\ Leave("failed") /\ dump' = dump
  /\ UNCHANGED <<mainVars, mailVars, wakes, task, args, unit, bank, bufs, owned, serverVars, card>>

DumpSync ==
  /\ worker = "sync" /\ task = "dump"
  /\ rpc = NoCall
  /\ IF lastErr = "ok"
     THEN bank' = OtherBank /\ unit' = unit + 1 /\ worker' = "check" /\ result' = result
     ELSE Leave("failed") /\ UNCHANGED <<bank, unit>>
  /\ UNCHANGED <<mainVars, mailVars, wakes, task, args, bufs, owned, serverVars, dump, card>>

(* The cluster left when the loop has ended, however it has ended. *)
DumpLast ==
  /\ worker = "flush" /\ task = "dump"
  /\ \/ result = "ok" /\ dump' = Append(dump, bufs[OtherBank]) /\ result' = result
     \/ result = "ok" /\ "disk" \in Faults /\ dump' = dump /\ result' = "failed"
     \/ result = "failed" /\ UNCHANGED <<dump, result>>
  /\ worker' = "free"
  /\ UNCHANGED <<mainVars, mailVars, wakes, task, args, unit, bank, bufs, owned, serverVars, card>>

(* RestoreMemoryCard: read the next block while the last one is written ... *)
RestoreRead ==
  /\ worker = "read_file"
  /\ \/ /\ bufs' = [bufs EXCEPT ![bank] = InFile(unit)]
        /\ worker' = "sync" /\ result' = result
     \/ "disk" \in Faults /\ Leave("failed") /\ bufs' = bufs
  /\ UNCHANGED <<mainVars, mailVars, wakes, task, args, unit, bank, owned, serverVars, dump, card>>

RestoreSync ==
  /\ worker = "sync" /\ task = "restore"
  /\ rpc = NoCall
  /\ IF lastErr = "ok" THEN worker' = "request_write" /\ result' = result ELSE Leave("failed")
  /\ UNCHANGED <<mainVars, mailVars, wakes, task, args, unit, bank, bufs, owned, serverVars, dump, card>>

\* Mutant: the buffer of the block before is sent.
RestoreRequestOtherBank ==
  /\ worker = "request_write" /\ rpc = NoCall
  /\ rpc' = [kind |-> "write", unit |-> unit, bank |-> OtherBank, data |-> bufs[OtherBank]]
  /\ bank' = OtherBank /\ unit' = unit + 1 /\ worker' = "check" /\ result' = result
  /\ UNCHANGED <<mainVars, mailVars, wakes, task, args, bufs, owned, lastErr, dump, card>>

(* ... which MCToolsWriteBlock has copied to the IOP when it returns. *)
RestoreRequest ==
  /\ worker = "request_write" /\ rpc = NoCall
  /\ \/ /\ rpc' = [kind |-> "write", unit |-> unit, bank |-> bank, data |-> bufs[bank]]
        /\ bank' = OtherBank /\ unit' = unit + 1 /\ worker' = "check" /\ result' = result
     \/ "send" \in Faults /\ Leave("failed") /\ UNCHANGED <<rpc, bank, unit>>
  /\ UNCHANGED <<mainVars, mailVars, wakes, task, args, bufs, owned, lastErr, dump, card>>

RestoreLast ==
  /\ worker = "flush" /\ task = "restore"
  /\ rpc = NoCall
  /\ result' = IF lastErr = "ok" THEN result ELSE "failed"
  /\ worker' = "free"
  /\ UNCHANGED <<mainVars, mailVars, wakes, task, args, unit, bank, bufs, owned, serverVars, dump, card>>

Free ==
  /\ worker = "free"
  /\ owned' = FALSE /\ bufs' = [b \in Banks |-> Garbage]
  /\ worker' = "end"
  /\ UNCHANGED <<mainVars, mailVars, wakes, task, args, result, unit, bank, serverVars, dump, card>>

(* A STOP is answered here, whether or not the loop saw it. *)
AnswerStop ==
  /\ worker = "end"
  /\ worker' = IF cmd = "stop" THEN "clear_stop" ELSE "finish"
  /\ UNCHANGED <<mainVars, mailVars, wakes, task, args, result, unit, bank, bufs, owned, serverVars,
                 dump, card>>

\* Mutant: the STOP is answered but stays in the mailbox.
ClearStopLeavesCommand ==
  /\ worker = "clear_stop"
  /\ Wakeup("main")
  /\ worker' = "aborted"
  /\ UNCHANGED <<mainVars, mailVars, task, args, result, unit, bank, bufs, owned, serverVars, dump, card>>

ClearStop ==
  /\ worker = "clear_stop"
  /\ cmd' = "none" /\ arg' = "null"
  /\ Wakeup("main")
  /\ worker' = "aborted"
  /\ UNCHANGED <<mainVars, res, task, args, result, unit, bank, bufs, owned, serverVars, dump, card>>

Aborted ==
  /\ worker = "aborted"
  /\ res' = "aborted"
  /\ worker' = "finish"
  /\ UNCHANGED <<mainVars, cmd, arg, wakes, task, args, result, unit, bank, bufs, owned, serverVars,
                 dump, card>>

Finish ==
  /\ worker = "finish"
  /\ res' = result
  /\ worker' = "get_arg"
  /\ UNCHANGED <<mainVars, cmd, arg, wakes, task, args, result, unit, bank, bufs, owned, serverVars,
                 dump, card>>

WorkerNext ==
  \/ GetArg \/ GetCmd \/ WakeUp \/ Reject \/ Accept \/ Begin \/ Check
  \/ DumpRequest \/ DumpWrite \/ DumpSync \/ DumpLast
  \/ RestoreRead \/ RestoreSync \/ RestoreRequest \/ RestoreLast
  \/ Free \/ AnswerStop \/ ClearStop \/ Aborted \/ Finish

-----------------------------------------------------------------------------
(* The MCTOOLS server: the call ends, its data has been transferred, the   *)
(* end function signals AsyncRpcEndSema.  A read goes to the EE address    *)
(* it was given, allocated or not.                                         *)
CallSucceeds ==
  /\ rpc # NoCall
  /\ lastErr' = "ok" /\ rpc' = NoCall
  /\ IF rpc.kind = "read"
     THEN bufs' = [bufs EXCEPT ![rpc.bank] = IF owned THEN card[rpc.unit] ELSE @] /\ card' = card
     ELSE card' = [card EXCEPT ![rpc.unit] = rpc.data] /\ bufs' = bufs
  /\ UNCHANGED <<mainVars, mailVars, wakes, worker, task, args, result, unit, bank, owned, dump>>

(* A block write that fails may have erased the block already. *)
CallFails ==
  /\ rpc # NoCall /\ "card" \in Faults
  /\ lastErr' = "failed" /\ rpc' = NoCall
  /\ \/ card' = card
     \/ rpc.kind = "write" /\ card' = [card EXCEPT ![rpc.unit] = Damaged]
  /\ UNCHANGED <<mainVars, mailVars, wakes, workerVars, dump>>

ServerNext == CallSucceeds \/ CallFails

(* The program has ended. *)
Exited == main = "exited" /\ UNCHANGED vars

Next == MainNext \/ WorkerNext \/ ServerNext \/ Exited

Spec == Init /\ [][Next]_vars

(* Each thread, and the server, keeps running. *)
FairSpec ==
  /\ Spec
  /\ WF_vars(WorkerNext)
  /\ WF_vars(ServerNext)
  /\ WF_vars(SendSetCmd \/ SendSetArg \/ SendWake \/ SendSleep \/ SendWakeAgain \/ Poll
              \/ NoCancel \/ Close \/ RebootIOP \/ Terminate)

-----------------------------------------------------------------------------
(* The variables have their types. *)
TypeOK ==
  /\ main \in {"menu", "set_cmd", "set_arg", "wake", "sleep", "wake_again", "poll", "pad",
               "close", "reboot", "terminate", "exited"}
  /\ op \in {"none", "dump", "restore", "exit"}
  /\ sending \in {"none", "dump", "restore", "stop"}
  /\ seen \in {"ok", "accepted", "busy", "aborted", "failed"}
  /\ file \in {"closed", "open"}
  /\ outcome \in {"none", "complete", "cancelled", "error"}
  /\ cmd \in {"none", "dump", "restore", "stop"}
  /\ arg \in {"null", "params"}
  /\ res \in {"ok", "accepted", "busy", "aborted", "failed"}
  /\ wakes \in [Threads -> Nat]
  /\ worker \in {"get_arg", "get_cmd", "asleep", "reject", "accept", "confirm", "check", "request",
                 "write_file", "sync", "flush", "read_file", "request_write", "free", "end",
                 "clear_stop", "aborted", "finish", "gone"}
  /\ task \in {"none", "dump", "restore", "stop"}
  /\ args \in {"null", "params"}
  /\ result \in {"ok", "failed"}
  /\ unit \in 0 .. NumUnits
  /\ bank \in Banks
  /\ bufs \in [Banks -> Content]
  /\ owned \in BOOLEAN
  /\ rpc = NoCall \/ rpc \in [kind : {"read", "write"}, unit : Units, bank : Banks, data : Content]
  /\ lastErr \in {"ok", "failed"}
  /\ dump \in Seq(Content)
  /\ card \in [Units -> Content]

(* When SendWorkerThreadCommand wakes from its sleep, the worker has taken *)
(* this command: no command is lost, overwritten or answered twice, and no *)
(* wakeup of an earlier exchange is left over for the main thread.         *)
AnsweredMeansTaken ==
  /\ main = "wake_again" => cmd = "none" /\ wakes["main"] = 0
  /\ main \in {"menu", "set_cmd", "poll", "pad", "close", "reboot"} => wakes["main"] = 0

(* The worker runs a command with the argument it was sent with, though it *)
(* reads the two in separate steps.                                        *)
ArgumentOfCommand == worker \in {"accept", "confirm"} => args = "params"

(* The FILE and the parameter block, which are on the stack of the main    *)
(* thread, outlive every use the worker makes of them, STOP or not.        *)
FileInUse == worker \in {"confirm", "check", "request", "write_file", "sync", "flush",
                         "read_file", "request_write"}
NoUseAfterClose == FileInUse => file = "open" /\ op = task

(* "Complete" is reported only of a dump that holds every cluster of the   *)
(* card, each once and in order, and of a restore that wrote every block.  *)
CompleteIsExact ==
  main = "reboot" /\ outcome = "complete" =>
    /\ op = "dump" => dump = [i \in 1 .. NumUnits |-> card[i - 1]]
    /\ op = "restore" => card = [u \in Units |-> InFile(u)]

(* Whatever is cancelled or fails, a block of the card holds what it held  *)
(* before or the block of the file that belongs there, unless it was the   *)
(* write of this very block that failed.                                   *)
RestoreWritesInPlace == \A u \in Units : card[u] \in {OnCard(u), InFile(u), Damaged}

(* A dump holds a prefix of the card: "Let both buffers fill up with data  *)
(* first or an empty buffer might end up getting written instead".         *)
DumpIsPrefix == op = "dump" => \A i \in 1 .. Len(dump) : dump[i] = card[i - 1]

(* The buffer an asynchronous read was given is allocated until it ends.   *)
BuffersOutliveTransfers == rpc.kind = "read" => owned

(* A dump or restore ends, and so does SendWorkerThreadCommand. *)
OperationEnds == (main \notin {"menu", "exited"}) ~> (main \in {"menu", "exited"})
=============================================================================
