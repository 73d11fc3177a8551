------------------------------- MODULE PS2Port -------------------------------
(***************************************************************************)
(* The command queue of one PS/2 port, src/modules/arch/x86/ps2/port.c:   *)
(* the ring Commands[PS2_MAXCOMMANDS] with QueueIndex, ExecutionIndex and  *)
(* CurrentCommand, the threads that call PS2PortQueueCommand, and the      *)
(* interrupt path that hands every byte from the device to                 *)
(* PS2PortFinishCommand.  Nothing locks the port: a caller polls its       *)
(* command's volatile State while the interrupt path runs, so the steps of *)
(* both interleave at the statements that read or write shared fields.    *)
(* QueueIndex and ExecutionIndex are only used modulo PS2_MAXCOMMANDS and  *)
(* are kept modulo it.  The device is a FIFO of written bytes it answers.  *)
(***************************************************************************)
EXTENDS Integers, Sequences, FiniteSets

CONSTANTS
  Callers,      \* threads calling PS2PortQueueCommand on the port
  Cmds,         \* command bytes callers queue
  RespCmds,     \* those the device answers with a data byte after its ACK
  MaxCommands,  \* PS2_MAXCOMMANDS (4)
  MaxRetries,   \* PS2_MAX_RETRIES (3)
  MaxIssued,    \* bound on the commands each caller queues
  Timeouts,     \* TRUE: PS2PortWaitForState may give up after its second
  MaxFaults     \* bound on the RESEND and error bytes the device sends

ASSUME RespCmds \subseteq Cmds /\ MaxCommands \in Nat \ {0}
       /\ MaxRetries \in Nat /\ MaxIssued \in Nat
       /\ Timeouts \in BOOLEAN /\ MaxFaults \in Nat

Slots == 0 .. MaxCommands - 1
None == -1                      \* a NULL CurrentCommand
NoResp == "NULL"                \* a NULL Response pointer
Failed == "PS2_FAILED_COMMAND"
NoCmd == "0x00"                 \* a Command byte never written
\* The bytes the device sends: ACK, RESEND, a data byte, any other byte.
Bytes == {"ACK", "RESEND", "DATA", "ERROR"}

VARIABLES
  state,     \* Commands[i].State: "Free", "InQueue", "WaitingResponse"
  retry,     \* Commands[i].RetryCount
  command,   \* Commands[i].Command
  response,  \* Commands[i].Response: the caller whose buffer it is, or NoResp
  current,   \* CurrentCommand, as a slot or None
  execIdx,   \* ExecutionIndex
  queueIdx,  \* QueueIndex
  pc,        \* each caller's place in PS2PortQueueCommand
  slot,      \* each caller's pCommand
  arg,       \* each caller's Command argument
  result,    \* what each caller's last PS2PortQueueCommand returned
  issued,    \* how many commands each caller queued
  ipc,       \* the interrupt path: "idle", or "next" inside ExecuteNext
  nextExec,  \* ExecuteNext's NextExecutionIndex
  wire,      \* bytes written to the device, not yet answered: [slot, byte]
  fromDev,   \* bytes the device sent, not yet handled: [tag, byte]
  ticket,    \* which queued call each slot holds: [caller, n, cmd]
  faults     \* RESEND and error bytes the device sent so far

callerVars == <<pc, slot, arg, result, issued>>
vars == <<state, retry, command, response, current, execIdx, queueIdx,
          callerVars, ipc, nextExec, wire, fromDev, ticket, faults>>
NoTicket == [caller |-> "none", n |-> 0, cmd |-> NoCmd]

Init ==
  /\ state = [i \in Slots |-> "Free"]
  /\ retry = [i \in Slots |-> 0]
  /\ command = [i \in Slots |-> NoCmd]
  /\ response = [i \in Slots |-> NoResp]
  /\ current = None
  /\ execIdx = 0 /\ queueIdx = 0
  /\ pc = [c \in Callers |-> "idle"]
  /\ slot = [c \in Callers |-> 0]
  /\ arg = [c \in Callers |-> CHOOSE x \in Cmds : TRUE]
  /\ result = [c \in Callers |-> "none"]
  /\ issued = [c \in Callers |-> 0]
  /\ ipc = "idle" /\ nextExec = 0
  /\ wire = <<>> /\ fromDev = <<>>
  /\ ticket = [i \in Slots |-> NoTicket]
  /\ faults = 0

\* PS2PortWrite(Port, Command[s]): the byte goes to the device.
PS2PortWrite(s) ==
  wire' = Append(wire, [slot |-> s, byte |-> command[s], ticket |-> ticket[s]])

-----------------------------------------------------------------------------
(* PS2PortQueueCommand, one step per shared access                        *)

\* pCommand = &Commands[QueueIndex % PS2_MAXCOMMANDS], then the first wait.
Queue(c, cmd) ==
  /\ pc[c] = "idle" /\ issued[c] < MaxIssued
  /\ pc' = [pc EXCEPT ![c] = "waitFree"]
  /\ slot' = [slot EXCEPT ![c] = queueIdx]
  /\ arg' = [arg EXCEPT ![c] = cmd]
  /\ issued' = [issued EXCEPT ![c] = @ + 1]
  /\ UNCHANGED <<state, retry, command, response, current, execIdx, queueIdx,
                 result, ipc, nextExec, wire, fromDev, ticket, faults>>

\* PS2PortWaitForState(pCommand, PS2Free) returns: the slot is free, or
\* the second ran out and the call returns OsError.
WaitFree(c) ==
  /\ pc[c] = "waitFree"
  /\ \/ /\ state[slot[c]] = "Free"
        /\ pc' = [pc EXCEPT ![c] = "claim"]
        /\ UNCHANGED result
     \/ /\ Timeouts /\ state[slot[c]] # "Free"
        /\ pc' = [pc EXCEPT ![c] = "idle"]
        /\ result' = [result EXCEPT ![c] = "OsError"]
  /\ UNCHANGED <<state, retry, command, response, current, execIdx, queueIdx,
                 slot, arg, issued, ipc, nextExec, wire, fromDev, ticket, faults>>

\* QueueIndex++ and pCommand->State = PS2InQueue.
Claim(c) ==
  /\ pc[c] = "claim"
  /\ queueIdx' = (queueIdx + 1) % MaxCommands
  /\ state' = [state EXCEPT ![slot[c]] = "InQueue"]
  /\ ticket' = [ticket EXCEPT ![slot[c]] = [caller |-> c, n |-> issued[c],
                                              cmd |-> arg[c]]]
  /\ pc' = [pc EXCEPT ![c] = "fill"]
  /\ UNCHANGED <<retry, command, response, current, execIdx, slot, arg,
                 result, issued, ipc, nextExec, wire, fromDev, faults>>

\* RetryCount, Command and Response, written after the State.
Fill(c) ==
  /\ pc[c] = "fill"
  /\ retry' = [retry EXCEPT ![slot[c]] = 0]
  /\ command' = [command EXCEPT ![slot[c]] = arg[c]]
  /\ response' = [response EXCEPT ![slot[c]] =
                    IF arg[c] \in RespCmds THEN c ELSE NoResp]
  /\ pc' = [pc EXCEPT ![c] = "check"]
  /\ UNCHANGED <<state, current, execIdx, queueIdx, slot, arg, result,
                 issued, ipc, nextExec, wire, fromDev, ticket, faults>>

\* if (Port->CurrentCommand == NULL): the queue is idle, start it.
Check(c) ==
  /\ pc[c] = "check"
  /\ pc' = [pc EXCEPT ![c] = IF current = None THEN "start" ELSE "waitDone"]
  /\ UNCHANGED <<state, retry, command, response, current, execIdx, queueIdx,
                 slot, arg, result, issued, ipc, nextExec, wire, fromDev, ticket, faults>>

\* CurrentCommand = pCommand and PS2PortWrite(Port, Command).
Start(c) ==
  /\ pc[c] = "start"
  /\ current' = slot[c]
  /\ PS2PortWrite(slot[c])
  /\ pc' = [pc EXCEPT ![c] = "waitDone"]
  /\ UNCHANGED <<state, retry, command, response, execIdx, queueIdx, slot,
                 arg, result, issued, ipc, nextExec, fromDev, ticket, faults>>

\* return PS2PortWaitForState(pCommand, PS2Free).
WaitDone(c) ==
  /\ pc[c] = "waitDone"
  /\ \/ /\ state[slot[c]] = "Free"
        /\ result' = [result EXCEPT ![c] = "OsSuccess"]
     \/ /\ Timeouts /\ state[slot[c]] # "Free"
        /\ result' = [result EXCEPT ![c] = "OsError"]
  /\ pc' = [pc EXCEPT ![c] = "idle"]
  /\ UNCHANGED <<state, retry, command, response, current, execIdx, queueIdx,
                 slot, arg, issued, ipc, nextExec, wire, fromDev, ticket, faults>>

-----------------------------------------------------------------------------
(* The interrupt path: PS2PortFinishCommand and PS2PortExecuteNextCommand *)

\* Leave the switch for PS2PortExecuteNextCommand: NextExecutionIndex is
\* computed and CurrentCommand cleared.
ToNext ==
  /\ nextExec' = (execIdx + 1) % MaxCommands
  /\ current' = None
  /\ ipc' = "next"

\* Mutant: RetryCount is not checked.
CanRetryUnbounded(s) == TRUE

\* RetryCount < PS2_MAX_RETRIES: a RESEND may be retried once more.
CanRetry(s) == retry[s] < MaxRetries

(***************************************************************************)
(* PS2PortFinishCommand(Port, Result) for the next byte from the device.  *)
(* With no CurrentCommand the byte is ignored.  Otherwise the switch on    *)
(* its State: a RESEND is retried up to PS2_MAX_RETRIES times; an ACK      *)
(* frees the command or, with a response buffer, waits for the data byte;  *)
(* any other byte fails it; in PS2WaitingResponse the byte is stored in    *)
(* the caller's buffer.                                                    *)
(***************************************************************************)
FinishCommand ==
  /\ ipc = "idle" /\ fromDev # <<>>
  /\ fromDev' = Tail(fromDev)
  /\ LET b == Head(fromDev).byte
         s == current
     IN IF s = None THEN UNCHANGED <<state, retry, command, current,
                                     ipc, nextExec, wire>>
        ELSE CASE state[s] = "InQueue" /\ b = "RESEND" /\ CanRetry(s) ->
                    /\ retry' = [retry EXCEPT ![s] = @ + 1]
                    /\ PS2PortWrite(s)
                    /\ UNCHANGED <<state, command, current, ipc, nextExec>>
               [] state[s] = "InQueue" /\ b = "ACK" /\ response[s] # NoResp ->
                    /\ state' = [state EXCEPT ![s] = "WaitingResponse"]
                    /\ UNCHANGED <<retry, command, current, ipc, nextExec, wire>>
               [] state[s] = "InQueue" /\ b = "ACK" ->
                    /\ state' = [state EXCEPT ![s] = "Free"]
                    /\ ToNext
                    /\ UNCHANGED <<retry, command, wire>>
               [] state[s] = "InQueue" ->
                    /\ command' = [command EXCEPT ![s] = Failed]
                    /\ state' = [state EXCEPT ![s] = "Free"]
                    /\ ToNext
                    /\ UNCHANGED <<retry, wire>>
               [] state[s] = "WaitingResponse" ->
                    /\ state' = [state EXCEPT ![s] = "Free"]
                    /\ ToNext
                    /\ UNCHANGED <<retry, command, wire>>
               [] OTHER ->
                    /\ ToNext
                    /\ UNCHANGED <<state, retry, command, wire>>
  /\ UNCHANGED <<response, execIdx, queueIdx, callerVars, ticket, faults>>

\* PS2PortExecuteNextCommand: run the command after ExecutionIndex if it
\* is queued.
ExecuteNext ==
  /\ ipc = "next"
  /\ ipc' = "idle"
  /\ IF state[nextExec] = "InQueue"
     THEN /\ execIdx' = (execIdx + 1) % MaxCommands
          /\ current' = nextExec
          /\ PS2PortWrite(nextExec)
     ELSE UNCHANGED <<execIdx, current, wire>>
  /\ UNCHANGED <<state, retry, command, response, queueIdx, callerVars,
                 nextExec, fromDev, ticket, faults>>

-----------------------------------------------------------------------------
(* The device                                                             *)

\* The answers to one written byte: its ACK, followed by a data byte for
\* a command that has one, or a RESEND or an error byte.
Answers(w) ==
  LET tag(b) == [tag |-> w.ticket, byte |-> b]
  IN {IF w.byte \in RespCmds THEN <<tag("ACK"), tag("DATA")>>
      ELSE <<tag("ACK")>>}
     \cup (IF faults < MaxFaults THEN {<<tag("RESEND")>>, <<tag("ERROR")>>}
                                 ELSE {})

Device ==
  /\ wire # <<>>
  /\ \E a \in Answers(Head(wire)) :
       /\ fromDev' = fromDev \o a
       /\ faults' = IF a[1].byte \in {"RESEND", "ERROR"} THEN faults + 1 ELSE faults
  /\ wire' = Tail(wire)
  /\ UNCHANGED <<state, retry, command, response, current, execIdx, queueIdx,
                 callerVars, ipc, nextExec, ticket>>

Caller(c) ==
  \/ \E cmd \in Cmds : Queue(c, cmd)
  \/ WaitFree(c) \/ Claim(c) \/ Fill(c) \/ Check(c) \/ Start(c) \/ WaitDone(c)

Next ==
  \/ \E c \in Callers : Caller(c)
  \/ FinishCommand \/ ExecuteNext \/ Device

Spec == Init /\ [][Next]_vars

(***************************************************************************)
(* Fairness: the interrupt path handles every byte the device sends, the   *)
(* device answers every byte written to it, and a caller's thread keeps    *)
(* running (its polling loop sleeps and wakes on its own).                 *)
(***************************************************************************)
Fairness ==
  /\ WF_vars(FinishCommand) /\ WF_vars(ExecuteNext) /\ WF_vars(Device)
  /\ \A c \in Callers :
       WF_vars(WaitFree(c) \/ Claim(c) \/ Fill(c) \/ Check(c) \/ Start(c)
               \/ WaitDone(c))

FairSpec == Spec /\ Fairness

-----------------------------------------------------------------------------
(* Properties                                                             *)

Tickets == [caller : Callers, n : 1 .. MaxIssued, cmd : Cmds] \cup {NoTicket}

\* Every field keeps its type; RetryCount never passes PS2_MAX_RETRIES.
TypeOK ==
  /\ state \in [Slots -> {"Free", "InQueue", "WaitingResponse"}]
  /\ retry \in [Slots -> 0 .. MaxRetries]
  /\ command \in [Slots -> Cmds \cup {Failed, NoCmd}]
  /\ response \in [Slots -> Callers \cup {NoResp}]
  /\ current \in Slots \cup {None}
  /\ execIdx \in Slots /\ queueIdx \in Slots /\ nextExec \in Slots
  /\ pc \in [Callers -> {"idle", "waitFree", "claim", "fill", "check",
                          "start", "waitDone"}]
  /\ slot \in [Callers -> Slots] /\ arg \in [Callers -> Cmds]
  /\ result \in [Callers -> {"none", "OsSuccess", "OsError"}]
  /\ issued \in [Callers -> 0 .. MaxIssued]
  /\ ipc \in {"idle", "next"}
  /\ \A i \in 1 .. Len(wire) : wire[i].slot \in Slots
  /\ \A i \in 1 .. Len(fromDev) : fromDev[i].byte \in Bytes
  /\ ticket \in [Slots -> Tickets]
  /\ faults \in 0 .. MaxFaults

(***************************************************************************)
(* Every byte written to the device is the command the caller queued in    *)
(* that slot.  PS2PortQueueCommand marks the slot PS2InQueue before it     *)
(* writes Command, and PS2PortExecuteNextCommand sends any PS2InQueue slot.*)
(***************************************************************************)
WritesQueuedCommand ==
  \A i \in 1 .. Len(wire) : wire[i].byte = wire[i].ticket.cmd

(***************************************************************************)
(* The byte PS2PortFinishCommand applies to CurrentCommand answers a write *)
(* of that very queued call, not an earlier one: the command is freed, its *)
(* retries counted and its response stored on its own answers.             *)
(***************************************************************************)
ReplyMatchesCommand ==
  [][ipc = "idle" /\ fromDev # <<>> /\ current # None
       /\ fromDev' = Tail(fromDev)
     => Head(fromDev).tag = ticket[current]]_vars

(***************************************************************************)
(* No command waits in the ring while the port is idle: when the interrupt *)
(* path has finished and CurrentCommand is NULL, every PS2InQueue slot     *)
(* belongs to a caller that has yet to test CurrentCommand and start it.   *)
(* A stranded command is never sent, and its caller waits in vain.         *)
(***************************************************************************)
NoStrandedCommand ==
  (ipc = "idle" /\ current = None) =>
    \A s \in Slots : state[s] = "InQueue" =>
      \E c \in Callers : slot[c] = s /\ pc[c] \in {"fill", "check", "start"}

====
