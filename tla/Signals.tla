------------------------------ MODULE Signals ------------------------------
(***************************************************************************)
(* The signal subsystem of src/kernel/process/signal.c composed with the   *)
(* thread model: per thread the SignalQueue FIFO and the ActiveSignal      *)
(* slot, SignalCreate (with its wake-up of a thread that is not running),  *)
(* SignalHandle / SignalExecute and SignalReturn.  A signal dispatched to  *)
(* the process handler runs as a handler frame on the thread's signal      *)
(* context (ThreadingSignalDispatch, not in the sources); the frame ends   *)
(* with SignalReturn.  PhoenixTerminateAsh is not in the sources either;   *)
(* as the spec (4.3) says, it terminates the Ash with its threads at once, *)
(* which is ThreadingTerminateAshThreads(Ash->Id, 1, 1) on the caller.     *)
(***************************************************************************)
EXTENDS Threading, Sequences

CONSTANTS
  NUMSIGNALS,    \* signal numbers SignalCreate accepts lie below this
  SignalInputs,  \* signal numbers callers pass to SignalCreate
  MaxSignals     \* bound on the number of signals created in a behaviour

\* Thread->AshId: UUID_INVALID, or the one Ash of the model.
NoAsh  == 0
TheAsh == 1

\* ActiveSignal.Signal of a thread with no signal dispatching.
NoSignal == -1

\* GlbSignalIsDeadly: 0 ignore, 1 and 2 terminate, 3 stop.
SignalIsDeadly ==
  << 0, 1, 1, 2, 2, 2, 2, 2, 2, 1, 2, 2, 2, 1, 1, 1, 0, 0, 0, 0,
     0, 0, 0, 3, 3, 0, 3, 3, 1, 1, 2, 2, 0, 1, 0, 0, 0, 0 >>

ASSUME NUMSIGNALS = Len(SignalIsDeadly) /\ SignalInputs \subseteq Int

(***************************************************************************)
(* GlbSignalIsDeadly[Signal] and Target->SignalInformation[Signal] as the  *)
(* build reads them.  Inside the table the read is the entry; a negative   *)
(* index reads whatever byte lies before the array, any of the values.     *)
(* SignalInformation is zeroed by ThreadingCreateThread and never set, so  *)
(* no signal is blocked, except by such an out-of-bounds read.             *)
(***************************************************************************)
DeadlyReads(sig) ==
  IF sig \in 0 .. NUMSIGNALS - 1 THEN {SignalIsDeadly[sig + 1]} ELSE 0 .. 3
BlockedReads(sig) ==
  IF sig \in 0 .. NUMSIGNALS - 1 THEN {FALSE} ELSE BOOLEAN

VARIABLES
  ashOf,        \* Thread->AshId
  handler,      \* the Ash's SignalHandler is installed
  sigQueue,     \* Thread->SignalQueue, oldest first
  activeSignal, \* Thread->ActiveSignal.Signal
  frames,       \* handler frames dispatched on a thread and not returned
  sent,         \* signals created so far (bounded by MaxSignals)
  earlyJoin     \* history: a join returned while its target still ran

sigVars == <<ashOf, handler, sigQueue, activeSignal, frames, sent,
             earlyJoin>>
allVars == <<vars, sigVars>>

SigInit ==
  /\ Init
  /\ ashOf        = [t \in Ids |-> NoAsh]
  /\ handler      \in BOOLEAN
  /\ sigQueue     = [t \in Ids |-> << >>]
  /\ activeSignal = [t \in Ids |-> NoSignal]
  /\ frames       = [t \in Ids |-> 0]
  /\ sent         = 0
  /\ earlyJoin    = FALSE

-----------------------------------------------------------------------------
\* ThreadingCreateThread: the new thread takes Parent->AshId.
SigCreateThread(c) ==
  /\ CreateThread(c)
  /\ ashOf' = [ashOf EXCEPT ![nextId] = ashOf[current[c]]]
  /\ UNCHANGED <<handler, sigQueue, activeSignal, frames, sent, earlyJoin>>

\* ThreadingSwitchLevel: bind the calling thread to the Ash and yield.
SwitchLevel(c) ==
  LET t == current[c] IN
  /\ Runs(c)
  /\ t \notin IdleThreads
  /\ ashOf[t] = NoAsh
  /\ ashOf' = [ashOf EXCEPT ![t] = TheAsh]
  /\ Switch(c, finished, ready, FALSE)
  /\ UNCHANGED <<nextId, threads, parent, retCode, sleepOn, freed, joinOn,
                 joinSlept, staleJoin, exited>>
  /\ UNCHANGED <<handler, sigQueue, activeSignal, frames, sent, earlyJoin>>

(***************************************************************************)
(* SignalCreate(ThreadId, Signal) called by the thread on core c.  Only    *)
(* Signal >= NUMSIGNALS is refused, and a blocked signal; a refused call   *)
(* changes nothing.  The signal is appended to the target's queue, and a   *)
(* target that is not running is woken by SchedulerThreadSignal, which     *)
(* moves a parked thread to the ready set and leaves any other alone.      *)
(* Signals to an idle thread are left out: it never calls SignalHandle, so *)
(* they stay queued and have no effect.                                    *)
(***************************************************************************)
\* Mutant: the range check is off by one.
SignalCreateOffByOne(c, target, sig) ==
  LET parked == target \notin Running /\ sleepOn[target] # NoThread IN
  /\ Runs(c)
  /\ current[c] \notin IdleThreads
  /\ sent < MaxSignals
  /\ target \in threads \ IdleThreads
  /\ sig <= NUMSIGNALS
  /\ \E blocked \in BlockedReads(sig) : ~blocked
  /\ sigQueue' = [sigQueue EXCEPT ![target] = Append(@, sig)]
  /\ sent' = sent + 1
  /\ sleepOn' = IF parked THEN [sleepOn EXCEPT ![target] = NoThread]
                          ELSE sleepOn
  /\ ready' = IF parked THEN ready \cup {target} ELSE ready
  /\ UNCHANGED <<nextId, threads, parent, retCode, finished, current,
                 gcQueue, freed, joinOn, joinSlept, staleJoin, exited>>
  /\ UNCHANGED <<ashOf, handler, activeSignal, frames, earlyJoin>>

SignalCreate(c, target, sig) ==
  LET parked == target \notin Running /\ sleepOn[target] # NoThread IN
  /\ Runs(c)
  /\ current[c] \notin IdleThreads
  /\ sent < MaxSignals
  /\ target \in threads \ IdleThreads
  /\ sig < NUMSIGNALS
  /\ \E blocked \in BlockedReads(sig) : ~blocked
  /\ sigQueue' = [sigQueue EXCEPT ![target] = Append(@, sig)]
  /\ sent' = sent + 1
  /\ sleepOn' = IF parked THEN [sleepOn EXCEPT ![target] = NoThread]
                          ELSE sleepOn
  /\ ready' = IF parked THEN ready \cup {target} ELSE ready
  /\ UNCHANGED <<nextId, threads, parent, retCode, finished, current,
                 gcQueue, freed, joinOn, joinSlept, staleJoin, exited>>
  /\ UNCHANGED <<ashOf, handler, activeSignal, frames, earlyJoin>>

-----------------------------------------------------------------------------
(***************************************************************************)
(* PhoenixTerminateAsh(Process, Signal, 1, 1) called from thread t on core *)
(* c: ThreadingTerminateAshThreads walks Threads in registration order and *)
(* kills every thread of the Ash with TerminateInstantly.  Killing another *)
(* thread wakes its joiners and, if it is parked, the thread itself.  When *)
(* the walk reaches the caller, ThreadingKillThread yields, and a finished *)
(* thread never comes back: the threads registered after it are left.      *)
(***************************************************************************)
TerminateAsh(c, t) ==
  LET killed == {x \in threads : ashOf[x] = ashOf[t] /\ x < t} \cup {t}
      wake   == UNION {Sleepers(x) : x \in killed}
                  \cup {x \in killed \ {t} : sleepOn[x] # NoThread}
  IN
  /\ retCode' = [x \in Ids |-> IF x \in killed THEN 0 ELSE retCode[x]]
  /\ sleepOn' = [x \in Ids |-> IF x \in wake THEN NoThread ELSE sleepOn[x]]
  /\ Switch(c, finished \cup killed, ready \cup wake, FALSE)
  /\ UNCHANGED <<nextId, threads, parent, freed, joinOn, joinSlept,
                 staleJoin, exited>>

(***************************************************************************)
(* SignalExecute(Thread, Signal) for signal sig of thread t on core c,     *)
(* after the signal was popped and the queue left as q.  No Ash: the       *)
(* signal is freed.  No handler: a class 1 or 2 signal terminates the Ash, *)
(* any other is dropped.  Otherwise the signal is copied to ActiveSignal   *)
(* and dispatched to the handler.                                          *)
(***************************************************************************)
SignalExecute(c, t, sig, q, fr) ==
  /\ sigQueue' = [sigQueue EXCEPT ![t] = q]
  /\ IF ashOf[t] # NoAsh /\ handler
       THEN /\ activeSignal' = [activeSignal EXCEPT ![t] = sig]
            /\ frames' = [fr EXCEPT ![t] = @ + 1]
            /\ UNCHANGED vars
       ELSE /\ activeSignal' = [activeSignal EXCEPT ![t] = NoSignal]
            /\ frames' = fr
            /\ IF ashOf[t] # NoAsh
                 THEN \E cls \in DeadlyReads(sig) :
                        IF cls \in {1, 2} THEN TerminateAsh(c, t)
                                          ELSE UNCHANGED vars
                 ELSE UNCHANGED vars
  /\ UNCHANGED <<ashOf, handler, sent, earlyJoin>>

(***************************************************************************)
(* SignalHandle(ThreadId) for the thread running on core c: refused while  *)
(* ActiveSignal is set; otherwise the front of the queue, if any, is       *)
(* popped and executed.                                                    *)
(***************************************************************************)
\* Mutant: the check of the ActiveSignal slot is missing.
SignalHandleNoActiveCheck(c) ==
  LET t == current[c] IN
  /\ Runs(c)
  /\ t \notin IdleThreads
  /\ sigQueue[t] # << >>
  /\ SignalExecute(c, t, Head(sigQueue[t]), Tail(sigQueue[t]), frames)

SignalHandle(c) ==
  LET t == current[c] IN
  /\ Runs(c)
  /\ t \notin IdleThreads
  /\ activeSignal[t] = NoSignal
  /\ sigQueue[t] # << >>
  /\ SignalExecute(c, t, Head(sigQueue[t]), Tail(sigQueue[t]), frames)

(***************************************************************************)
(* SignalReturn, at the end of the handler frame of the thread on core c:  *)
(* ActiveSignal is cleared and SignalHandle runs again, so a queued signal *)
(* is dispatched before the thread goes back to what it was doing.         *)
(***************************************************************************)
SignalReturn(c) ==
  LET t  == current[c]
      fr == [frames EXCEPT ![t] = @ - 1]
  IN
  /\ Runs(c)
  /\ frames[t] > 0
  /\ IF sigQueue[t] = << >>
       THEN /\ activeSignal' = [activeSignal EXCEPT ![t] = NoSignal]
            /\ frames' = fr
            /\ UNCHANGED <<vars, ashOf, handler, sigQueue, sent, earlyJoin>>
       ELSE SignalExecute(c, t, Head(sigQueue[t]), Tail(sigQueue[t]), fr)

-----------------------------------------------------------------------------
(***************************************************************************)
(* The return of ThreadingJoinThread.  The join does not check that the    *)
(* target finished: any wake of the parked caller ends it.                  *)
(***************************************************************************)
SigJoinReturn(c) ==
  LET target == joinOn[current[c]] IN
  /\ JoinReturn(c)
  /\ earlyJoin' = (earlyJoin \/ target \in threads \ (finished \cup gcQueue))
  /\ UNCHANGED <<ashOf, handler, sigQueue, activeSignal, frames, sent>>

\* ThreadingCleanupThread also frees the thread's queued signals.
SigReap(t) ==
  /\ Reap(t)
  /\ sigQueue'     = [sigQueue EXCEPT ![t] = << >>]
  /\ activeSignal' = [activeSignal EXCEPT ![t] = NoSignal]
  /\ frames'       = [frames EXCEPT ![t] = 0]
  /\ UNCHANGED <<ashOf, handler, sent, earlyJoin>>

SigNext ==
  \/ \E c \in Cpus :
       \/ SigCreateThread(c)
       \/ SwitchLevel(c)
       \/ \E x \in Ids, sig \in SignalInputs : SignalCreate(c, x, sig)
       \/ SignalHandle(c)
       \/ SignalReturn(c)
       \/ SigJoinReturn(c)
       \/ /\ \/ \E code \in Codes : ExitThread(c, code)
             \/ \E x \in Ids, code \in Codes, inst \in BOOLEAN :
                  KillThread(c, x, code, inst)
             \/ \E x \in Ids : JoinLookup(c, x)
             \/ JoinSleep(c)
             \/ \E x \in Ids : DetachThread(c, x)
             \/ Timer(c)
          /\ UNCHANGED sigVars
  \/ \E t \in Ids : SigReap(t)

SigSpec == SigInit /\ [][SigNext]_allVars

-----------------------------------------------------------------------------
\* Properties.

SigTypeOK ==
  /\ TypeOK
  /\ ashOf \in [Ids -> {NoAsh, TheAsh}]
  /\ handler \in BOOLEAN
  /\ sigQueue \in [Ids -> Seq(0 .. NUMSIGNALS - 1)]
  /\ activeSignal \in [Ids -> {NoSignal} \cup 0 .. NUMSIGNALS - 1]
  /\ frames \in [Ids -> 0 .. MaxSignals]
  /\ sent \in 0 .. MaxSignals

(***************************************************************************)
(* Only one signal is dispatching on a thread at a time (spec 4.3, the     *)
(* ActiveSignal slot): SignalHandle never starts a handler frame while     *)
(* another frame of the same thread has not reached SignalReturn.          *)
(***************************************************************************)
OneActiveSignal == \A t \in Ids : frames[t] <= 1

(***************************************************************************)
(* ThreadingJoinThread returns only once its target has finished: a join   *)
(* that comes back while the target is still registered and not finished  *)
(* hands the caller the RetCode of a running thread.                       *)
(***************************************************************************)
JoinWaitsForTarget == ~earlyJoin

====
