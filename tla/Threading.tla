----------------------------- MODULE Threading -----------------------------
(***************************************************************************)
(* Thread lifecycle of the MollenOS kernel (src/kernel/threading.c):       *)
(* creation, exit, kill, join, detach, the context switch run on every     *)
(* timer tick and yield (ThreadingSwitch) and the deferred garbage         *)
(* collection of finished threads (ThreadingReap / ThreadingCleanupThread).*)
(*                                                                         *)
(* Every core runs one thread at a time.  A kernel call made by a running  *)
(* thread is one step; steps of different cores interleave.  The scheduler *)
(* (SchedulerThreadQueue/Schedule/Sleep/Signal/HandleSignalAll) is not     *)
(* part of the sources and is modelled from the spec: a ready set, and a   *)
(* sleep key per parked thread.                                            *)
(***************************************************************************)
EXTENDS Integers, FiniteSets

CONSTANTS
  NumCpus,     \* number of processor cores, each with its own idle thread
  MaxThreads,  \* bound on the ids handed out by GlbThreadId
  Codes        \* exit codes a thread may pass to exit or kill

ASSUME NumCpus \in Nat \ {0} /\ MaxThreads > NumCpus /\ Codes # {}

Cpus == 1..NumCpus
Ids  == 1..MaxThreads

\* UUID_INVALID: no parent, no wait key, no join in progress.
NoThread == 0

\* ThreadingEnable hands the first ids to the idle thread of each core.
IdleThread(c) == c
IdleThreads   == {IdleThread(c) : c \in Cpus}

\* Ids ThreadingCreateThread can hand out.
GeneralIds == NumCpus + 1 .. MaxThreads

VARIABLES
  nextId,    \* GlbThreadId, the next id atomic_fetch_add returns
  threads,   \* ids of the control blocks in the Threads collection
  parent,    \* Thread->ParentId
  retCode,   \* Thread->RetCode
  finished,  \* threads whose Flags carry THREADING_FINISHED
  current,   \* Core->CurrentThread of each core
  ready,     \* threads queued in the scheduler
  sleepOn,   \* wait key a parked thread sleeps on (a thread id), or NoThread
  gcQueue,   \* threads handed to the collector by GcSignal, not reaped yet
  freed,     \* control blocks released by ThreadingCleanupThread
  joinOn,    \* target a thread looked up in ThreadingJoinThread
  joinSlept, \* joiners past their SchedulerThreadSleep on the target
  staleJoin, \* history: some join returned RetCode of a freed block
  exited     \* history: threads that called ThreadingExitThread

vars == <<nextId, threads, parent, retCode, finished, current, ready,
          sleepOn, gcQueue, freed, joinOn, joinSlept, staleJoin, exited>>

-----------------------------------------------------------------------------
\* Scheduler interface, modelled from the spec (section 4.2).

\* SchedulerHandleSignalAll(key): every thread parked on key becomes ready.
Sleepers(key) == {t \in Ids : sleepOn[t] = key}

(***************************************************************************)
(* ThreadingSwitch(Current, PreEmptive, Context) on core c, given the      *)
(* flags, ready set and sleep state as the calling step left them.  A      *)
(* finished outgoing thread is handed to the collector and its state       *)
(* cleared; an outgoing thread that is neither finished, idle nor asleep   *)
(* is queued again by SchedulerThreadSchedule.  The GetNextThread loop     *)
(* hands every finished thread the scheduler returns to the collector and  *)
(* asks again; which ready thread comes out is the scheduler's choice.     *)
(* When nothing is ready the core runs its idle thread.                    *)
(***************************************************************************)
\* Mutant: the chosen thread is left in the ready queue as well.
SwitchKeepsNext(c, fin, rdy, asleep) ==
  LET cur   == current[c]
      out   == IF cur \in fin THEN {cur} ELSE {}
      queue == IF cur \in fin \cup IdleThreads \/ asleep
                 THEN rdy ELSE rdy \cup {cur}
      live  == queue \ fin
  IN \E reaped \in SUBSET (queue \cap fin) :
       \E next \in live \cup {IdleThread(c)} :
         /\ next = IdleThread(c) => live = {} /\ reaped = queue \cap fin
         /\ current'  = [current EXCEPT ![c] = next]
         /\ ready'    = queue \ reaped
         /\ gcQueue'  = gcQueue \cup out \cup reaped
         /\ finished' = fin \ (out \cup reaped)

\* Mutant: a finished outgoing thread is not signalled to the collector.
SwitchNoGcSignal(c, fin, rdy, asleep) ==
  LET cur   == current[c]
      out   == IF cur \in fin THEN {cur} ELSE {}
      queue == IF cur \in fin \cup IdleThreads \/ asleep
                 THEN rdy ELSE rdy \cup {cur}
      live  == queue \ fin
  IN \E reaped \in SUBSET (queue \cap fin) :
       \E next \in live \cup {IdleThread(c)} :
         /\ next = IdleThread(c) => live = {} /\ reaped = queue \cap fin
         /\ current'  = [current EXCEPT ![c] = next]
         /\ ready'    = queue \ (reaped \cup {next})
         /\ gcQueue'  = gcQueue \cup reaped
         /\ finished' = fin \ (out \cup reaped)

Switch(c, fin, rdy, asleep) ==
  LET cur   == current[c]
      out   == IF cur \in fin THEN {cur} ELSE {}
      queue == IF cur \in fin \cup IdleThreads \/ asleep
                 THEN rdy ELSE rdy \cup {cur}
      live  == queue \ fin
  IN \E reaped \in SUBSET (queue \cap fin) :
       \E next \in live \cup {IdleThread(c)} :
         /\ next = IdleThread(c) => live = {} /\ reaped = queue \cap fin
         /\ current'  = [current EXCEPT ![c] = next]
         /\ ready'    = queue \ (reaped \cup {next})
         /\ gcQueue'  = gcQueue \cup out \cup reaped
         /\ finished' = fin \ (out \cup reaped)

-----------------------------------------------------------------------------
Init ==
  /\ nextId   = NumCpus + 1
  /\ threads  = IdleThreads
  /\ parent   = [t \in Ids |-> NoThread]
  /\ retCode  = [t \in Ids |-> 0]
  /\ finished = {}
  /\ current  = [c \in Cpus |-> IdleThread(c)]
  /\ ready    = {}
  /\ sleepOn  = [t \in Ids |-> NoThread]
  /\ gcQueue  = {}
  /\ freed    = {}
  /\ joinOn   = [t \in Ids |-> NoThread]
  /\ joinSlept = {}
  /\ staleJoin = FALSE
  /\ exited   = {}

\* A thread running on core c that is not in the middle of a join.
Runs(c) == joinOn[current[c]] = NoThread

\* ThreadingCreateThread: take the next id, register, queue for execution.
CreateThread(c) ==
  /\ Runs(c)
  /\ nextId <= MaxThreads
  /\ nextId'  = nextId + 1
  /\ threads' = threads \cup {nextId}
  /\ parent'  = [parent EXCEPT ![nextId] = current[c]]
  /\ ready'   = ready \cup {nextId}
  /\ UNCHANGED <<retCode, finished, current, sleepOn, gcQueue, freed,
                 joinOn, joinSlept, staleJoin, exited>>

(***************************************************************************)
(* ThreadingExitThread(ExitCode).  The loop meant to kill the children     *)
(* calls ThreadingKillThread(Thread->Id, ...) with the caller's own id, so *)
(* each iteration only marks the caller finished and wakes its joiners     *)
(* again; no child is touched.  Then the code is stored, the thread        *)
(* marked finished, its joiners woken and the core yields.                 *)
(***************************************************************************)
ExitThread(c, code) ==
  LET t == current[c] IN
  /\ Runs(c)
  /\ t \notin IdleThreads
  /\ retCode' = [retCode EXCEPT ![t] = code]
  /\ sleepOn' = [x \in Ids |-> IF sleepOn[x] = t THEN NoThread ELSE sleepOn[x]]
  /\ Switch(c, finished \cup {t}, ready \cup Sleepers(t), FALSE)
  /\ exited'  = exited \cup {t}
  /\ UNCHANGED <<nextId, threads, parent, freed, joinOn, joinSlept,
                 staleJoin>>

\* ThreadingGetThread(ThreadId) # NULL: the foreach over Threads finds the id.
GetThread(x) == x \in threads

(***************************************************************************)
(* ThreadingKillThread(ThreadId, ExitCode, TerminateInstantly) called by   *)
(* the thread on core c.  Unknown and idle targets are refused.  The       *)
(* target is marked finished and its joiners woken.  Instantly: a caller   *)
(* killing itself yields; another target is woken by SchedulerThreadSignal *)
(* when it sleeps, and otherwise its core is kicked (ThreadingWakeCpu),    *)
(* which only brings forward the switch that core's timer performs anyway. *)
(***************************************************************************)
KillThread(c, target, code, instantly) ==
  LET t    == current[c]
      wake == Sleepers(target) \cup
                (IF instantly /\ target # t /\ sleepOn[target] # NoThread
                   THEN {target} ELSE {})
      slp  == [x \in Ids |-> IF x \in wake THEN NoThread ELSE sleepOn[x]]
  IN
  /\ Runs(c)
  /\ GetThread(target)
  /\ target \notin IdleThreads
  /\ retCode' = [retCode EXCEPT ![target] = code]
  /\ sleepOn' = slp
  /\ IF instantly /\ target = t
       THEN Switch(c, finished \cup {target}, ready \cup wake, FALSE)
       ELSE /\ finished' = finished \cup {target}
            /\ ready'    = ready \cup wake
            /\ UNCHANGED <<current, gcQueue>>
  /\ UNCHANGED <<nextId, threads, parent, freed, joinOn, joinSlept,
                 staleJoin, exited>>

(***************************************************************************)
(* ThreadingJoinThread(ThreadId) in three steps.  JoinLookup: the caller   *)
(* looks the target up (ThreadingGetThread); an unknown id returns -1 at   *)
(* once.  JoinSleep: the caller parks on the control block it found,       *)
(* unconditionally (even when the target has finished meanwhile), and the  *)
(* core switches away.  Nothing holds the target between the two, so a     *)
(* timer tick may preempt the caller there and another core may run, exit  *)
(* and reap the target.                                                     *)
(***************************************************************************)
JoinLookup(c, target) ==
  LET t == current[c] IN
  /\ Runs(c)
  /\ t \notin IdleThreads
  /\ GetThread(target)
  /\ joinOn' = [joinOn EXCEPT ![t] = target]
  /\ UNCHANGED <<nextId, threads, parent, retCode, finished, current, ready,
                 sleepOn, gcQueue, freed, joinSlept, staleJoin, exited>>

\* Mutant: the caller sleeps on its own control block instead of the target.
JoinSleepSelfKey(c) ==
  LET t == current[c] IN
  /\ joinOn[t] # NoThread /\ t \notin joinSlept
  /\ sleepOn'   = [sleepOn EXCEPT ![t] = t]
  /\ joinSlept' = joinSlept \cup {t}
  /\ Switch(c, finished, ready, TRUE)
  /\ UNCHANGED <<nextId, threads, parent, retCode, freed, joinOn, staleJoin,
                 exited>>

JoinSleep(c) ==
  LET t == current[c] IN
  /\ joinOn[t] # NoThread /\ t \notin joinSlept
  /\ sleepOn'   = [sleepOn EXCEPT ![t] = joinOn[t]]
  /\ joinSlept' = joinSlept \cup {t}
  /\ Switch(c, finished, ready, TRUE)
  /\ UNCHANGED <<nextId, threads, parent, retCode, freed, joinOn, staleJoin,
                 exited>>

(***************************************************************************)
(* Last step: once woken and scheduled again the joiner returns            *)
(* Target->RetCode through the pointer it looked up before sleeping.  If   *)
(* the collector has freed that control block meanwhile the read is of     *)
(* released heap memory; the value returned is then meaningless, and the   *)
(* model records only that the read happened.                              *)
(***************************************************************************)
JoinReturn(c) ==
  LET t      == current[c]
      target == joinOn[t]
  IN
  /\ t \in joinSlept
  /\ staleJoin' = (staleJoin \/ target \in freed)
  /\ joinOn'    = [joinOn EXCEPT ![t] = NoThread]
  /\ joinSlept' = joinSlept \ {t}
  /\ UNCHANGED <<nextId, threads, parent, retCode, finished, current, ready,
                 sleepOn, gcQueue, freed, exited>>

\* ThreadingDetachThread: a known target loses its parent.
DetachThread(c, target) ==
  /\ Runs(c)
  /\ current[c] \notin IdleThreads
  /\ GetThread(target)
  /\ parent' = [parent EXCEPT ![target] = NoThread]
  /\ UNCHANGED <<nextId, threads, retCode, finished, current, ready, sleepOn,
                 gcQueue, freed, joinOn, joinSlept, staleJoin, exited>>

\* ApicTimerHandler: the preemptive switch on every timer tick of core c.
Timer(c) ==
  /\ Switch(c, finished, ready, FALSE)
  /\ UNCHANGED <<nextId, threads, parent, retCode, sleepOn, freed, joinOn,
                 joinSlept, staleJoin, exited>>

(***************************************************************************)
(* ThreadingCleanupThread wakes whoever still sleeps on the thread,       *)
(* dequeues it from the scheduler (ready set and sleep queues alike),     *)
(* unregisters it and frees the control block.  ThreadingReap, run by the *)
(* collector for a thread GcSignal handed it, first removes it from       *)
(* Threads.                                                                *)
(***************************************************************************)
CleanupThread(t) ==
  /\ sleepOn'  = [x \in Ids |-> IF sleepOn[x] = t \/ x = t
                                  THEN NoThread ELSE sleepOn[x]]
  /\ ready'    = (ready \cup Sleepers(t)) \ {t}
  /\ finished' = finished \ {t}
  /\ freed'    = freed \cup {t}

Reap(t) ==
  /\ t \in gcQueue
  /\ threads'  = threads \ {t}
  /\ gcQueue'  = gcQueue \ {t}
  /\ CleanupThread(t)
  /\ UNCHANGED <<nextId, parent, retCode, current, joinOn, joinSlept,
                 staleJoin, exited>>

Next ==
  \/ \E c \in Cpus :
       \/ CreateThread(c)
       \/ \E code \in Codes : ExitThread(c, code)
       \/ \E x \in Ids, code \in Codes, inst \in BOOLEAN :
            KillThread(c, x, code, inst)
       \/ \E x \in Ids : JoinLookup(c, x)
       \/ JoinSleep(c)
       \/ JoinReturn(c)
       \/ \E x \in Ids : DetachThread(c, x)
       \/ Timer(c)
  \/ \E t \in Ids : Reap(t)

(***************************************************************************)
(* Fairness.  ApicTimerHandler re-arms the local APIC timer of a core that *)
(* runs a thread and disarms it while the core runs its idle thread; an    *)
(* idle core resumes on the next interrupt, which the spec has the         *)
(* scheduler raise when it queues work.  So a core switches eventually     *)
(* when it runs a thread or when threads are ready.  The scheduler's       *)
(* feedback queues keep any ready thread from starving (spec, 4.2): one    *)
(* that is ready again and again is eventually taken.  The collector       *)
(* thread eventually runs.  A thread woken from a join and scheduled again *)
(* and again eventually executes the rest of ThreadingJoinThread: its     *)
(* sleep after the lookup, and its return after the wake-up.              *)
(* Thread code otherwise (create, exit, kill, join, detach) gets no        *)
(* fairness.                                                               *)
(***************************************************************************)
Fairness ==
  /\ \A c \in Cpus :
       WF_vars(Timer(c) /\ (current[c] \notin IdleThreads \/ ready # {}))
  /\ \A c \in Cpus : SF_vars(JoinSleep(c))
  /\ \A c \in Cpus : SF_vars(JoinReturn(c))
  /\ \A t \in GeneralIds : SF_vars(\E c \in Cpus : Timer(c) /\ t \notin ready')
  /\ \A t \in GeneralIds : WF_vars(Reap(t))

Spec == Init /\ [][Next]_vars /\ Fairness

-----------------------------------------------------------------------------
\* Properties.

\* Placement of a thread, as the scheduler data and Core->CurrentThread say.
Sleeping == {t \in Ids : sleepOn[t] # NoThread}
Running  == {current[c] : c \in Cpus}

TypeOK ==
  /\ threads \subseteq Ids /\ finished \subseteq Ids
  /\ parent \in [Ids -> Ids \cup {NoThread}]
  /\ retCode \in [Ids -> Codes \cup {0}]
  /\ current \in [Cpus -> Ids]
  /\ ready \subseteq Ids /\ gcQueue \subseteq Ids /\ freed \subseteq Ids
  /\ sleepOn \in [Ids -> Ids \cup {NoThread}]
  /\ joinOn \in [Ids -> Ids \cup {NoThread}]
  /\ joinSlept \subseteq Ids
  /\ exited \subseteq Ids

(***************************************************************************)
(* The context switch and the wake paths never put one thread in two       *)
(* places: no thread is current on two cores, a running thread is neither *)
(* queued nor parked, and a parked thread is not queued.                   *)
(***************************************************************************)
ThreadPlacement ==
  /\ \A c1, c2 \in Cpus : c1 # c2 => current[c1] # current[c2]
  /\ Running \cap (ready \cup Sleeping) = {}
  /\ ready \cap Sleeping = {}

(***************************************************************************)
(* A control block the collector has freed is never run again: no core's   *)
(* CurrentThread and no ready-queue entry points to it.                     *)
(***************************************************************************)
RunningNeverFreed == (Running \cup ready) \cap freed = {}

(***************************************************************************)
(* ThreadingJoinThread never reads RetCode through a control block the     *)
(* collector has already freed.                                            *)
(***************************************************************************)
JoinNoStaleRead == ~staleJoin

(***************************************************************************)
(* A thread that exits is eventually reaped and freed by the collector.    *)
(***************************************************************************)
ExitedEventuallyReaped == \A t \in GeneralIds : t \in exited ~> t \in freed

KilledEventuallyReaped == \A t \in GeneralIds : t \in finished ~> t \in freed

(***************************************************************************)
(* A thread parked in ThreadingJoinThread on a target that exits comes     *)
(* back from the join, unless it is collected itself.                      *)
(***************************************************************************)
JoinerResumes ==
  \A t, x \in GeneralIds :
    (joinOn[t] = x /\ x \in exited) ~> (joinOn[t] = NoThread \/ t \in freed)

=============================================================================
