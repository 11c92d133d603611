---------------------------- MODULE TimerService ----------------------------
(***************************************************************************)
(* The timer driver of HalTimer under the soft timers of the CANopen stack *)
(* that calls it.  The stack is a git submodule and not part of the        *)
(* repository: its side (COTmrCreate, COTmrInsert, COTmrProcess,           *)
(* COTmrService) is modelled from how the repository uses it (NodeTick,    *)
(* ISROSTimer, COTmrLock) and from the system calls its README traces.     *)
(*                                                                         *)
(* The stack chains its running actions behind the earliest one, for which *)
(* the OS timer is armed; an action is represented by its offset from that *)
(* head.  Main creates actions and takes elapsed ones (COTmrProcess); the  *)
(* SIGEV_THREAD threads run COTmrService, which moves the head to the      *)
(* elapsed list and reloads the timer for the next one.  Whether           *)
(* COTmrService takes COTmrLock is not to be seen in the repository:       *)
(* ServiceLocks says so.                                                   *)
(***************************************************************************)
EXTENDS HalTimer

CONSTANTS
  Acts,        \* the timer actions the node uses
  NoAct,       \* not an action
  Cycle,       \* the cycle time of each action in ticks, 0 for a one-shot
  Delays,      \* the start times an action may be created with, in ticks
  ServiceLocks \* does COTmrService() run under COTmrLock()

ASSUME ActAssumption == NoAct \notin Acts
ASSUME DelayAssumption == Delays \subseteq Nat \ {0}
ASSUME CycleAssumption == Cycle \in [Acts -> Delays \cup {0}]
ASSUME LockAssumption == ServiceLocks \in BOOLEAN

VARIABLES
  pending,  \* the actions in the stack's list of running timers
  off,      \* how long after the head of that list each of them elapses
  elapsed,  \* the actions in its list of elapsed timers
  cur,      \* the action main is inserting
  wait,     \* the ticks main is inserting it with
  empty,    \* did main find the list of running timers empty
  seen,     \* what Delay() told main
  due,      \* history: in how many nanoseconds, then, each action was to elapse
  passed    \* history: how many the OS timer has counted since

historyVars == <<due, passed>>
stackVars == <<pending, off, elapsed, cur, wait, empty, seen, due, passed>>
vars == <<halVars, stackVars>>

Init ==
  /\ HalInit
  /\ pending = {} /\ elapsed = {} /\ cur = NoAct
  /\ off = [a \in Acts |-> 0]
  /\ wait = 0 /\ seen = 0 /\ empty = TRUE
  /\ due = [a \in Acts |-> 0] /\ passed = 0

Idle(a) == a \notin pending \cup elapsed \cup {cur}

-----------------------------------------------------------------------------
(* Main.                                                                   *)

Boot == (InitDriver \/ LinkTimer) /\ UNCHANGED stackVars

\* COTmrCreate(), from NodeStart(), a PDO or an NMT command.
Create(a) ==
  /\ Goto(Main, "loop", "lock")
  /\ Idle(a)
  /\ cur' = a
  /\ wait' \in Delays
  /\ UNCHANGED <<timerId, linked, tempSec, tempNanosec, remaining, lock, arg>>
  /\ UNCHANGED <<pending, off, elapsed, empty, seen, historyVars>>

\* COTmrProcess() takes one elapsed action, calls it, and inserts a cyclic one
\* again.
Take(a) ==
  /\ pc[Main] = "loop"
  /\ Free
  /\ a \in elapsed
  /\ elapsed' = elapsed \ {a}
  /\ IF Cycle[a] = 0
       THEN UNCHANGED <<pc, cur, wait>>
       ELSE /\ pc' = [pc EXCEPT ![Main] = "lock"]
            /\ cur' = a
            /\ wait' = Cycle[a]
  /\ UNCHANGED <<timerId, linked, tempSec, tempNanosec, remaining, lock, arg>>
  /\ UNCHANGED <<pending, off, empty, seen, historyVars>>

LockMain ==
  /\ Goto(Main, "lock", "read")
  /\ Lock(Main)
  /\ UNCHANGED <<timerId, linked, tempSec, tempNanosec, remaining, arg>>
  /\ UNCHANGED stackVars

\* COTmrInsert() looks at the list and asks the driver what is left.
ReadDelay ==
  /\ Goto(Main, "read", "place")
  /\ empty' = (pending = {})
  /\ seen' = Delay
  /\ due' = [a \in Acts |-> IF a = cur THEN wait * TickRate
                           ELSE IF a \in pending THEN remaining + off[a] * TickRate ELSE 0]
  /\ UNCHANGED <<timerId, linked, tempSec, tempNanosec, remaining, lock, arg>>
  /\ UNCHANGED <<pending, off, elapsed, cur, wait, passed>>

\* The new action becomes the head and the timer is reloaded for it.
PlaceFirst ==
  /\ empty \/ wait < seen
  /\ Goto(Main, "place", "nsec")
  /\ off' = [a \in Acts |-> IF a \in pending THEN off[a] + (seen - wait) ELSE 0]
  /\ arg' = [arg EXCEPT ![Main] = wait]
  /\ UNCHANGED lock

\* The new action goes behind the head and the timer is left alone.
PlaceLater ==
  /\ ~(empty \/ wait < seen)
  /\ Goto(Main, "place", "unlock")
  /\ off' = [off EXCEPT ![cur] = wait - seen]
  /\ UNCHANGED <<lock, arg>>

Place ==
  /\ PlaceFirst \/ PlaceLater
  /\ pending' = pending \cup {cur}
  /\ cur' = NoAct /\ wait' = 0 /\ seen' = 0
  /\ UNCHANGED <<timerId, linked, tempSec, tempNanosec, remaining>>
  /\ UNCHANGED <<elapsed, empty, historyVars>>

\* Reload(), and Start() too when the list was empty.
ReloadMain ==
  /\ \/ ReloadNanosec(Main)
     \/ ReloadSec(Main)
     \/ ReloadArm(Main, IF empty THEN "start" ELSE "unlock")
     \/ Start(Main)
  /\ UNCHANGED stackVars

UnlockMain ==
  /\ Goto(Main, "unlock", "loop")
  /\ Unlock(Main)
  /\ empty' = TRUE
  /\ due' = [a \in Acts |-> 0] /\ passed' = 0
  /\ UNCHANGED <<timerId, linked, tempSec, tempNanosec, remaining, arg>>
  /\ UNCHANGED <<pending, off, elapsed, cur, wait, seen>>

-----------------------------------------------------------------------------
(* The threads of ISROSTimer().                                            *)

EnterService(i) ==
  /\ Goto(i, "spawned", "pop")
  /\ IF ServiceLocks THEN Lock(i) ELSE UNCHANGED lock
  /\ UNCHANGED <<timerId, linked, tempSec, tempNanosec, remaining, arg>>
  /\ UNCHANGED stackVars

\* COTmrService() is told that nothing elapsed, or has no action running.
PopNothing(i) ==
  /\ Update = 0 \/ pending = {}
  /\ Goto(i, "pop", "unlock")
  /\ UNCHANGED <<pending, off, elapsed, arg>>

Earliest == {a \in pending : \A b \in pending : off[a] <= off[b]}

\* COTmrService() moves the head to the elapsed list; it stops the timer when
\* that was the last one.
PopLast(i) ==
  /\ Update > 0 /\ pending # {}
  /\ Earliest = pending
  /\ Goto(i, "pop", "stop")
  /\ pending' = {}
  /\ off' = [a \in Acts |-> 0]
  /\ elapsed' = elapsed \cup Earliest
  /\ UNCHANGED arg

\* Otherwise it reloads the timer with what separates the next from the head.
PopNext(i) ==
  /\ Update > 0
  /\ Goto(i, "pop", "nsec")
  /\ \E h \in Earliest, n \in pending \ Earliest :
       /\ \A b \in pending \ Earliest : off[n] <= off[b]
       /\ arg' = [arg EXCEPT ![i] = off[n] - off[h]]
       /\ off' = [a \in Acts |-> IF a \in pending \ Earliest THEN off[a] - off[n] ELSE 0]
  /\ pending' = pending \ Earliest
  /\ elapsed' = elapsed \cup Earliest

Pop(i) ==
  /\ PopNothing(i) \/ PopLast(i) \/ PopNext(i)
  /\ UNCHANGED <<timerId, linked, tempSec, tempNanosec, remaining, lock>>
  /\ UNCHANGED <<cur, wait, empty, seen, historyVars>>

ReloadIsr(i) ==
  /\ \/ ReloadNanosec(i)
     \/ ReloadSec(i)
     \/ ReloadArm(i, "unlock")
     \/ Stop(i)
  /\ UNCHANGED stackVars

LeaveService(i) ==
  /\ Goto(i, "unlock", "idle")
  /\ Unlock(i)
  /\ UNCHANGED <<timerId, linked, tempSec, tempNanosec, remaining, arg>>
  /\ UNCHANGED stackVars

-----------------------------------------------------------------------------
(* Time.                                                                   *)

\* Main has called Delay() and has not armed the timer yet, or found no need to.
Deciding == pc[Main] \in {"place", "nsec", "sec", "arm", "start"}

Tick ==
  /\ CountDown \/ \E i \in Isr : Expire(i)
  /\ passed' = IF Deciding THEN passed + 1 ELSE passed
  /\ UNCHANGED <<pending, off, elapsed, cur, wait, empty, seen, due>>

MainStep ==
  \/ LockMain \/ ReadDelay \/ Place \/ ReloadMain \/ UnlockMain

IsrStep(i) == EnterService(i) \/ Pop(i) \/ ReloadIsr(i) \/ LeaveService(i)

Next ==
  \/ Boot
  \/ \E a \in Acts : Create(a) \/ Take(a)
  \/ MainStep
  \/ \E i \in Isr : IsrStep(i)
  \/ Tick

Spec == Init /\ [][Next]_vars

\* Time goes on, a started thread runs, and main calls NodeTick() for ever.  The
\* mutex is not held by one thread for ever (main sleeps between two ticks),
\* hence the strong fairness of the steps that wait for it.  Nothing makes the
\* application create an action.
Fairness ==
  /\ WF_vars(Tick) /\ WF_vars(Boot) /\ WF_vars(MainStep) /\ SF_vars(LockMain)
  /\ \A i \in Isr : WF_vars(IsrStep(i)) /\ SF_vars(EnterService(i))
  /\ \A a \in Acts : SF_vars(Take(a))

FairSpec == Spec /\ Fairness

-----------------------------------------------------------------------------
(* Properties.                                                             *)

MainPC == {"init", "link", "loop", "lock", "read", "place", "nsec", "sec", "arm",
           "start", "unlock"}
IsrPC == {"idle", "spawned", "pop", "nsec", "sec", "arm", "stop", "unlock"}

\* Every variable has its type; in particular tv_nsec never reaches a second,
\* which timer_settime() would refuse.
TypeOK ==
  /\ timerId \in BOOLEAN /\ linked \in BOOLEAN
  /\ tempSec \in Nat /\ tempNanosec \in 0..(T1000ms - 1)
  /\ remaining \in Nat
  /\ lock \in Thread \cup {NoOne}
  /\ pc \in [Thread -> MainPC \cup IsrPC]
  /\ pc[Main] \in MainPC /\ \A i \in Isr : pc[i] \in IsrPC
  /\ arg \in [Thread -> Nat]
  /\ pending \subseteq Acts /\ elapsed \subseteq Acts
  /\ off \in [Acts -> Nat]
  /\ cur \in Acts \cup {NoAct}
  /\ wait \in Nat /\ seen \in Nat
  /\ due \in [Acts -> Nat] /\ passed \in Nat
  /\ empty \in BOOLEAN

Reloading(t) == pc[t] \in {"nsec", "sec", "arm", "start"}

\* While an action is running there is something that will make it elapse: the
\* OS timer is armed, an expiry is being delivered, or a thread is on its way to
\* arm the timer.  Only then can the node not fall silent.
TimersKeepRunning ==
  timerId /\ pending # {} =>
    \/ remaining > 0
    \/ \E i \in Isr : pc[i] \in {"spawned", "pop"}
    \/ \E t \in Thread : Reloading(t)

\* What a thread passes to timer_settime() is what the Reload() it executes was
\* called with, and not the halves of two reloads.
ReloadNotTorn ==
  \A t \in Thread : pc[t] = "arm" => tempSec * T1000ms + tempNanosec = arg[t] * TickRate

\* The nanoseconds until an action elapses, as the OS timer and the list stand.
Left(a) == remaining + off[a] * TickRate

\* Main decides where an action goes from what Delay() says, which lacks the rest of a
\* tick, and time passes until it arms the timer.  When it is done, the timer and the
\* list make every action that runs, the new one too, elapse when it was to: earlier by
\* less than a tick, later by less than a tick and the time main took.  (An expiry that
\* was on its way by then may ring one before that: see the README.)
InsertionKeepsTime ==
  [][timerId /\ pc[Main] # "unlock" /\ pc'[Main] = "unlock" =>
       \A a \in pending' : /\ due[a] < passed + Left(a)' + TickRate
                          /\ Left(a)' < due[a] + TickRate]_vars

\* An action that is running on a timer that could be created elapses.
EveryTimerElapses == \A a \in Acts : timerId /\ a \in pending ~> a \in elapsed

\* Where an action stands is told by the list it is in.
clock == [a \in Acts |-> IF a \in elapsed THEN "ringing"
                         ELSE IF a \in pending \cup {cur} THEN "running" ELSE "idle"]

\* The soft timers are alarm clocks: see AlarmClock.
Clocks == INSTANCE AlarmClock WITH works <- timerId, state <- clock
ImplementsAlarms == Clocks!FairSpec

=============================================================================
