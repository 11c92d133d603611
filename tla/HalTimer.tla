------------------------------ MODULE HalTimer ------------------------------
(***************************************************************************)
(* The timer driver of src/src/co_timer_linux.cpp: one one-shot operating  *)
(* system timer, the statics that hold the last reload value, the mutex    *)
(* behind COTmrLock/COTmrUnlock, and the threads that use them.  Every     *)
(* expiry runs ISROSTimer on a thread of its own (SIGEV_THREAD), so the    *)
(* driver is entered by the main thread and by any number of such threads. *)
(*                                                                         *)
(* The module has no specification of its own: its operators are the steps *)
(* a thread takes inside the driver.  TimerService composes them with the  *)
(* soft timers of the CANopen stack that calls the driver.                 *)
(*                                                                         *)
(* The stack counts in ticks, the OS timer in nanoseconds; Reload() and     *)
(* Delay() convert.  Neither side overflows: a reload of 32 bits and a     *)
(* tick of at most a second make less than 2^64 nanoseconds, and what      *)
(* Delay() narrows to 32 bits is never more than the reload was.           *)
(***************************************************************************)
EXTENDS Naturals

CONSTANTS
  Main,        \* the thread that runs main(), hence NodeStart() and NodeTick()
  Isr,         \* the SIGEV_THREAD threads that may be alive at a time (a bound)
  NoOne,       \* what owns s_lock when nobody does
  T1000ms,     \* the nanoseconds of a second
  TmrFreq      \* the frequency Init() is given, in ticks per second

ASSUME ThreadAssumption == Main \notin Isr /\ NoOne \notin Isr \cup {Main}
ASSUME TickAssumption == T1000ms \in Nat \ {0} /\ TmrFreq \in Nat \ {0}

\* s_tickRateNanoSec as Init() leaves it, at least a nanosecond.
TickRate == IF T1000ms \div TmrFreq > 1 THEN T1000ms \div TmrFreq ELSE 1

\* A second is a whole number of ticks: the only caller passes 500000.
ASSUME SecondAssumption == T1000ms % TickRate = 0

Thread == {Main} \cup Isr

VARIABLES
  timerId,     \* s_timerId: has timer_create() filled it in
  linked,      \* s_tmr: does it point at the stack's timer manager
  tempSec,     \* s_tempSec
  tempNanosec, \* s_tempNanosec
  remaining,   \* it_value of the OS timer in nanoseconds, 0 when disarmed
  lock,        \* the owner of s_lock
  pc,          \* where each thread stands
  arg          \* the argument of the Reload() a thread is executing

halVars == <<timerId, linked, tempSec, tempNanosec, remaining, lock, pc, arg>>

HalInit ==
  /\ timerId = FALSE /\ linked = FALSE
  /\ tempSec = 0 /\ tempNanosec = 0
  /\ remaining = 0
  /\ lock = NoOne
  /\ pc = [t \in Thread |-> IF t = Main THEN "init" ELSE "idle"]
  /\ arg = [t \in Thread |-> 0]

Goto(t, from, to) == pc[t] = from /\ pc' = [pc EXCEPT ![t] = to]

-----------------------------------------------------------------------------
(* The mutex the stack takes through COTmrLock() and COTmrUnlock().        *)

Free == lock = NoOne

\* The stack's weakly linked, empty COTmrLock() is left in place.
LockNotOverridden(t) == UNCHANGED lock

Lock(t) == Free /\ lock' = t

Unlock(t) == lock' = IF lock = t THEN NoOne ELSE lock

-----------------------------------------------------------------------------
(* The OS timer.                                                           *)

\* A call to timer_settime() that forgets the nanoseconds.
ArmSecondsOnly(sec, nanosec) ==
  remaining' = IF timerId THEN sec * T1000ms ELSE remaining

\* timer_settime(), with the nanoseconds clamped below a second: an all-zero
\* value disarms, and an id that timer_create() never filled in is refused.  An
\* expiry already handed to a thread is not recalled: the threads in Isr are
\* untouched.
ArmOSTimer(sec, nanosec) ==
  LET below == IF nanosec < T1000ms THEN nanosec ELSE T1000ms - 1
  IN  remaining' = IF timerId THEN sec * T1000ms + below ELSE remaining

\* Init(freq): CreateOSTimer() may fail, which is only logged.
InitDriver ==
  /\ Goto(Main, "init", "link")
  /\ timerId' \in BOOLEAN
  /\ UNCHANGED <<linked, tempSec, tempNanosec, remaining, lock, arg>>

\* NodeStart(): LinkTimer() comes before CONodeStart().  CONodeInit(), which has
\* called Init() before, is taken to start no timer: see the README.
LinkTimer ==
  /\ Goto(Main, "link", "loop")
  /\ linked' = TRUE
  /\ UNCHANGED <<timerId, tempSec, tempNanosec, remaining, lock, arg>>

\* One nanosecond of the OS timer while it has further to go.
CountDown ==
  /\ remaining > 1
  /\ remaining' = remaining - 1
  /\ UNCHANGED <<timerId, linked, tempSec, tempNanosec, lock, pc, arg>>

\* The last nanosecond: the timer is one-shot (it_interval is zero) and the expiry
\* starts ISROSTimer() on thread i.
Expire(i) ==
  /\ remaining = 1
  /\ remaining' = 0
  /\ Goto(i, "idle", "spawned")
  /\ UNCHANGED <<timerId, linked, tempSec, tempNanosec, lock, arg>>

-----------------------------------------------------------------------------
(* Reload(arg), as three steps: the statics are shared by all threads and  *)
(* s_lock is all that keeps another thread out between them.               *)

\* The nanosecond part keeps the whole seconds.
ReloadKeepsSeconds(t) ==
  /\ Goto(t, "nsec", "sec")
  /\ tempNanosec' = arg[t] * TickRate
  /\ UNCHANGED <<timerId, linked, tempSec, remaining, lock, arg>>

ReloadNanosec(t) ==
  /\ Goto(t, "nsec", "sec")
  /\ tempNanosec' = (arg[t] * TickRate) % T1000ms
  /\ UNCHANGED <<timerId, linked, tempSec, remaining, lock, arg>>

ReloadSec(t) ==
  /\ Goto(t, "sec", "arm")
  /\ tempSec' = (arg[t] * TickRate) \div T1000ms
  /\ UNCHANGED <<timerId, linked, tempNanosec, remaining, lock, arg>>

\* The test of s_timerId the wrong way round.
ReloadArmInverted(t, next) ==
  /\ Goto(t, "arm", next)
  /\ IF ~timerId THEN ArmOSTimer(tempSec, tempNanosec) ELSE UNCHANGED remaining
  /\ arg' = [arg EXCEPT ![t] = 0]
  /\ UNCHANGED <<timerId, linked, tempSec, tempNanosec, lock>>

ReloadArm(t, next) ==
  /\ Goto(t, "arm", next)
  /\ IF timerId THEN ArmOSTimer(tempSec, tempNanosec) ELSE UNCHANGED remaining
  /\ arg' = [arg EXCEPT ![t] = 0]
  /\ UNCHANGED <<timerId, linked, tempSec, tempNanosec, lock>>

\* Start() that disarms, as Stop() does.
StartDisarms(t) ==
  /\ Goto(t, "start", "unlock")
  /\ ArmOSTimer(0, 0)
  /\ UNCHANGED <<timerId, linked, tempSec, tempNanosec, lock, arg>>

\* Start() arms with whatever the statics hold, and does not test s_timerId.
Start(t) ==
  /\ Goto(t, "start", "unlock")
  /\ ArmOSTimer(tempSec, tempNanosec)
  /\ UNCHANGED <<timerId, linked, tempSec, tempNanosec, lock, arg>>

Stop(t) ==
  /\ Goto(t, "stop", "unlock")
  /\ IF timerId THEN ArmOSTimer(0, 0) ELSE UNCHANGED remaining
  /\ UNCHANGED <<timerId, linked, tempSec, tempNanosec, lock, arg>>

\* A Delay() that forgets the whole seconds.
DelayBelowSecond == (remaining % T1000ms) \div TickRate

\* Delay(): timer_gettime() yields 0 for a timer that expired, was disarmed or
\* never existed.  Seconds and nanoseconds are cut to whole ticks separately.
Delay ==
  ((remaining \div T1000ms) * T1000ms) \div TickRate
    + (remaining % T1000ms) \div TickRate

\* Update() claims an elapsed period whoever asks.
Update == 1

=============================================================================
