------------------------- MODULE TimerServiceProofs -------------------------
(***************************************************************************)
(* What holds of TimerService for every set of actions, every number of    *)
(* SIGEV_THREAD threads, every delay and every tick rate.                  *)
(***************************************************************************)
EXTENDS TimerService, Integers, TLAPS

-----------------------------------------------------------------------------
(* The invariants.                                                         *)

\* What main knows of the list it looked at, whether or not it is locked:
\* nobody else adds to it.
Boots(p) == p \in {"init", "link"}

StartUp ==
  Boots(pc[Main]) => remaining = 0 /\ pending = {} /\ \A i \in Isr : pc[i] = "idle"

Inserting ==
  /\ IF pc[Main] \in {"lock", "read", "place"} THEN cur \in Acts /\ wait > 0
                                               ELSE cur = NoAct
  /\ pc[Main] = "place" /\ empty => pending = {}

\* The type invariant with what it takes to be inductive.
TInv == TypeOK /\ StartUp /\ Inserting

Inside == {"read", "place", "pop", "nsec", "sec", "arm", "start", "stop", "unlock"}

\* A thread between COTmrLock() and COTmrUnlock() owns the mutex.
Mutex == \A t \in Thread : pc[t] \in Inside => lock = t

ReloadTotal == tempSec * T1000ms + tempNanosec

\* What a thread has stored of the reload it executes.
Storing ==
  \A t \in Thread :
    /\ pc[t] \in {"nsec", "sec", "arm"} => arg[t] > 0
    /\ pc[t] = "sec" => tempNanosec = (arg[t] * TickRate) % T1000ms
    /\ pc[t] = "arm" => ReloadTotal = arg[t] * TickRate
    /\ pc[t] = "start" => ReloadTotal > 0

\* What a thread under the mutex knows of the list.
Listing ==
  /\ pc[Main] = "place" /\ ~empty => pending # {}
  /\ \A i \in Isr : pc[i] = "stop" => pending = {}

\* The invariant of the locked service.
LInv == Mutex /\ Storing /\ Listing /\ TimersKeepRunning

\* An expiry, or an armed timer, is there only if the timer could be created.
HardwareWorks ==
  /\ pc[Main] = "init" => ~timerId
  /\ ~timerId => remaining = 0 /\ \A i \in Isr : pc[i] = "idle"

\* An action is in one of the stack's lists, or in main's hands, but not in two.
OnePlace == elapsed \cap pending = {} /\ cur \notin elapsed \cup pending

AInv == HardwareWorks /\ OnePlace

-----------------------------------------------------------------------------
(* Lemmas about what a step of the driver leaves alone.                    *)

\* A tick takes some time, whatever the frequency.
LEMMA TickTakesTime == TickRate \in Nat /\ TickRate > 0
BY TickAssumption DEF TickRate

\* A number of ticks is a number of nanoseconds, and at least as large.
LEMMA Nanoseconds ==
  ASSUME NEW n \in Nat
  PROVE  n * TickRate \in Nat /\ (n > 0 => n * TickRate > 0)
<1>1. ASSUME NEW r \in Nat, r > 0 PROVE n * r \in Nat /\ (n > 0 => n * r > 0)
  BY <1>1
<1> QED BY <1>1, TickTakesTime

\* The seconds and the nanoseconds beyond them make up the period they were cut from.
LEMMA Halves ==
  ASSUME NEW d \in Nat
  PROVE  /\ d \div T1000ms \in Nat
         /\ d % T1000ms \in 0..(T1000ms - 1)
         /\ (d \div T1000ms) * T1000ms + (d % T1000ms) = d
BY TickAssumption

\* Both halves are natural numbers, hence so is what the OS timer is armed with.
LEMMA TotalType == ASSUME TypeOK PROVE ReloadTotal \in Nat
BY TickAssumption DEF TypeOK, ReloadTotal

\* The clamp changes nothing of what the statics hold, so that is what is armed.
LEMMA Armed ==
  ASSUME TypeOK, ArmOSTimer(tempSec, tempNanosec)
  PROVE  remaining' = IF timerId THEN ReloadTotal ELSE remaining
BY TickAssumption DEF TypeOK, ArmOSTimer, ReloadTotal

\* A quotient, times the divisor, is what it was taken from up to the divisor.
LEMMA Quotient ==
  ASSUME NEW n \in Nat, NEW d \in Nat, d > 0
  PROVE  n \div d \in Nat /\ (n \div d) * d <= n /\ n < (n \div d) * d + d
OBVIOUS

\* A multiple of the divisor is divided without a rest.
LEMMA Multiple ==
  ASSUME NEW n \in Nat, NEW d \in Nat, d > 0
  PROVE  (n * d) \div d = n
OBVIOUS

\* Ticks of two periods together are the ticks of each.
LEMMA Distributes ==
  ASSUME NEW m \in Int, NEW n \in Int, NEW r \in Nat
  PROVE  (m + n) * r = m * r + n * r /\ (m - n) * r = m * r - n * r
OBVIOUS

\* Delay() is what is left, without the rest of a tick.
LEMMA DelayRounds ==
  ASSUME remaining \in Nat
  PROVE  /\ Delay \in Nat
         /\ Delay * TickRate <= remaining
         /\ remaining < Delay * TickRate + TickRate
<1> DEFINE q == remaining \div T1000ms
           k == T1000ms \div TickRate
           n == remaining % T1000ms
<1>1. q \in Nat /\ n \in Nat /\ q * T1000ms + n = remaining
  BY Halves, TickAssumption
<1>2. k \in Nat /\ T1000ms = k * TickRate
  BY Quotient, TickTakesTime, TickAssumption, SecondAssumption
<1>3. /\ n \div TickRate \in Nat /\ (n \div TickRate) * TickRate <= n
      /\ n < (n \div TickRate) * TickRate + TickRate
  BY <1>1, Quotient, TickTakesTime
<1>4. Delay = ((q * T1000ms) \div TickRate) + (n \div TickRate)
  BY DEF Delay
<1> HIDE DEF q, k, n
<1>5. q * k \in Nat /\ (q * k) * TickRate = q * T1000ms
  BY <1>1, <1>2, TickTakesTime
<1>6. (q * T1000ms) \div TickRate = q * k
  BY <1>5, Multiple, TickTakesTime
<1>7. Delay * TickRate = (q * k) * TickRate + (n \div TickRate) * TickRate
  BY <1>3, <1>4, <1>5, <1>6, Distributes, TickTakesTime
<1> QED BY <1>1, <1>3, <1>4, <1>5, <1>6, <1>7, TickTakesTime

-----------------------------------------------------------------------------
(* Type correctness.                                                       *)

\* Every variable keeps its type, locked or not (all of co_timer_linux.cpp).
LEMMA InitTInv == Init => TInv
<1> SUFFICES ASSUME Init PROVE TInv
  OBVIOUS
<1>1. pc = [t \in Thread |-> IF t = Main THEN "init" ELSE "idle"]
  BY DEF Init, HalInit
<1>2. pc[Main] = "init" /\ \A i \in Isr : pc[i] = "idle"
  BY <1>1, ThreadAssumption DEF Thread
<1>3. pc \in [Thread -> MainPC \cup IsrPC]
  BY <1>1 DEF MainPC, IsrPC
<1>4. 0 \in 0..(T1000ms - 1)
  BY TickAssumption
<1>5. off \in [Acts -> Nat] /\ arg \in [Thread -> Nat]
  BY DEF Init, HalInit
<1>6. TypeOK
  BY <1>2, <1>3, <1>4, <1>5 DEF Init, HalInit, TypeOK, MainPC, IsrPC
<1> QED
  BY <1>2, <1>6 DEF Init, HalInit, TInv, StartUp, Inserting, Boots

LEMMA NextTInv == TInv /\ [Next]_vars => TInv'
<1> SUFFICES ASSUME TInv, [Next]_vars PROVE TInv'
  OBVIOUS
<1> USE ThreadAssumption, TickAssumption, DelayAssumption, CycleAssumption, ActAssumption
<1> USE DEF TInv, TypeOK, StartUp, Inserting, Boots, Thread, historyVars
<1>1. CASE Boot
  BY <1>1 DEF Boot, InitDriver, LinkTimer, Goto, stackVars, MainPC, IsrPC
<1>2. ASSUME NEW a \in Acts, Create(a) PROVE TInv'
  BY <1>2 DEF Create, Goto, MainPC, IsrPC
<1>3. ASSUME NEW a \in Acts, Take(a) PROVE TInv'
  <2>1. CASE Cycle[a] = 0
    BY <1>3, <2>1 DEF Take, MainPC, IsrPC
  <2>2. CASE Cycle[a] # 0
    <3>1. Cycle[a] \in Nat /\ Cycle[a] > 0
      <4>1. Cycle[a] \in Delays \cup {0}
        BY CycleAssumption
      <4>2. Cycle[a] \in Nat \ {0}
        BY <2>2, <4>1, DelayAssumption
      <4> QED BY <4>2
    <3>2. wait' \in Nat /\ wait' > 0
      BY <1>3, <2>2, <3>1 DEF Take
    <3> QED BY <1>3, <2>2, <3>2 DEF Take, MainPC, IsrPC
  <2> QED BY <2>1, <2>2
<1>4. CASE LockMain
  BY <1>4 DEF LockMain, Goto, Lock, Free, stackVars, MainPC, IsrPC
<1>5. CASE ReadDelay
  <2>1. due' \in [Acts -> Nat]
    <3>1. ASSUME NEW a \in Acts PROVE remaining + off[a] * TickRate \in Nat
      BY Nanoseconds
    <3>2. wait * TickRate \in Nat
      BY Nanoseconds
    <3> QED BY <1>5, <3>1, <3>2 DEF ReadDelay
  <2> QED BY <1>5, <2>1, DelayRounds DEF ReadDelay, Goto, MainPC, IsrPC
<1>6. CASE Place
  <2>1. CASE PlaceFirst
    <3>1. off' \in [Acts -> Nat]
      BY <1>6, <2>1 DEF Place, PlaceFirst, Goto
    <3>2. arg' \in [Thread -> Nat]
      BY <1>6, <2>1 DEF Place, PlaceFirst
    <3> QED BY <1>6, <2>1, <3>1, <3>2 DEF Place, PlaceFirst, Goto, MainPC, IsrPC
  <2>2. CASE PlaceLater
    <3>1. off' \in [Acts -> Nat]
      BY <1>6, <2>2 DEF Place, PlaceLater, Goto
    <3> QED BY <1>6, <2>2, <3>1 DEF Place, PlaceLater, Goto, MainPC, IsrPC
  <2> QED BY <1>6, <2>1, <2>2 DEF Place
<1>7. ASSUME NEW t \in Thread, UNCHANGED stackVars,
             ReloadNanosec(t) \/ ReloadSec(t)
      PROVE  TInv'
  <2>1. /\ (arg[t] * TickRate) % T1000ms \in 0..(T1000ms - 1)
        /\ (arg[t] * TickRate) \div T1000ms \in Nat
    BY Halves, Nanoseconds
  <2>2. CASE ReloadNanosec(t)
    BY <1>7, <2>1, <2>2 DEF ReloadNanosec, Goto, stackVars, MainPC, IsrPC
  <2>3. CASE ReloadSec(t)
    BY <1>7, <2>1, <2>3 DEF ReloadSec, Goto, stackVars, MainPC, IsrPC
  <2> QED BY <1>7, <2>2, <2>3
<1>8. ASSUME NEW t \in Thread, NEW next, UNCHANGED stackVars, ReloadArm(t, next),
             next \in IF t = Main THEN {"start", "unlock"} ELSE {"unlock"}
      PROVE  TInv'
  <2>1. remaining' \in Nat
    BY <1>8, TotalType, Armed DEF ReloadArm
  <2> QED BY <1>8, <2>1 DEF ReloadArm, Goto, stackVars, MainPC, IsrPC
<1>9. CASE Start(Main) /\ UNCHANGED stackVars
  <2>1. remaining' \in Nat
    BY <1>9, TotalType, Armed DEF Start
  <2> QED BY <1>9, <2>1 DEF Start, Goto, stackVars, MainPC, IsrPC
<1>10. CASE ReloadMain
  BY <1>7, <1>8, <1>9, <1>10 DEF ReloadMain
<1>11. CASE UnlockMain
  BY <1>11 DEF UnlockMain, Goto, Unlock, MainPC, IsrPC
<1>12. ASSUME NEW i \in Isr, EnterService(i) PROVE TInv'
  BY <1>12 DEF EnterService, Goto, Lock, Free, stackVars, MainPC, IsrPC
<1>13. ASSUME NEW i \in Isr, Pop(i) PROVE TInv'
  <2>1. CASE PopNothing(i)
    BY <1>13, <2>1 DEF Pop, PopNothing, Goto, MainPC, IsrPC
  <2>2. CASE PopLast(i)
    BY <1>13, <2>2 DEF Pop, PopLast, Earliest, Goto, MainPC, IsrPC
  <2>3. CASE PopNext(i)
    <3>1. PICK h \in Earliest, n \in pending \ Earliest :
            /\ \A b \in pending \ Earliest : off[n] <= off[b]
            /\ arg' = [arg EXCEPT ![i] = off[n] - off[h]]
            /\ off' = [a \in Acts |-> IF a \in pending \ Earliest THEN off[a] - off[n]
                                                                  ELSE 0]
      BY <2>3 DEF PopNext
    <3>2. off[h] \in Nat /\ off[n] \in Nat /\ off[h] <= off[n]
      BY <3>1 DEF Earliest
    <3>3. arg' \in [Thread -> Nat]
      BY <3>1, <3>2
    <3>4. off' \in [Acts -> Nat]
      BY <3>1
    <3>5. pending' \subseteq Acts /\ elapsed' \subseteq Acts
      BY <2>3 DEF PopNext, Earliest
    <3> QED BY <1>13, <2>3, <3>3, <3>4, <3>5 DEF Pop, PopNext, Goto, MainPC, IsrPC
  <2> QED BY <1>13, <2>1, <2>2, <2>3 DEF Pop
<1>14. ASSUME NEW i \in Isr, ReloadIsr(i) PROVE TInv'
  <2>1. CASE Stop(i) /\ UNCHANGED stackVars
    BY <2>1 DEF Stop, ArmOSTimer, Goto, stackVars, MainPC, IsrPC
  <2> QED BY <1>7, <1>8, <1>14, <2>1 DEF ReloadIsr
<1>15. ASSUME NEW i \in Isr, LeaveService(i) PROVE TInv'
  BY <1>15 DEF LeaveService, Goto, Unlock, stackVars, MainPC, IsrPC
<1>16. CASE Tick
  <2>1. CASE CountDown
    BY <1>16, <2>1 DEF Tick, CountDown, stackVars, MainPC, IsrPC
  <2>2. ASSUME NEW i \in Isr, Expire(i) PROVE TInv'
    BY <1>16, <2>2 DEF Tick, Expire, Goto, stackVars, MainPC, IsrPC
  <2> QED BY <1>16, <2>1, <2>2 DEF Tick
<1>17. CASE UNCHANGED vars
  BY <1>17 DEF vars, halVars, stackVars
<1> QED
  BY <1>1, <1>2, <1>3, <1>4, <1>5, <1>6, <1>10, <1>11, <1>12, <1>13, <1>14, <1>15,
     <1>16, <1>17 DEF Next, MainStep, IsrStep

\* The invariant behind the three theorems on unlocked facts.
LEMMA Typing == Spec => []TInv
BY InitTInv, NextTInv, PTL DEF Spec

\* Every variable has its type in every reachable state: no reload leaves a
\* tv_nsec of a second or more, and no offset, delay or timer value is negative.
THEOREM TypeCorrect == Spec => []TypeOK
<1>1. TInv => TypeOK
  BY DEF TInv
<1> QED BY <1>1, Typing, PTL

-----------------------------------------------------------------------------
(* Under the lock: mutual exclusion, whole reloads, and a timer that runs. *)

\* s_lock is owned by whoever is between COTmrLock() and COTmrUnlock().
LEMMA NextMutex ==
  ASSUME ServiceLocks, TInv, Mutex, [Next]_vars
  PROVE  Mutex'
<1> USE ThreadAssumption DEF TInv, TypeOK, Mutex, Inside, Thread
<1>1. CASE Boot
  BY <1>1 DEF Boot, InitDriver, LinkTimer, Goto
<1>2. ASSUME NEW a \in Acts, Create(a) \/ Take(a) PROVE Mutex'
  BY <1>2 DEF Create, Take, Goto
<1>3. CASE LockMain
  BY <1>3 DEF LockMain, Goto, Lock, Free
<1>4. CASE ReadDelay \/ Place
  BY <1>4 DEF ReadDelay, Place, PlaceFirst, PlaceLater, Goto
<1>5. CASE ReloadMain
  BY <1>5 DEF ReloadMain, ReloadNanosec, ReloadSec, ReloadArm, Start, Goto
<1>6. CASE UnlockMain
  BY <1>6 DEF UnlockMain, Goto, Unlock
<1>7. ASSUME NEW i \in Isr, EnterService(i) PROVE Mutex'
  BY <1>7 DEF EnterService, Goto, Lock, Free
<1>8. ASSUME NEW i \in Isr, Pop(i) PROVE Mutex'
  BY <1>8 DEF Pop, PopNothing, PopLast, PopNext, Goto
<1>9. ASSUME NEW i \in Isr, ReloadIsr(i) PROVE Mutex'
  BY <1>9 DEF ReloadIsr, ReloadNanosec, ReloadSec, ReloadArm, Stop, Goto
<1>10. ASSUME NEW i \in Isr, LeaveService(i) PROVE Mutex'
  BY <1>10 DEF LeaveService, Goto, Unlock
<1>11. CASE Tick
  BY <1>11 DEF Tick, CountDown, Expire, Goto
<1>12. CASE UNCHANGED vars
  BY <1>12 DEF vars, halVars
<1> QED
  BY <1>1, <1>2, <1>3, <1>4, <1>5, <1>6, <1>7, <1>8, <1>9, <1>10, <1>11, <1>12
     DEF Next, MainStep, IsrStep

\* The statics and the argument of a reload are only written by the thread that
\* executes it.
LEMMA NextStoring ==
  ASSUME TInv, Mutex, Storing, [Next]_vars
  PROVE  Storing'
<1> USE ThreadAssumption DEF TInv, TypeOK, Mutex, Inside, Storing, Thread
<1>1. ASSUME UNCHANGED <<tempSec, tempNanosec, arg>>,
             \A t \in Thread : pc'[t] \in {"nsec", "sec", "arm", "start"} => pc'[t] = pc[t]
      PROVE  Storing'
  BY <1>1 DEF ReloadTotal
<1>2. CASE Boot \/ (\E a \in Acts : Create(a) \/ Take(a)) \/ LockMain \/ ReadDelay
           \/ UnlockMain
  BY <1>1, <1>2 DEF Boot, InitDriver, LinkTimer, Create, Take, LockMain, ReadDelay,
                    UnlockMain, Goto
<1>3. CASE Place
  <2>1. CASE PlaceFirst
    BY <1>3, <2>1 DEF Place, PlaceFirst, Goto, Inserting, ReloadTotal
  <2>2. CASE PlaceLater
    BY <1>1, <1>3, <2>2 DEF Place, PlaceLater, Goto
  <2> QED BY <1>3, <2>1, <2>2 DEF Place
<1>4. ASSUME NEW t \in Thread, ReloadNanosec(t) PROVE Storing'
  BY <1>4 DEF ReloadNanosec, Goto, ReloadTotal
<1>5. ASSUME NEW t \in Thread, ReloadSec(t) PROVE Storing'
  <2>1. ReloadTotal' = arg[t] * TickRate
    BY <1>5, Halves, Nanoseconds DEF ReloadSec, Goto, ReloadTotal
  <2> QED BY <1>5, <2>1 DEF ReloadSec, Goto
<1>6. ASSUME NEW t \in Thread, NEW next \in {"start", "unlock"}, ReloadArm(t, next)
      PROVE  Storing'
  <2>1. ReloadTotal' = ReloadTotal /\ ReloadTotal > 0
    BY <1>6, Nanoseconds DEF ReloadArm, Goto, ReloadTotal
  <2> QED BY <1>6, <2>1 DEF ReloadArm, Goto
<1>7. CASE Start(Main)
  BY <1>1, <1>7 DEF Start, Goto
<1>8. CASE ReloadMain
  BY <1>4, <1>5, <1>6, <1>7, <1>8 DEF ReloadMain
<1>9. ASSUME NEW i \in Isr, EnterService(i) \/ LeaveService(i) \/ Stop(i) PROVE Storing'
  BY <1>1, <1>9 DEF EnterService, LeaveService, Stop, Goto
<1>10. ASSUME NEW i \in Isr, Pop(i) PROVE Storing'
  <2>1. CASE PopNothing(i) \/ PopLast(i)
    BY <1>1, <1>10, <2>1 DEF Pop, PopNothing, PopLast, Goto
  <2>2. CASE PopNext(i)
    <3>1. PICK h \in Earliest, n \in pending \ Earliest :
            arg' = [arg EXCEPT ![i] = off[n] - off[h]]
      BY <2>2 DEF PopNext
    <3>2. off[n] - off[h] > 0 /\ off[n] - off[h] \in Nat
      <4>1. PICK b \in pending : ~(off[n] <= off[b])
        BY DEF Earliest
      <4>2. off[h] <= off[b]
        BY DEF Earliest
      <4>3. off[h] \in Nat /\ off[b] \in Nat /\ off[n] \in Nat
        BY DEF Earliest
      <4> QED BY <4>1, <4>2, <4>3
    <3>3. ReloadTotal' = ReloadTotal
      BY <1>10 DEF Pop, ReloadTotal
    <3> QED BY <1>10, <2>2, <3>1, <3>2, <3>3 DEF Pop, PopNext, Goto
  <2> QED BY <1>10, <2>1, <2>2 DEF Pop
<1>11. ASSUME NEW i \in Isr, ReloadIsr(i) PROVE Storing'
  BY <1>4, <1>5, <1>6, <1>9, <1>11 DEF ReloadIsr
<1>12. CASE Tick
  BY <1>1, <1>12 DEF Tick, CountDown, Expire, Goto
<1>13. CASE UNCHANGED vars
  BY <1>1, <1>13 DEF vars, halVars
<1> QED
  BY <1>2, <1>3, <1>8, <1>9, <1>10, <1>11, <1>12, <1>13 DEF Next, MainStep, IsrStep

\* Under the lock, a thread's look at the list stays true until it acts on it.
LEMMA NextListing ==
  ASSUME TInv, Mutex, Listing, [Next]_vars
  PROVE  Listing'
<1> USE ThreadAssumption DEF TInv, TypeOK, Mutex, Inside, Listing, Thread
<1>1. ASSUME UNCHANGED pending, pc'[Main] = "place" => pc[Main] = "place" /\ empty' = empty,
             \A i \in Isr : pc'[i] = "stop" => pc[i] = "stop"
      PROVE  Listing'
  BY <1>1
<1>2. CASE Boot \/ (\E a \in Acts : Create(a) \/ Take(a)) \/ LockMain \/ ReloadMain
           \/ UnlockMain
  BY <1>1, <1>2 DEF Boot, InitDriver, LinkTimer, Create, Take, LockMain, UnlockMain, Goto,
                    ReloadMain, ReloadNanosec, ReloadSec, ReloadArm, Start, stackVars
<1>3. CASE ReadDelay
  BY <1>3 DEF ReadDelay, Goto
<1>4. CASE Place
  BY <1>4 DEF Place, PlaceFirst, PlaceLater, Goto
<1>5. ASSUME NEW i \in Isr, EnterService(i) \/ LeaveService(i) \/ ReloadIsr(i)
      PROVE  Listing'
  BY <1>1, <1>5 DEF EnterService, LeaveService, Goto, stackVars,
                    ReloadIsr, ReloadNanosec, ReloadSec, ReloadArm, Stop
<1>6. ASSUME NEW i \in Isr, Pop(i) PROVE Listing'
  BY <1>6 DEF Pop, PopNothing, PopLast, PopNext, Goto
<1>7. CASE Tick
  BY <1>1, <1>7 DEF Tick, CountDown, Expire, stackVars, Goto
<1>8. CASE UNCHANGED vars
  BY <1>1, <1>8 DEF vars, halVars, stackVars
<1> QED
  BY <1>2, <1>3, <1>4, <1>5, <1>6, <1>7, <1>8 DEF Next, MainStep, IsrStep

\* Every step that takes away what will make the actions elapse leaves something
\* else that will.
LEMMA NextRunning ==
  ASSUME TInv, Storing, Listing, TimersKeepRunning, [Next]_vars
  PROVE  TimersKeepRunning'
<1> USE ThreadAssumption DEF TInv, TypeOK, TimersKeepRunning, Reloading, Thread
<1>1. ASSUME UNCHANGED <<timerId, remaining>>, pending' = pending \/ pending' = {},
             \A i \in Isr : pc[i] \in {"spawned", "pop"} =>
                              pc'[i] \in {"spawned", "pop", "nsec", "sec", "arm", "start"},
             \A t \in Thread : Reloading(t) => Reloading(t)'
      PROVE  TimersKeepRunning'
  BY <1>1
<1>2. CASE Boot
  BY <1>1, <1>2 DEF Boot, InitDriver, LinkTimer, Goto, stackVars, StartUp, Boots
<1>3. CASE (\E a \in Acts : Create(a) \/ Take(a)) \/ LockMain \/ ReadDelay \/ UnlockMain
  BY <1>1, <1>3 DEF Create, Take, LockMain, ReadDelay, UnlockMain, Goto, stackVars
<1>4. CASE Place
  <2>1. CASE PlaceFirst
    BY <1>4, <2>1 DEF Place, PlaceFirst, Goto
  <2>2. CASE PlaceLater
    BY <1>4, <2>2 DEF Place, PlaceLater, Goto, Listing
  <2> QED BY <1>4, <2>1, <2>2 DEF Place
<1>5. ASSUME NEW t \in Thread, UNCHANGED stackVars, ReloadNanosec(t) \/ ReloadSec(t)
      PROVE  TimersKeepRunning'
  BY <1>1, <1>5 DEF ReloadNanosec, ReloadSec, Goto, stackVars
<1>6. ASSUME NEW t \in Thread, NEW next, UNCHANGED stackVars, ReloadArm(t, next)
      PROVE  TimersKeepRunning'
  <2>1. timerId => remaining' > 0
    BY <1>6, Nanoseconds, Armed DEF ReloadArm, Goto, Storing
  <2> QED BY <1>6, <2>1 DEF ReloadArm, stackVars
<1>7. CASE Start(Main) /\ UNCHANGED stackVars
  <2>1. timerId => remaining' > 0
    BY <1>7, Armed DEF Start, Goto, Storing
  <2> QED BY <1>7, <2>1 DEF Start, stackVars
<1>8. CASE ReloadMain
  BY <1>5, <1>6, <1>7, <1>8 DEF ReloadMain
<1>9. ASSUME NEW i \in Isr, EnterService(i) \/ LeaveService(i) PROVE TimersKeepRunning'
  BY <1>1, <1>9 DEF EnterService, LeaveService, Goto, stackVars
<1>10. ASSUME NEW i \in Isr, Pop(i) PROVE TimersKeepRunning'
  <2>1. CASE PopNothing(i)
    BY <1>10, <2>1 DEF Pop, PopNothing, Update
  <2>2. CASE PopLast(i)
    BY <2>2 DEF PopLast
  <2>3. CASE PopNext(i)
    BY <1>10, <2>3 DEF Pop, PopNext, Goto
  <2> QED BY <1>10, <2>1, <2>2, <2>3 DEF Pop
<1>11. ASSUME NEW i \in Isr, ReloadIsr(i) PROVE TimersKeepRunning'
  <2>1. CASE Stop(i) /\ UNCHANGED stackVars
    BY <2>1 DEF Stop, Goto, stackVars, Listing
  <2> QED BY <1>5, <1>6, <1>11, <2>1 DEF ReloadIsr
<1>12. CASE Tick
  <2>1. CASE CountDown
    BY <1>12, <2>1 DEF Tick, CountDown, stackVars
  <2>2. ASSUME NEW i \in Isr, Expire(i) PROVE TimersKeepRunning'
    BY <1>12, <2>2 DEF Tick, Expire, stackVars, Goto
  <2> QED BY <1>12, <2>1, <2>2 DEF Tick
<1>13. CASE UNCHANGED vars
  BY <1>1, <1>13 DEF vars, halVars, stackVars
<1> QED
  BY <1>2, <1>3, <1>4, <1>8, <1>9, <1>10, <1>11, <1>12, <1>13 DEF Next, MainStep, IsrStep

LEMMA InitLInv == Init => LInv
<1> SUFFICES ASSUME Init PROVE LInv
  OBVIOUS
<1>1. \A t \in Thread : pc[t] \in {"init", "idle"}
  BY DEF Init, HalInit
<1> QED
  BY <1>1, ThreadAssumption
     DEF Init, LInv, Mutex, Inside, Storing, Listing, TimersKeepRunning, Thread

\* The invariant behind the three theorems on the locked service.
LEMMA Locked == ASSUME ServiceLocks PROVE Spec => []LInv
<1>1. TInv /\ LInv /\ [Next]_vars => LInv'
  BY NextMutex, NextStoring, NextListing, NextRunning DEF LInv
<1> QED
  BY <1>1, InitLInv, Typing, PTL DEF Spec

\* At most one thread is inside the driver at a time when COTmrService() takes
\* the mutex of co_timer_linux::Lock().
THEOREM MutualExclusion == ASSUME ServiceLocks PROVE Spec => []Mutex
<1>1. LInv => Mutex
  BY DEF LInv
<1> QED BY <1>1, Locked, PTL

\* Then no reload is torn: timer_settime() gets both halves of one reload.
THEOREM WholeReloads == ASSUME ServiceLocks PROVE Spec => []ReloadNotTorn
<1>1. LInv => ReloadNotTorn
  BY DEF LInv, Storing, ReloadNotTorn, ReloadTotal
<1> QED BY <1>1, Locked, PTL

\* And the node does not fall silent: whenever an action runs, the OS timer is
\* armed, an expiry is on its way, or a thread is about to arm the timer.
THEOREM NeverSilent == ASSUME ServiceLocks PROVE Spec => []TimersKeepRunning
<1>1. LInv => TimersKeepRunning
  BY DEF LInv
<1> QED BY <1>1, Locked, PTL

-----------------------------------------------------------------------------
(* The refinement of AlarmClock, safety part.                              *)

LEMMA InitAInv == Init => AInv
BY ThreadAssumption, ActAssumption DEF Init, HalInit, AInv, HardwareWorks, OnePlace, Thread

LEMMA NextAInv ==
  ASSUME TInv, AInv, [Next]_vars
  PROVE  AInv'
<1> USE ThreadAssumption, ActAssumption
    DEF TInv, TypeOK, AInv, HardwareWorks, OnePlace, Thread
<1>1. CASE Boot
  BY <1>1 DEF Boot, InitDriver, LinkTimer, Goto, stackVars, StartUp, Boots
<1>2. ASSUME NEW a \in Acts, Create(a) \/ Take(a) PROVE AInv'
  BY <1>2 DEF Create, Take, Goto, Idle
<1>3. CASE LockMain \/ ReadDelay \/ UnlockMain
  BY <1>3 DEF LockMain, ReadDelay, UnlockMain, Goto, stackVars
<1>4. CASE Place
  <2>1. pc[Main] = "place" /\ cur \in Acts
    BY <1>4 DEF Place, PlaceFirst, PlaceLater, Goto, Inserting
  <2>2. elapsed' = elapsed /\ pending' = pending \cup {cur} /\ cur' = NoAct
    BY <1>4 DEF Place
  <2>3. OnePlace'
    BY <2>1, <2>2
  <2>4. HardwareWorks'
    BY <1>4 DEF Place, PlaceFirst, PlaceLater, Goto
  <2> QED BY <2>3, <2>4
<1>5. ASSUME NEW t \in Thread, UNCHANGED stackVars, UNCHANGED timerId,
             remaining' = remaining \/ timerId,
             pc'[Main] # "init", \A i \in Isr : pc[i] = "idle" => pc'[i] = "idle"
      PROVE  AInv'
  BY <1>5 DEF stackVars
<1>6. CASE ReloadMain
  BY <1>5, <1>6 DEF ReloadMain, ReloadNanosec, ReloadSec, ReloadArm, Start, ArmOSTimer, Goto
<1>7. ASSUME NEW i \in Isr, EnterService(i) \/ LeaveService(i) PROVE AInv'
  BY <1>7 DEF EnterService, LeaveService, Goto, stackVars
<1>8. ASSUME NEW i \in Isr, Pop(i) PROVE AInv'
  <2>1. HardwareWorks'
    BY <1>8 DEF Pop, PopNothing, PopLast, PopNext, Goto
  <2>2. CASE PopNothing(i)
    BY <1>8, <2>1, <2>2 DEF Pop, PopNothing
  <2>3. CASE PopLast(i) \/ PopNext(i)
    <3>1. elapsed' = elapsed \cup Earliest /\ pending' = pending \ Earliest /\ cur' = cur
      BY <1>8, <2>3 DEF Pop, PopLast, PopNext
    <3>2. Earliest \subseteq pending
      BY DEF Earliest
    <3> QED BY <2>1, <3>1, <3>2
  <2> QED BY <1>8, <2>2, <2>3 DEF Pop
<1>9. ASSUME NEW i \in Isr, ReloadIsr(i) PROVE AInv'
  BY <1>5, <1>9 DEF ReloadIsr, ReloadNanosec, ReloadSec, ReloadArm, Stop, ArmOSTimer, Goto
<1>10. CASE Tick
  BY <1>10 DEF Tick, CountDown, Expire, stackVars, Goto
<1>11. CASE UNCHANGED vars
  BY <1>11 DEF vars, halVars, stackVars
<1> QED
  BY <1>1, <1>2, <1>3, <1>4, <1>6, <1>7, <1>8, <1>9, <1>10, <1>11
     DEF Next, MainStep, IsrStep

\* Locked or not, the soft timers step as alarm clocks do: an action rings only
\* when it was started, and only on hardware that works; nothing but main puts it
\* back; no step loses it.
THEOREM AlarmSteps == Spec => Clocks!Spec
<1>1. Init => Clocks!Init
  BY ActAssumption DEF Init, HalInit, Clocks!Init, clock
<1>2. TInv /\ AInv /\ [Next]_vars => [Clocks!Next]_(Clocks!vars)
  <2> SUFFICES ASSUME TInv, AInv, [Next]_vars PROVE [Clocks!Next]_(Clocks!vars)
    OBVIOUS
  <2> USE ThreadAssumption, ActAssumption DEF TInv, TypeOK, AInv, Clocks!vars, Thread
  <2>1. ASSUME UNCHANGED <<timerId, elapsed, pending, cur>>
        PROVE  UNCHANGED Clocks!vars
    BY <2>1 DEF clock
  <2>2. CASE Boot
    <3>1. CASE InitDriver
      BY <2>2, <3>1 DEF Boot, InitDriver, Goto, stackVars, HardwareWorks, clock,
                        Clocks!Boot, Clocks!Next
    <3>2. CASE LinkTimer
      BY <2>1, <2>2, <3>2 DEF Boot, LinkTimer, stackVars
    <3> QED BY <2>2, <3>1, <3>2 DEF Boot
  <2>3. ASSUME NEW a \in Acts, Create(a) PROVE Clocks!StartAction(a)
    <3>1. clock[a] = "idle" /\ cur = NoAct /\ timerId' = timerId
      BY <2>3 DEF Create, Goto, Idle, Inserting, clock
    <3>2. clock' = [clock EXCEPT ![a] = "running"]
      <4>1. cur' = a /\ UNCHANGED <<pending, elapsed>> /\ Idle(a)
        BY <2>3 DEF Create
      <4> QED BY <3>1, <4>1 DEF Idle, clock
    <3> QED BY <3>1, <3>2 DEF Clocks!StartAction
  <2>4. ASSUME NEW a \in Acts, Take(a) PROVE Clocks!Handle(a)
    <3>1. cur = NoAct /\ a \in elapsed /\ a \notin pending
      BY <2>4 DEF Take, Inserting, OnePlace
    <3>2. /\ elapsed' = elapsed \ {a} /\ UNCHANGED <<pending, timerId>>
          /\ cur' = IF Cycle[a] = 0 THEN cur ELSE a
      BY <2>4 DEF Take
    <3>3. clock[a] = "ringing"
      BY <3>1 DEF clock
    <3>4. clock' = [clock EXCEPT ![a] = IF Cycle[a] = 0 THEN "idle" ELSE "running"]
      BY <3>1, <3>2 DEF clock
    <3> QED BY <3>2, <3>3, <3>4 DEF Clocks!Handle
  <2>5. CASE LockMain \/ ReadDelay \/ UnlockMain
    BY <2>1, <2>5 DEF LockMain, ReadDelay, UnlockMain, stackVars
  <2>6. CASE Place
    BY <2>6 DEF Place, PlaceFirst, PlaceLater, Goto, Inserting, clock
  <2>7. CASE ReloadMain
    BY <2>1, <2>7 DEF ReloadMain, ReloadNanosec, ReloadSec, ReloadArm, Start, stackVars
  <2>8. ASSUME NEW i \in Isr, EnterService(i) \/ LeaveService(i) \/ ReloadIsr(i)
        PROVE  UNCHANGED Clocks!vars
    BY <2>1, <2>8 DEF EnterService, LeaveService, stackVars, ReloadIsr,
                      ReloadNanosec, ReloadSec, ReloadArm, Stop
  <2>9. ASSUME NEW i \in Isr, Pop(i) PROVE [Clocks!Next]_(Clocks!vars)
    <3>1. CASE PopNothing(i)
      BY <2>1, <2>9, <3>1 DEF Pop, PopNothing
    <3>2. CASE PopLast(i) \/ PopNext(i)
      <4>1. PICK h \in Acts : h \in Earliest
        BY <3>2 DEF PopLast, PopNext, Earliest
      <4>2. timerId /\ timerId' = timerId /\ cur' = cur
        BY <2>9, <3>2 DEF Pop, PopLast, PopNext, Goto, HardwareWorks
      <4>3. elapsed' = elapsed \cup Earliest /\ pending' = pending \ Earliest
        BY <3>2 DEF PopLast, PopNext
      <4>4. Earliest \subseteq pending /\ Earliest \in SUBSET Acts
        BY DEF Earliest
      <4>5. clock' = [a \in Acts |-> IF a \in Earliest THEN "ringing" ELSE clock[a]]
        BY <4>2, <4>3, <4>4 DEF clock
      <4>6. \A a \in Earliest : clock[a] = "running"
        BY <4>4 DEF OnePlace, clock
      <4>7. Clocks!Ring(Earliest)
        BY <4>1, <4>2, <4>5, <4>6 DEF Clocks!Ring
      <4> QED BY <4>1, <4>4, <4>7 DEF Clocks!RingIncluding, Clocks!Next
    <3> QED BY <2>9, <3>1, <3>2 DEF Pop
  <2>10. CASE Tick
    BY <2>1, <2>10 DEF Tick, CountDown, Expire, stackVars
  <2>11. CASE UNCHANGED vars
    BY <2>1, <2>11 DEF vars, halVars, stackVars
  <2> QED
    BY <2>2, <2>3, <2>4, <2>5, <2>6, <2>7, <2>8, <2>9, <2>10, <2>11
       DEF Next, MainStep, IsrStep, Clocks!Next
<1>3. TInv /\ AInv /\ [Next]_vars => AInv'
  BY NextAInv
<1> QED
  BY <1>1, <1>2, <1>3, InitAInv, Typing, PTL DEF Spec, Clocks!Spec

-----------------------------------------------------------------------------
(* Under the lock: what an insertion does to the time of the actions.      *)

\* What the OS timer is about to be armed with.
Loading == IF pc[Main] = "start" THEN ReloadTotal ELSE arg[Main] * TickRate

\* An action that is to elapse in t does so when it was to: see InsertionKeepsTime.
InTime(a, t) == due[a] < passed + t + TickRate /\ t < due[a] + TickRate

\* While main places the action: what Delay() said still holds of what was left when it
\* was called, and main's own action is due after what it asked for.
Placing ==
  pc[Main] = "place" =>
    /\ seen * TickRate <= remaining + passed
    /\ remaining + passed < seen * TickRate + TickRate
    /\ due[cur] = wait * TickRate
    /\ \A a \in pending : due[a] = remaining + passed + off[a] * TickRate

\* While main reloads the timer: what it is about to be armed with is in time.
Arming ==
  pc[Main] \in {"nsec", "sec", "arm", "start"} =>
    \A a \in pending : InTime(a, Loading + off[a] * TickRate)

\* The invariant behind InsertionsKeepTime.
Timing ==
  /\ timerId => Placing /\ Arming
  /\ ~Deciding /\ pc[Main] # "unlock" => passed = 0

LEMMA InitTiming == Init => Timing
BY DEF Init, HalInit, Timing, Placing, Arming, Deciding, Thread

\* While main holds the mutex no thread of ISROSTimer() takes a step.
LEMMA MainAlone ==
  ASSUME ServiceLocks, TypeOK, Mutex, NEW i \in Isr, IsrStep(i)
  PROVE  pc[Main] \notin Inside /\ pc'[Main] = pc[Main]
<1> USE ThreadAssumption DEF TypeOK, Mutex, Inside, Thread
<1>1. CASE EnterService(i)
  BY <1>1 DEF EnterService, Lock, Free, Goto
<1>2. CASE Pop(i)
  BY <1>2 DEF Pop, PopNothing, PopLast, PopNext, Goto
<1>3. CASE ReloadIsr(i)
  BY <1>3 DEF ReloadIsr, ReloadNanosec, ReloadSec, ReloadArm, Stop, Goto
<1>4. CASE LeaveService(i)
  BY <1>4 DEF LeaveService, Goto
<1> QED BY <1>1, <1>2, <1>3, <1>4 DEF IsrStep

\* Where an insertion leaves an action, in nanoseconds: those behind a new head follow it
\* as they did, a new one behind the head keeps its distance from what Delay() said.
LEMMA Placed ==
  ASSUME TInv, OnePlace, timerId, Placing, Place, NEW a \in pending'
  PROVE  /\ PlaceFirst => InTime(a, wait * TickRate + off'[a] * TickRate)
         /\ PlaceLater => InTime(a, remaining + off'[a] * TickRate)
<1> USE ThreadAssumption, ActAssumption, TickTakesTime DEF TInv, TypeOK, Thread, InTime
<1>1. /\ pc[Main] = "place" /\ cur \in Acts /\ a \in Acts
      /\ a # cur => a \in pending /\ ~empty
  BY DEF Place, PlaceFirst, PlaceLater, Goto, Inserting
<1>2. /\ wait \in Nat /\ seen \in Nat /\ off[a] \in Nat /\ remaining \in Nat
      /\ passed \in Nat /\ due[a] \in Nat
  BY <1>1
<1>3. wait * TickRate \in Nat /\ seen * TickRate \in Nat /\ off[a] * TickRate \in Nat
  BY <1>2, Nanoseconds
<1>4. /\ seen * TickRate <= remaining + passed
      /\ remaining + passed < seen * TickRate + TickRate
      /\ a = cur => due[a] = wait * TickRate
      /\ a # cur => due[a] = remaining + passed + off[a] * TickRate
  BY <1>1 DEF Placing
<1>5. CASE PlaceFirst
  <2>1. CASE a = cur
    <3>1. off'[a] = 0
      BY <1>1, <1>5, <2>1 DEF PlaceFirst, OnePlace
    <3> QED BY <1>2, <1>3, <1>4, <1>5, <2>1, <3>1 DEF PlaceFirst, PlaceLater
  <2>2. CASE a # cur
    <3>1. off'[a] = off[a] + (seen - wait) /\ wait < seen
      BY <1>1, <1>5, <2>2 DEF PlaceFirst
    <3>2. off'[a] * TickRate = off[a] * TickRate + (seen * TickRate - wait * TickRate)
      BY <1>2, <3>1, Distributes
    <3> QED BY <1>2, <1>3, <1>4, <1>5, <2>2, <3>1, <3>2 DEF PlaceFirst, PlaceLater
  <2> QED BY <2>1, <2>2
<1>6. CASE PlaceLater
  <2>1. CASE a = cur
    <3>1. off'[a] = wait - seen
      BY <1>1, <1>6, <2>1 DEF PlaceLater
    <3>2. off'[a] * TickRate = wait * TickRate - seen * TickRate
      BY <1>2, <3>1, Distributes
    <3> QED BY <1>2, <1>3, <1>4, <1>6, <2>1, <3>2 DEF PlaceFirst, PlaceLater
  <2>2. CASE a # cur
    <3>1. off'[a] = off[a]
      BY <1>1, <1>6, <2>2 DEF PlaceLater
    <3> QED BY <1>2, <1>3, <1>4, <1>6, <2>2, <3>1 DEF PlaceFirst, PlaceLater
  <2> QED BY <2>1, <2>2
<1> QED BY <1>5, <1>6

\* The timer is armed with what main was about to arm it with.
LEMMA LoadingArmed ==
  ASSUME TInv, Storing, timerId,
         (\E next \in {"start", "unlock"} : ReloadArm(Main, next)) \/ Start(Main)
  PROVE  remaining' = Loading
BY Armed DEF TInv, Storing, ReloadArm, Start, Goto, Loading, Thread

LEMMA NextTiming ==
  ASSUME ServiceLocks, TInv, LInv, AInv, Timing, [Next]_vars
  PROVE  Timing'
<1> USE ThreadAssumption DEF TInv, TypeOK, LInv, AInv, Timing, Thread
<1>1. ASSUME ~(Deciding' \/ pc'[Main] = "unlock"), passed' = 0
      PROVE  Timing'
  BY <1>1 DEF Deciding, Placing, Arming
<1>2. CASE Boot \/ (\E a \in Acts : Create(a) \/ Take(a)) \/ LockMain
  BY <1>1, <1>2 DEF Boot, InitDriver, LinkTimer, Create, Take, LockMain, Goto, stackVars,
                    historyVars, Deciding
<1>3. CASE ReadDelay
  <2>1. pc[Main] = "read" /\ pc'[Main] = "place"
    BY <1>3 DEF ReadDelay, Goto
  <2>2. passed = 0 /\ passed' = 0
    BY <1>3, <2>1 DEF ReadDelay, Deciding
  <2>3. cur \in Acts /\ due'[cur'] = wait' * TickRate
    BY <1>3, <2>1 DEF ReadDelay, Inserting
  <2>4. \A a \in pending' : due'[a] = remaining' + passed' + off'[a] * TickRate
    <3>1. ASSUME NEW a \in pending PROVE due'[a] = remaining + off[a] * TickRate
      <4>1. a # cur /\ a \in Acts
        BY DEF OnePlace
      <4> QED BY <1>3, <4>1 DEF ReadDelay
    <3>2. ASSUME NEW a \in pending PROVE off[a] * TickRate \in Nat
      BY Nanoseconds
    <3>3. UNCHANGED <<pending, off, remaining>>
      BY <1>3 DEF ReadDelay
    <3> HIDE <1>3
    <3> QED BY <2>2, <3>1, <3>2, <3>3
  <2>5. /\ seen' * TickRate <= remaining' + passed'
        /\ remaining' + passed' < seen' * TickRate + TickRate
    BY <1>3, <2>2, DelayRounds, TickTakesTime DEF ReadDelay
  <2> QED BY <2>1, <2>2, <2>3, <2>4, <2>5 DEF Placing, Arming, Deciding
<1>4. CASE Place
  <2>1. pc[Main] = "place" /\ timerId' = timerId
    BY <1>4 DEF Place, PlaceFirst, PlaceLater, Goto
  <2>2. CASE PlaceFirst
    <3>1. pc'[Main] = "nsec" /\ Loading' = wait * TickRate
      BY <1>4, <2>2 DEF Place, PlaceFirst, Goto, Loading
    <3>2. ASSUME timerId, NEW a \in pending'
          PROVE  InTime(a, Loading + off[a] * TickRate)'
      BY <1>4, <2>2, <3>1, <3>2, Placed DEF Place, InTime, historyVars
    <3> QED BY <2>1, <3>1, <3>2 DEF Placing, Arming, Deciding
  <2>3. CASE PlaceLater
    BY <2>3 DEF PlaceLater, Goto, Placing, Arming, Deciding
  <2> QED BY <1>4, <2>2, <2>3 DEF Place
<1>5. CASE ReloadMain
  <2>1. /\ UNCHANGED <<timerId, pending, off, due, passed>>
        /\ pc[Main] \in {"nsec", "sec", "arm", "start"}
        /\ pc'[Main] \in {"sec", "arm", "start", "unlock"}
    BY <1>5 DEF ReloadMain, ReloadNanosec, ReloadSec, ReloadArm, Start, Goto, stackVars
  <2>2. pc'[Main] # "unlock" => Loading' = Loading
    BY <1>5 DEF ReloadMain, ReloadNanosec, ReloadSec, ReloadArm, Start, Goto, Storing,
                Loading, ReloadTotal
  <2>3. CASE pc'[Main] = "unlock"
    BY <2>3 DEF Placing, Arming
  <2>4. CASE pc'[Main] # "unlock"
    BY <2>1, <2>2, <2>4 DEF Placing, Arming, Deciding, InTime
  <2> QED BY <2>3, <2>4
<1>6. CASE UnlockMain
  BY <1>1, <1>6 DEF UnlockMain, Goto, Deciding
<1>7. ASSUME NEW i \in Isr, IsrStep(i) PROVE Timing'
  <2>1. pc[Main] \notin Inside /\ pc'[Main] = pc[Main]
    BY <1>7, MainAlone
  <2>2. passed' = passed
    BY <1>7 DEF IsrStep, EnterService, Pop, ReloadIsr, LeaveService, stackVars, historyVars
  <2> QED BY <1>1, <2>1, <2>2 DEF Inside, Deciding
<1>8. CASE Tick
  <2>1. /\ UNCHANGED <<timerId, pending, off, due, cur, wait, seen, arg, tempSec, tempNanosec>>
        /\ pc'[Main] = pc[Main]
        /\ remaining > 0 /\ remaining' = remaining - 1
        /\ passed' = IF Deciding THEN passed + 1 ELSE passed
    BY <1>8 DEF Tick, CountDown, Expire, Goto
  <2>2. Placing => Placing'
    BY <2>1, Nanoseconds DEF Placing, Deciding
  <2>3. timerId /\ Arming => Arming'
    <3> SUFFICES ASSUME timerId, Arming, pc[Main] \in {"nsec", "sec", "arm", "start"},
                        NEW a \in pending
                 PROVE  InTime(a, Loading + off[a] * TickRate)'
      BY <2>1 DEF Arming
    <3>1. Loading \in Nat /\ off[a] * TickRate \in Nat /\ due[a] \in Nat
      BY Nanoseconds, TotalType DEF Loading
    <3>2. InTime(a, Loading + off[a] * TickRate)
      BY DEF Arming
    <3>3. Loading' = Loading /\ passed' = passed + 1
      BY <2>1 DEF Loading, ReloadTotal, Deciding
    <3> QED BY <2>1, <3>1, <3>2, <3>3, TickTakesTime DEF InTime
  <2> QED BY <2>1, <2>2, <2>3 DEF Deciding
<1>9. CASE UNCHANGED vars
  <2>1. /\ UNCHANGED <<timerId, pc, pending, off, due, passed, cur, wait, seen, arg, tempSec,
                       tempNanosec, remaining>>
    BY <1>9 DEF vars, halVars, stackVars
  <2> QED BY <2>1 DEF Placing, Arming, Deciding, InTime, Loading, ReloadTotal
<1> QED
  BY <1>2, <1>3, <1>4, <1>5, <1>6, <1>7, <1>8, <1>9 DEF Next, MainStep

\* When COTmrService() takes the mutex, an insertion keeps every action's time: main acts
\* on a Delay() that time, and nothing else, has passed since, and what it arms the timer
\* with and the offsets it writes make each action elapse when it was to, to a tick.
THEOREM InsertionsKeepTime == ASSUME ServiceLocks PROVE Spec => InsertionKeepsTime
<1>1. ASSUME TInv, LInv, AInv, Timing, [Next]_vars, timerId, pc[Main] # "unlock",
             pc'[Main] = "unlock", NEW a \in pending'
      PROVE  due[a] < passed + Left(a)' + TickRate /\ Left(a)' < due[a] + TickRate
  <2> USE <1>1, ThreadAssumption DEF TInv, TypeOK, LInv, AInv, Timing, Thread
  <2>1. Place \/ ReloadMain
    <3>1. ASSUME NEW b \in Acts, Create(b) \/ Take(b) PROVE FALSE
      BY <3>1 DEF Create, Take, Goto
    <3>2. ASSUME NEW i \in Isr, IsrStep(i) PROVE FALSE
      BY <3>2 DEF IsrStep, EnterService, LeaveService, Pop, PopNothing, PopLast, PopNext,
                  ReloadIsr, ReloadNanosec, ReloadSec, ReloadArm, Stop, Goto
    <3>3. ~Tick
      BY DEF Tick, CountDown, Expire, Goto
    <3>4. ~(Boot \/ LockMain \/ ReadDelay \/ UnlockMain \/ UNCHANGED vars)
      BY DEF Boot, InitDriver, LinkTimer, LockMain, ReadDelay, UnlockMain, vars, halVars, Goto
    <3> QED BY <3>1, <3>2, <3>3, <3>4 DEF Next, MainStep
  <2>2. CASE Place
    <3>1. PlaceLater /\ remaining' = remaining
      BY <2>2 DEF Place, PlaceFirst, Goto
    <3>2. InTime(a, remaining + off'[a] * TickRate)
      BY <2>2, <3>1, Placed
    <3>3. Left(a)' = remaining + off'[a] * TickRate
      BY <3>1 DEF Left
    <3>4. TypeOK'
      BY NextTInv
    <3> QED
      <4>1. /\ due[a] < passed + (remaining + off'[a] * TickRate) + TickRate
            /\ remaining + off'[a] * TickRate < due[a] + TickRate
        BY <3>2 DEF InTime
      <4> QED BY <3>3, <4>1
  <2>3. CASE ReloadMain
    <3>1. /\ (\E next \in {"start", "unlock"} : ReloadArm(Main, next)) \/ Start(Main)
          /\ UNCHANGED stackVars
      BY <2>3 DEF ReloadMain, ReloadNanosec, ReloadSec, Goto
    <3>2. remaining' = Loading /\ pc[Main] \in {"arm", "start"}
      BY <3>1, LoadingArmed DEF ReloadArm, Start, Goto
    <3>3. InTime(a, Loading + off[a] * TickRate)
      BY <3>1, <3>2 DEF Arming, stackVars
    <3>4. Left(a)' = Loading + off[a] * TickRate
      BY <3>1, <3>2 DEF Left, stackVars
    <3> QED BY <3>3, <3>4 DEF InTime
  <2> QED BY <2>1, <2>2, <2>3
<1>2. TInv /\ LInv /\ AInv /\ Timing /\ [Next]_vars =>
        [timerId /\ pc[Main] # "unlock" /\ pc'[Main] = "unlock" =>
           \A a \in pending' : /\ due[a] < passed + Left(a)' + TickRate
                              /\ Left(a)' < due[a] + TickRate]_vars
  BY <1>1
<1>3. TInv /\ LInv /\ AInv /\ Timing /\ [Next]_vars => Timing'
  BY NextTiming
<1> QED
  BY <1>2, <1>3, InitTiming, InitAInv, NextAInv, Locked, Typing, PTL
     DEF Spec, InsertionKeepsTime

=============================================================================
