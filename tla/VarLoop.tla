------------------------------ MODULE VarLoop ------------------------------
(***************************************************************************)
(* How data get from the generator to the bus: the loop of main() with     *)
(* NodeTick() and varloop::Tick() (src/src/main.cpp, src/src/varloop.cpp), *)
(* the three objects of the dictionary, and the two TPDOs they are mapped  *)
(* to (src/src/mystack.cpp).  The stack's part, external, is to send each  *)
(* TPDO when its event timer has elapsed; the timers are taken to work     *)
(* here.  Writing an object sends nothing: the objects are not marked as   *)
(* asynchronous.                                                           *)
(*                                                                         *)
(* A data point with a single bit set is represented by the number of that *)
(* bit, and by NoBit when the bit has been shifted out.                    *)
(***************************************************************************)
EXTENDS Naturals

CONSTANTS
  TickRate,  \* varloop::TickRate, in units of time
  EventTime, \* the event time of the TPDOs, in the same units
  MaxGap,    \* how long main may be held up between NodeTick() and the clock of Tick()
  MaxSleep,  \* how long it may be held up anywhere else (a bound)
  Modulus,   \* the data points 1 and 2 count modulo this
  Bits,      \* the width of data point 3
  TurnBit    \* the bit of 0x8000000

ASSUME TimeAssumption ==
  /\ TickRate \in Nat /\ EventTime \in Nat \ {0} /\ MaxSleep \in Nat \ {0}
  /\ MaxGap \in Nat
ASSUME DataAssumption == Modulus \in Nat \ {0} /\ Bits \in Nat /\ TurnBit \in 0..(Bits - 1)

VARIABLES
  pc,        \* what main does next: "node", "gap", "tick", "set1", "set2", "set3",
             \* "stamp" or "sleep"
  age,       \* how long ago m_lastUpdate is
  due,       \* when the event timer of each TPDO elapses
  point,     \* m_dataPoint1, 2 and 3
  object,    \* App_Data1, 2 and 3 in the dictionary
  frame      \* what the last TPDO #1 (one) and #2 (two and three) carried

vars == <<pc, age, due, point, object, frame>>

NoBit == Bits

\* The three data points, the three objects, or the contents of both TPDOs.
Triple(one, two, three) == [one |-> one, two |-> two, three |-> three]

Init ==
  /\ pc = "node"
  /\ age = TickRate
  /\ due = [first |-> EventTime, second |-> EventTime]
  /\ point = Triple(0, Modulus - 1, 0)
  /\ object = Triple(0, 0, NoBit)
  /\ frame = object

Goto(from, to) == pc = from /\ pc' = to

\* Time passes for m_lastUpdate and for the event timers.
Passes(t) ==
  /\ age' = age + t
  /\ due' = [i \in DOMAIN due |-> IF t >= due[i] THEN 0 ELSE due[i] - t]

-----------------------------------------------------------------------------

\* NodeTick(): COTmrProcess() sends each TPDO whose event timer has elapsed, from
\* what is in the dictionary, and the event timer is cyclic.
NodeTick ==
  /\ Goto("node", "gap")
  /\ frame' = Triple(IF due.first = 0 THEN object.one ELSE frame.one,
                     IF due.second = 0 THEN object.two ELSE frame.two,
                     IF due.second = 0 THEN object.three ELSE frame.three)
  /\ due' = [i \in DOMAIN due |-> IF due[i] = 0 THEN EventTime ELSE due[i]]
  /\ UNCHANGED <<age, point, object>>

\* An event timer may elapse after NodeTick() has looked and before Tick() reads the
\* clock.
Gap ==
  /\ Goto("gap", "tick")
  /\ \E t \in 0..MaxGap : Passes(t)
  /\ UNCHANGED <<point, object, frame>>

\* The last bit is shifted out, as if the turn were beyond the width.
BitShifted(b) == b + 1

\* Data point 3 is doubled unless it is 0x8000000, and then starts over.
NextBit(b) == IF b # TurnBit THEN b + 1 ELSE 0

TickDue ==
  /\ Goto("tick", "set1")
  /\ age > TickRate
  /\ point' = Triple((point.one + 1) % Modulus, (point.two + Modulus - 1) % Modulus,
                     NextBit(point.three))
  /\ UNCHANGED <<age, due, object, frame>>

TickNotDue ==
  /\ Goto("tick", "sleep")
  /\ age <= TickRate
  /\ UNCHANGED <<age, due, point, object, frame>>

\* The mutex these calls hold is main's alone, and the objects are in the dictionary
\* (Startup), so that each writes its object.
SetObject1 ==
  /\ Goto("set1", "set2")
  /\ object' = [object EXCEPT !.one = point.one]
  /\ UNCHANGED <<age, due, point, frame>>

SetObject2 ==
  /\ Goto("set2", "set3")
  /\ object' = [object EXCEPT !.two = point.two]
  /\ UNCHANGED <<age, due, point, frame>>

\* The last of them, and the time all three have taken.
SetObject3 ==
  /\ Goto("set3", "stamp")
  /\ object' = [object EXCEPT !.three = point.three]
  /\ \E t \in 0..MaxSleep : Passes(t)
  /\ UNCHANGED <<point, frame>>

\* An m_lastUpdate that is moved on by TickRate, to keep the rate in the long run.
AgeKept == age' = age - TickRate

\* m_lastUpdate is read from the clock.
AgeReset == age' = 0

Stamp ==
  /\ Goto("stamp", "sleep")
  /\ AgeReset
  /\ UNCHANGED <<due, point, object, frame>>

\* The rest of the iteration, and what it was held up by.
Sleep ==
  /\ Goto("sleep", "node")
  /\ \E t \in 1..MaxSleep : Passes(t)
  /\ UNCHANGED <<point, object, frame>>

SetObjects == SetObject1 \/ SetObject2 \/ SetObject3

Next == NodeTick \/ Gap \/ TickDue \/ TickNotDue \/ SetObjects \/ Stamp \/ Sleep

Spec == Init /\ [][Next]_vars
FairSpec == Spec /\ WF_vars(Next)

-----------------------------------------------------------------------------
(* Properties.                                                             *)

\* Every variable has its type; in particular data point 3 keeps one bit.
TypeOK ==
  /\ pc \in {"node", "gap", "tick", "set1", "set2", "set3", "stamp", "sleep"}
  /\ age \in Nat /\ due \in [first : 0..EventTime, second : 0..EventTime]
  /\ point \in [one : 0..(Modulus - 1), two : 0..(Modulus - 1), three : 0..(Bits - 1)]
  /\ object \in [one : 0..(Modulus - 1), two : 0..(Modulus - 1), three : 0..NoBit]
  /\ frame \in [one : 0..(Modulus - 1), two : 0..(Modulus - 1), three : 0..NoBit]

\* The gap between NodeTick() and the clock that Tick() reads fits in what TickRate leaves
\* beside the event time.  A longer one makes both the event and the next update due when
\* no NodeTick() can send between them.
ShortGap == EventTime + MaxGap <= TickRate

\* An update is not overwritten by the next before both TPDOs have carried it, if ShortGap
\* holds; elsewhere main may be held up for any time.
EveryUpdateIsSent ==
  [][object.three # NoBit /\ object'.one # object.one => frame = object]_vars

\* TPDO #2 carries a moving bit across 32 bits.
MovingBitCrosses == \A b \in 0..(Bits - 1) : []<>(frame.three = b)

=============================================================================
