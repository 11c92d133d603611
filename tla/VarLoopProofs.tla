--------------------------- MODULE VarLoopProofs ---------------------------
(***************************************************************************)
(* What holds of VarLoop for all times, every iteration however long, and   *)
(* every width of the data.                                                 *)
(***************************************************************************)
EXTENDS VarLoop, TLAPS

\* Data point 3 starts over before its bit is shifted out.
TurnsInTime == point.three <= TurnBit

\* While a TPDO has not carried an object, its event timer has gone on for as long as the
\* update is old, or has elapsed and waits for NodeTick(), which leaves none elapsed.  By
\* the time Tick() reads the clock the update is older by the gap at most.  If that is
\* short an update finds everything sent.
Pending(sent, d) ==
  \/ sent
  \/ d + age <= EventTime
  \/ pc \in {"node", "sleep"} /\ d = 0
  \/ pc = "tick" /\ d = 0 /\ age <= EventTime + MaxGap

SentInTime ==
  /\ pc \in {"node", "gap", "tick", "sleep"} =>
       /\ Pending(frame.one = object.one, due.first)
       /\ Pending(frame.two = object.two /\ frame.three = object.three, due.second)
  /\ pc = "set1" /\ ShortGap => frame = object

Inv == TypeOK /\ TurnsInTime /\ SentInTime

\* Counting modulo Modulus stays below it.
LEMMA Counts ==
  ASSUME NEW n \in Nat
  PROVE  n % Modulus \in 0..(Modulus - 1)
BY DataAssumption

LEMMA InitInv == Init => Inv
<1> SUFFICES ASSUME Init PROVE Inv
  OBVIOUS
<1>1. TypeOK
  BY TimeAssumption, DataAssumption DEF Init, TypeOK, Triple, NoBit
<1>2. TurnsInTime /\ SentInTime
  BY DataAssumption DEF Init, TurnsInTime, SentInTime, Pending, Triple
<1> QED
  BY <1>1, <1>2 DEF Inv

LEMMA NodeTickInv == Inv /\ NodeTick => Inv'
<1> SUFFICES ASSUME Inv, NodeTick PROVE Inv'
  OBVIOUS
<1>1. /\ due' \in [first : 0..EventTime, second : 0..EventTime]
      /\ due'.first = IF due.first = 0 THEN EventTime ELSE due.first
      /\ due'.second = IF due.second = 0 THEN EventTime ELSE due.second
  BY TimeAssumption DEF Inv, TypeOK, NodeTick
<1>2. /\ pc = "node" /\ pc' = "gap" /\ UNCHANGED <<age, point, object>>
      /\ frame' = Triple(IF due.first = 0 THEN object.one ELSE frame.one,
                         IF due.second = 0 THEN object.two ELSE frame.two,
                         IF due.second = 0 THEN object.three ELSE frame.three)
  BY DEF NodeTick, Goto
<1>3. frame' \in [one : 0..(Modulus - 1), two : 0..(Modulus - 1), three : 0..NoBit]
  BY <1>2 DEF Inv, TypeOK, Triple
<1>4. TypeOK' /\ TurnsInTime'
  BY <1>1, <1>2, <1>3 DEF Inv, TypeOK, TurnsInTime
<1>5. SentInTime'
  BY <1>1, <1>2 DEF Inv, TypeOK, SentInTime, Pending, Triple
<1> QED
  BY <1>4, <1>5 DEF Inv

LEMMA TickInv == Inv /\ (TickDue \/ TickNotDue) => Inv'
<1> SUFFICES ASSUME Inv, TickDue \/ TickNotDue PROVE Inv'
  OBVIOUS
<1> USE DEF Inv, TypeOK, TurnsInTime, SentInTime, Pending, Goto
<1>1. CASE TickNotDue
  BY <1>1 DEF TickNotDue
<1>2. CASE TickDue
  <2>1. /\ pc = "tick" /\ pc' = "set1" /\ age > TickRate /\ UNCHANGED <<age, due, object, frame>>
        /\ point' = Triple((point.one + 1) % Modulus, (point.two + Modulus - 1) % Modulus,
                           NextBit(point.three))
    BY <1>2 DEF TickDue
  <2>2. ASSUME ShortGap PROVE frame = object
    <3>1. /\ ~(due.first + age <= EventTime) /\ ~(due.second + age <= EventTime)
          /\ ~(age <= EventTime + MaxGap)
      BY <2>1, <2>2, TimeAssumption DEF ShortGap
    <3>2. frame.one = object.one /\ frame.two = object.two /\ frame.three = object.three
      BY <2>1, <3>1
    <3> QED BY <3>2
  <2>3. /\ (point.one + 1) % Modulus \in 0..(Modulus - 1)
        /\ (point.two + Modulus - 1) % Modulus \in 0..(Modulus - 1)
    BY Counts, DataAssumption
  <2>4. NextBit(point.three) \in 0..(Bits - 1) /\ NextBit(point.three) <= TurnBit
    BY DataAssumption DEF NextBit
  <2>5. /\ point' \in [one : 0..(Modulus - 1), two : 0..(Modulus - 1), three : 0..(Bits - 1)]
        /\ point'.three <= TurnBit
    BY <2>1, <2>3, <2>4 DEF Triple
  <2> QED BY <2>1, <2>2, <2>5
<1> QED
  BY <1>1, <1>2

\* An event timer is closer to its time by what has passed, and waits there.
Remains(d, e, t) == e = IF t >= d THEN 0 ELSE d - t

LEMMA TimePasses ==
  ASSUME TypeOK, NEW t \in Nat, Passes(t)
  PROVE  /\ age' = age + t /\ age' \in Nat
         /\ due' \in [first : 0..EventTime, second : 0..EventTime]
         /\ Remains(due.first, due.first', t) /\ Remains(due.second, due.second', t)
BY TimeAssumption DEF TypeOK, Passes, Remains

LEMMA GapInv == Inv /\ Gap => Inv'
<1> SUFFICES ASSUME Inv, NEW t \in 0..MaxGap, Passes(t),
                    pc = "gap", pc' = "tick", UNCHANGED <<point, object, frame>>
             PROVE  Inv'
  BY DEF Gap, Goto
<1> USE DEF Inv, TypeOK, TurnsInTime, SentInTime, Pending
<1>1. /\ age' = age + t /\ age' \in Nat
      /\ due' \in [first : 0..EventTime, second : 0..EventTime]
      /\ Remains(due.first, due.first', t) /\ Remains(due.second, due.second', t)
  BY TimePasses, TimeAssumption
<1>2. ASSUME NEW sent \in BOOLEAN, NEW d \in 0..EventTime, NEW e \in 0..EventTime,
             Remains(d, e, t), sent \/ d + age <= EventTime
      PROVE  sent \/ e + age' <= EventTime \/ (e = 0 /\ age' <= EventTime + MaxGap)
  BY <1>1, <1>2, TimeAssumption DEF Remains
<1>3. SentInTime'
  BY <1>1, <1>2
<1> QED
  BY <1>1, <1>3

LEMMA SetInv == Inv /\ SetObjects => Inv'
<1> SUFFICES ASSUME Inv, SetObjects PROVE Inv'
  OBVIOUS
<1> USE DEF Inv, TypeOK, TurnsInTime, SentInTime, Pending, Goto
<1>1. CASE SetObject1
  BY <1>1 DEF SetObject1
<1>2. CASE SetObject2
  BY <1>2 DEF SetObject2
<1>3. CASE SetObject3
  <2>1. object' \in [one : 0..(Modulus - 1), two : 0..(Modulus - 1), three : 0..NoBit]
    BY <1>3, DataAssumption DEF SetObject3, NoBit
  <2>2. /\ pc' = "stamp" /\ UNCHANGED <<point, frame>>
        /\ \E t \in 0..MaxSleep : Passes(t)
    BY <1>3 DEF SetObject3
  <2>3. age' \in Nat /\ due' \in [first : 0..EventTime, second : 0..EventTime]
    BY <2>2, TimePasses, TimeAssumption
  <2> QED BY <2>1, <2>2, <2>3
<1> QED
  BY <1>1, <1>2, <1>3 DEF SetObjects

LEMMA StampInv == Inv /\ Stamp => Inv'
<1> SUFFICES ASSUME Inv, Stamp PROVE Inv'
  OBVIOUS
<1> USE DEF Inv, TypeOK, TurnsInTime, SentInTime, Pending
<1>1. pc' = "sleep" /\ age' = 0 /\ UNCHANGED <<due, point, object, frame>>
  BY DEF Stamp, Goto, AgeReset
<1>2. due.first + 0 <= EventTime /\ due.second + 0 <= EventTime
  BY TimeAssumption
<1> QED
  BY <1>1, <1>2

LEMMA SleepInv == Inv /\ Sleep => Inv'
<1> SUFFICES ASSUME Inv, NEW t \in 0..MaxSleep, Passes(t),
                    pc = "sleep", pc' = "node", UNCHANGED <<point, object, frame>>
             PROVE  Inv'
  BY TimeAssumption DEF Sleep, Goto
<1> USE DEF Inv, TypeOK, TurnsInTime, SentInTime, Pending
<1>1. /\ age' = age + t /\ age' \in Nat
      /\ due' \in [first : 0..EventTime, second : 0..EventTime]
      /\ Remains(due.first, due.first', t) /\ Remains(due.second, due.second', t)
  BY TimePasses, TimeAssumption
<1>2. ASSUME NEW sent \in BOOLEAN, NEW d \in 0..EventTime, NEW e \in 0..EventTime,
             Remains(d, e, t), sent \/ d + age <= EventTime \/ d = 0
      PROVE  sent \/ e + age' <= EventTime \/ e = 0
  BY <1>1, <1>2, TimeAssumption DEF Remains
<1>3. SentInTime'
  BY <1>1, <1>2
<1> QED
  BY <1>1, <1>3

LEMMA NextInv == Inv /\ [Next]_vars => Inv'
<1> SUFFICES ASSUME Inv, [Next]_vars PROVE Inv'
  OBVIOUS
<1>1. CASE UNCHANGED vars
  BY <1>1 DEF Inv, TypeOK, TurnsInTime, SentInTime, Pending, vars
<1> QED
  BY <1>1, NodeTickInv, GapInv, TickInv, SetInv, StampInv, SleepInv DEF Next

LEMMA Invariant == Spec => []Inv
BY InitInv, NextInv, PTL DEF Spec

-----------------------------------------------------------------------------

\* Every variable has its type; data point 3 keeps its bit, for every width and every
\* bit it turns at.
THEOREM TypeCorrect == Spec => []TypeOK
<1>1. Inv => TypeOK
  BY DEF Inv
<1> QED
  BY <1>1, Invariant, PTL

\* No update of the data is overwritten before both TPDOs have carried it, if the gap
\* between NodeTick() and the clock that Tick() reads is short; for every length of the
\* rest of an iteration, every event time and every width of the data.
THEOREM UpdatesSent ==
  ASSUME ShortGap
  PROVE  Spec => EveryUpdateIsSent
<1>1. Inv /\ [Next]_vars
        => [object.three # NoBit /\ object'.one # object.one => frame = object]_vars
  <2> SUFFICES ASSUME Inv, Next, object'.one # object.one PROVE frame = object
    BY DEF vars
  <2>1. CASE SetObject1
    BY <2>1 DEF SetObject1, Goto, Inv, SentInTime
  <2>2. CASE SetObject2
    BY <2>2 DEF SetObject2, Inv, TypeOK
  <2>3. CASE SetObject3
    BY <2>3 DEF SetObject3, Inv, TypeOK
  <2> QED
    BY <2>1, <2>2, <2>3 DEF Next, SetObjects, NodeTick, Gap, TickDue, TickNotDue, Stamp,
                               Sleep
<1> QED
  BY <1>1, Invariant, PTL DEF Spec, EveryUpdateIsSent

=============================================================================
