------------------------- MODULE CanTransmitProofs -------------------------
(***************************************************************************)
(* What holds of CanTransmit for every threshold, every queue length and   *)
(* every set of error frames.                                              *)
(***************************************************************************)
EXTENDS CanTransmit, TLAPS

\* Main passes the gate only while the error counter is within the threshold, and
\* nobody else counts.
GateHeld == pc \in {"check", "write"} => txErrCnt <= Threshold

\* When the polling thread waits, m_busOff is what the frame before said.
Settled == alive /\ ppc = "wait" => busOff = MeansBusOff(rxFrame)

\* A frame is late only if main was writing it when m_busOff was set.  While one is, the
\* check before the next write turns main away: m_busOff is not cleared before something
\* else is read.
LateOnce ==
  /\ late <= 1
  /\ late > 0 => busOff /\ pc # "write" /\ MeansBusOff(rxFrame)

Inv == TypeOK /\ GateHeld /\ Settled /\ LateOnce

\* A data frame does not say that the bus is off.
LEMMA DataFrames == ~MeansBusOff(DataFrame) /\ \A frame : MeansBusOff(frame) \in BOOLEAN
BY DEF MeansBusOff, DataFrame

LEMMA InitInv == Init => Inv
<1> SUFFICES ASSUME Init PROVE Inv
  OBVIOUS
<1>1. txErrCnt \in 0..(Threshold + 1) /\ queued \in 0..QueueLen
  BY ThresholdAssumption, QueueAssumption DEF Init
<1>2. busOff = MeansBusOff(rxFrame)
  BY DataFrames DEF Init
<1>3. late = 0 /\ pc = "idle"
  BY DEF Init
<1>4. TypeOK
  <2>1. late \in Nat /\ pc \in {"idle", "gate", "check", "write"}
    BY <1>3
  <2>2. /\ result \in {"none", "sent", "refused", "failed"}
        /\ ppc \in {"wait", "log", "store"}
        /\ rxFrame \in ErrorFrames \cup {DataFrame}
    BY DEF Init
  <2>3. busOff \in BOOLEAN /\ alive \in BOOLEAN /\ open \in BOOLEAN /\ healthy \in BOOLEAN
    BY DEF Init
  <2> QED
    BY <1>1, <2>1, <2>2, <2>3 DEF TypeOK
<1>5. GateHeld /\ LateOnce
  BY <1>3 DEF GateHeld, LateOnce
<1>6. Settled
  BY <1>2 DEF Settled
<1> QED
  BY <1>4, <1>5, <1>6 DEF Inv

\* The steps of main: one late frame at most, and none after it.
LEMMA SendInv == Inv /\ SendStep => Inv'
<1> SUFFICES ASSUME Inv, SendStep PROVE Inv'
  OBVIOUS
<1> USE ThresholdAssumption, QueueAssumption
    DEF Inv, TypeOK, GateHeld, Settled, LateOnce, Goto, pollVars, busVars
<1>1. CASE SendCall
  BY <1>1 DEF SendCall
<1>2. CASE SendRefused
  BY <1>2 DEF SendRefused
<1>3. CASE SendAccepted
  BY <1>3 DEF SendAccepted, IsBusOff
<1>4. CASE SendCheck
  BY <1>4 DEF SendCheck
<1>5. CASE SendWrite
  <2>1. pc = "write" /\ late = 0 /\ alive
    BY <1>5 DEF SendWrite, SendStep
  <2>2. CASE WriteSucceeds
    <3>1. late' = IF ppc = "wait" /\ MeansBusOff(rxFrame) THEN 1 ELSE 0
      BY <2>1, <2>2 DEF WriteSucceeds, Told
    <3>2. late' > 0 => busOff /\ MeansBusOff(rxFrame)
      BY <2>1, <3>1
    <3>3. late' \in Nat /\ late' <= 1
      BY <3>1
    <3> HIDE DEF Settled
    <3>4. Settled'
      BY <1>5 DEF SendWrite, Settled
    <3> QED BY <1>5, <2>2, <3>2, <3>3, <3>4 DEF SendWrite, WriteSucceeds
  <2>3. CASE WriteOverflows
    BY <1>5, <2>3 DEF SendWrite, WriteOverflows
  <2>4. CASE WriteFails
    BY <1>5, <2>4 DEF SendWrite, WriteFails
  <2> QED BY <1>5, <2>2, <2>3, <2>4 DEF SendWrite
<1> QED
  BY <1>1, <1>2, <1>3, <1>4, <1>5 DEF SendStep

\* The steps of the polling thread.
LEMMA PollInv == Inv /\ (PollFrame \/ PollError \/ PollLog \/ PollStore) => Inv'
<1> SUFFICES ASSUME Inv, PollFrame \/ PollError \/ PollLog \/ PollStore PROVE Inv'
  OBVIOUS
<1> USE DEF Inv, TypeOK, GateHeld, Settled, LateOnce, mainVars, busVars
<1>1. CASE PollFrame
  BY <1>1 DEF PollFrame
<1>2. CASE PollError
  BY <1>2 DEF PollError
<1>3. CASE PollLog
  BY <1>3 DEF PollLog
<1>4. CASE PollStore
  <2>1. busOff' = MeansBusOff(rxFrame) /\ rxFrame' = rxFrame
    BY <1>4, DataFrames DEF PollStore, FrameRead, ErrorRead
  <2> QED BY <1>4, <2>1, DataFrames DEF PollStore
<1> QED
  BY <1>1, <1>2, <1>3, <1>4

LEMMA NextInv == Inv /\ [Next]_vars => Inv'
<1> SUFFICES ASSUME Inv, [Next]_vars PROVE Inv'
  OBVIOUS
<1> USE QueueAssumption DEF Inv, TypeOK, GateHeld, Settled, LateOnce
<1>1. CASE Enable
  BY <1>1 DEF Enable, pollVars
<1>2. CASE BusFails \/ BusHeals \/ BusTakes
  <2>1. healthy' \in BOOLEAN /\ UNCHANGED <<mainVars, pollVars, late>>
    BY <1>2 DEF BusFails, BusHeals, BusTakes
  <2>2. queued' \in 0..QueueLen
    BY <1>2 DEF BusFails, BusHeals, BusTakes
  <2> QED BY <2>1, <2>2 DEF mainVars, pollVars
<1>3. CASE UNCHANGED vars
  BY <1>3 DEF vars, mainVars, pollVars, busVars
<1> QED
  BY <1>1, <1>2, <1>3, SendInv, PollInv DEF Next

LEMMA Invariance == Spec => []Inv
BY InitInv, NextInv, PTL DEF Spec

\* The counter of SocketCAN::Send() never gets further than one past the threshold
\* of IsBusOff(), so it cannot overflow.
THEOREM CounterBounded == Spec => []TypeOK
<1>1. Inv => TypeOK
  BY DEF Inv
<1> QED BY <1>1, Invariance, PTL

\* Once m_busOff is set for what a frame said, at most the frame main is writing gets out.
THEOREM LateFrameBound == Spec => []OneLateFrame
<1>1. Inv => OneLateFrame
  BY DEF Inv, LateOnce, OneLateFrame
<1> QED BY <1>1, Invariance, PTL

\* For every set of error frames, the log has named the reason when m_busOff is set.
THEOREM NamedBusOff == Spec => []BusOffIsNamed
<1>1. Inv => BusOffIsNamed
  BY DEF Inv, Settled, MeansBusOff, Named, BusOffIsNamed, ErrorClassBits, ControllerErrorStatus
<1> QED BY <1>1, Invariance, PTL

=============================================================================
