---------------------------- MODULE CanTransmit ----------------------------
(***************************************************************************)
(* When a frame the stack sends is written to the socket:                  *)
(* co_can_linux::Send(), SocketCAN::IsBusOff() and SocketCAN::Send() on    *)
(* main, against what SocketCAN::Poll() learns about the bus on the        *)
(* polling thread.  They share m_busOff, which no mutex protects;          *)
(* m_txErrCnt belongs to main.  Between the read() of a frame and the       *)
(* store of m_busOff the thread hands the frame on, or translates it for   *)
(* the log, and main may run.  What error frames say is in ErrorFrame.      *)
(***************************************************************************)
EXTENDS Naturals, ErrorFrame

CONSTANTS
  Threshold,  \* c_busOffThreshold
  QueueLen,   \* how many frames the interface takes before it refuses one
  ErrorFrames \* the error frames the interface may deliver

ASSUME ThresholdAssumption == Threshold \in Nat
ASSUME QueueAssumption == QueueLen \in Nat \ {0}

ASSUME FrameAssumption == \A frame \in ErrorFrames : frame.class # {}

\* What stands for a data frame.
DataFrame == [class |-> {}, crtl |-> {}, prot |-> {}, loc |-> Unspec]

VARIABLES
  alive,     \* the process: an exception that leaves the polling thread ends it
  pc,        \* where main stands in Send(): "idle", "gate", "check" or "write"
  busOff,    \* m_busOff
  txErrCnt,  \* m_txErrCnt
  open,      \* m_socket is valid
  result,    \* what the last Send() did: "none", "sent", "refused" or "failed"
  healthy,   \* the bus carries frames
  queued,    \* frames in the transmit queue of the interface
  ppc,       \* where the polling thread stands: "wait", "log" or "store"
  rxFrame,   \* the last frame it has read, a data frame at first
  late       \* history: frames written since it is done with one that says bus-off

mainVars == <<pc, txErrCnt, open, result>>
busVars == <<healthy, queued>>
pollVars == <<busOff, ppc, rxFrame, alive>>
vars == <<mainVars, pollVars, busVars, late>>

Init ==
  /\ pc = "idle" /\ result = "none"
  /\ busOff = FALSE /\ txErrCnt = 0
  /\ alive = TRUE /\ ppc = "wait" /\ rxFrame = DataFrame
  /\ open = TRUE
  /\ healthy = TRUE /\ queued = 0
  /\ late = 0

Goto(from, to) == pc = from /\ pc' = to

\* Poll() has dealt with a frame that says that the bus is off.
Told == ppc = "wait" /\ MeansBusOff(rxFrame)

-----------------------------------------------------------------------------
(* Main.                                                                   *)

\* An IsBusOff() that forgets the write errors.
IsBusOffReported == busOff

IsBusOff == busOff \/ txErrCnt > Threshold

\* The stack calls Send() in the course of NodeTick().
SendCall ==
  /\ Goto("idle", "gate")
  /\ UNCHANGED <<txErrCnt, open, result, pollVars, busVars, late>>

SendRefused ==
  /\ IsBusOff
  /\ Goto("gate", "idle")
  /\ result' = "refused"
  /\ UNCHANGED <<txErrCnt, open, pollVars, busVars, late>>

SendAccepted ==
  /\ ~IsBusOff
  /\ Goto("gate", "check")
  /\ UNCHANGED <<txErrCnt, open, result, pollVars, busVars, late>>

\* SocketCAN::Send() looks at m_socket and m_busOff once more.  The stack never
\* sends more than 8 bytes.
SendCheck ==
  /\ IF open /\ ~busOff
       THEN Goto("check", "write") /\ UNCHANGED result
       ELSE Goto("check", "idle") /\ result' = "failed"
  /\ UNCHANGED <<txErrCnt, open, pollVars, busVars, late>>

WriteSucceeds ==
  /\ queued < QueueLen
  /\ queued' = queued + 1
  /\ txErrCnt' = 0
  /\ result' = "sent"
  /\ late' = IF Told THEN late + 1 ELSE late

\* ENOBUFS: the queue of the interface is full.
WriteOverflows ==
  /\ queued = QueueLen
  /\ txErrCnt' = txErrCnt + 1
  /\ result' = "failed"
  /\ UNCHANGED <<queued, late>>

\* Any other error, the interface being down for one, is not counted.
WriteFails ==
  /\ result' = "failed"
  /\ UNCHANGED <<queued, txErrCnt, late>>

SendWrite ==
  /\ Goto("write", "idle")
  /\ WriteSucceeds \/ WriteOverflows \/ (~healthy /\ WriteFails)
  /\ UNCHANGED <<open, pollVars, healthy>>

\* Enable() closes and opens the socket, which empties the interface's queue, and has
\* the thread finish what it is at; it may fail to open it (a socket it could not bind
\* fails as a closed one does).  m_busOff and m_txErrCnt stay as they are.
Enable ==
  /\ alive
  /\ pc = "idle" /\ ppc = "wait"
  /\ open' \in BOOLEAN
  /\ queued' = 0
  /\ UNCHANGED <<pc, txErrCnt, result, pollVars, healthy, late>>

-----------------------------------------------------------------------------
(* The polling thread.                                                     *)

\* read() returns a data frame, which is handed on at once.
PollFrame ==
  /\ alive /\ ppc = "wait" /\ open /\ healthy
  /\ rxFrame' = DataFrame /\ ppc' = "store"
  /\ late' = 0
  /\ UNCHANGED <<alive, busOff, mainVars, busVars>>

\* read() returns an error frame.  The bus is off, or the controller passive, only if
\* the bus is not healthy.
PollError ==
  /\ alive /\ ppc = "wait" /\ open
  /\ rxFrame' \in ErrorFrames /\ ppc' = "log"
  /\ MeansBusOff(rxFrame') => ~healthy
  /\ late' = IF MeansBusOff(rxFrame') THEN late ELSE 0
  /\ UNCHANGED <<alive, busOff, mainVars, busVars>>

\* An error frame is translated for the log; nothing catches what that may throw.
PollLog ==
  /\ alive /\ ppc = "log"
  /\ IF Throws(rxFrame) THEN alive' = FALSE /\ UNCHANGED ppc
                        ELSE ppc' = "store" /\ UNCHANGED alive
  /\ UNCHANGED <<busOff, rxFrame, late, mainVars, busVars>>

\* A data frame that leaves m_busOff as it is.
FrameIgnored == UNCHANGED busOff

\* Any data frame says that the bus is on again.
FrameRead == busOff' = FALSE

\* Poll() that does not look at what an error frame says.
ErrorIgnored(frame) == UNCHANGED busOff

\* So does any error frame that does not say that it is off.
ErrorRead(frame) == busOff' = MeansBusOff(frame)

PollStore ==
  /\ alive /\ ppc = "store"
  /\ IF rxFrame = DataFrame THEN FrameRead ELSE ErrorRead(rxFrame)
  /\ ppc' = "wait"
  /\ UNCHANGED <<alive, rxFrame, late, mainVars, busVars>>

-----------------------------------------------------------------------------
(* The bus.                                                                *)

BusFails == healthy /\ healthy' = FALSE /\ UNCHANGED <<mainVars, pollVars, queued, late>>

BusHeals == ~healthy /\ healthy' = TRUE /\ UNCHANGED <<mainVars, pollVars, queued, late>>

BusTakes ==
  /\ healthy /\ queued > 0
  /\ queued' = queued - 1
  /\ UNCHANGED <<mainVars, pollVars, healthy, late>>

SendStep ==
  alive /\ (SendCall \/ SendRefused \/ SendAccepted \/ SendCheck \/ SendWrite)

Next ==
  \/ SendStep
  \/ Enable
  \/ PollFrame \/ PollError \/ PollLog \/ PollStore
  \/ BusFails \/ BusHeals \/ BusTakes

Spec == Init /\ [][Next]_vars

\* The timers keep asking for TPDOs, the polling thread runs, and a healthy bus takes
\* frames and, with other nodes on it, brings some.
FairSpec ==
  /\ Spec
  /\ WF_vars(SendStep) /\ WF_vars(BusTakes)
  /\ WF_vars(PollFrame) /\ WF_vars(PollLog) /\ WF_vars(PollStore)

-----------------------------------------------------------------------------
(* Properties.                                                             *)

\* Every variable has its type; the error counter stops one past the threshold.
TypeOK ==
  /\ pc \in {"idle", "gate", "check", "write"}
  /\ result \in {"none", "sent", "refused", "failed"}
  /\ busOff \in BOOLEAN /\ alive \in BOOLEAN /\ open \in BOOLEAN /\ healthy \in BOOLEAN
  /\ txErrCnt \in 0..(Threshold + 1)
  /\ queued \in 0..QueueLen
  /\ ppc \in {"wait", "log", "store"} /\ rxFrame \in ErrorFrames \cup {DataFrame}
  /\ late \in Nat

\* Once Poll() is done with a frame that says bus-off, the frame main is writing is the
\* last one written until something else is read from the bus.  (Between the read() and
\* the store of m_busOff main may write any number.)
OneLateFrame == late <= 1

\* While m_busOff makes main drop frames, the log has told why: the translation of the
\* frame that set it names the state of the controller.
BusOffIsNamed ==
  alive /\ ppc = "wait" /\ busOff =>
    Named(rxFrame) \cap {"BUSOFF", "TX_PASSIVE", "RX_PASSIVE"} # {}

\* On a bus that has healed and stays so, with the socket open, frames are sent
\* again, unless the write errors had passed the threshold before.
Healed == alive /\ healthy /\ open
SendsResume ==
  <>[]Healed => []<>(result = "sent") \/ <>[](txErrCnt > Threshold)

\* TPDOs are transmitted for ever on such a bus.
SendsForever == <>[]Healed => []<>(result = "sent")

=============================================================================
