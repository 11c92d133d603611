-------------------------- MODULE CanReceiveProofs --------------------------
(***************************************************************************)
(* What holds of CanReceive for every number of Enable() calls, of frames  *)
(* and of frames the kernel keeps.                                         *)
(***************************************************************************)
EXTENDS CanReceive, TLAPS

-----------------------------------------------------------------------------
(* Sockets and threads.                                                    *)

Enabling == {"open", "close", "join", "reset", "reopen", "spawn"}

\* Each Enable() opens at most two sockets, and there is a thread left for it.
Counted ==
  /\ pcm \in Enabling => handle < Pollers
  /\ opened <= 2 * handle + (IF pcm = "spawn" THEN 2
                             ELSE IF pcm \in Enabling \ {"open"} THEN 1 ELSE 0)

\* Only the thread that was started last runs, and none between join() and the next
\* start.  A thread in read() has a descriptor no older than the one it registered.
Threads ==
  /\ \A p \in Poller : Running(p) => p = handle
  /\ pcm \in {"reset", "reopen", "spawn"} => \A p \in Poller : ~Running(p)
  /\ \A p \in Poller : /\ reg[p] <= opened \/ reg[p] = Foreign
                       /\ held[p] <= opened \/ held[p] = Foreign
  /\ \A p \in Poller : pc[p] = "read" => held[p] # None /\ reg[p] <= held[p]
  /\ \A p \in Poller : pc[p] \in {"push", "pushing"} <=> hand[p] # None

\* The socket that is open is the last that was opened; those to come hear nothing yet.
LastOpened ==
  /\ socket # None => socket = opened
  /\ pcm \in {"join", "reset", "reopen"} => socket = None
  /\ \A s \in Sockets : s > opened => s \notin bound /\ buffer[s] = <<>>

Shape == TypeOK /\ Counted /\ Threads /\ LastOpened

LEMMA InitShape == Init => Shape
<1> SUFFICES ASSUME Init PROVE Shape
  OBVIOUS
<1>1. <<>> \in Seq(Frame)
  OBVIOUS
<1>2. TypeOK
  <2>1. /\ pc \in [Poller -> PollPC] /\ buffer \in [Sockets -> Seq(Frame)]
        /\ reg \in [Poller -> Sockets \cup {None}] /\ held \in [Poller -> Sockets \cup {None}]
        /\ hand \in [Poller -> Frame \cup {None}]
    BY <1>1 DEF Init, PollPC
  <2>2. opened \in 0..(2 * Pollers) /\ {0, got, fresh, arrived} \subseteq 0..MaxFrames
    BY BoundAssumption DEF Init, None
  <2> QED BY <1>1, <2>1, <2>2 DEF Init, TypeOK
<1>3. Counted /\ Threads /\ LastOpened
  BY DEF Init, Counted, Enabling, Threads, Running, LastOpened, None, Sockets, Foreign
<1> QED
  BY <1>2, <1>3 DEF Shape

\* The steps of main that touch neither threads nor sockets.
LEMMA MainShape ==
  Shape /\ (InitCan \/ PollingJoin \/ ResetQueue \/ Read \/ Exit) => Shape'
<1> SUFFICES ASSUME Shape, InitCan \/ PollingJoin \/ ResetQueue \/ Read \/ Exit PROVE Shape'
  OBVIOUS
<1> USE DEF Shape, TypeOK, Counted, Enabling, Threads, Running, LastOpened, At, objVars,
            pollVars, queueVars, kernelVars
<1>1. CASE InitCan
  BY <1>1 DEF InitCan
<1>2. CASE PollingJoin
  <2>1. /\ pcm = "join" /\ pcm' = "reset" /\ (handle # None => pc[handle] = "done")
        /\ UNCHANGED <<canIf, handle, exited, fresh, got, len, rxMutex, rxQueue, socket, stop,
                       pc, reg, held, hand, opened, bound, buffer, arrived>>
    BY <1>2 DEF PollingJoin, Join
  <2>2. \A p \in Poller : p # None /\ ~Running(p)
    BY <2>1 DEF Poller, None
  <2>3. TypeOK' /\ LastOpened' /\ Counted'
    BY <2>1
  <2>4. Threads'
    BY <2>1, <2>2
  <2> QED BY <2>3, <2>4
<1>3. CASE ResetQueue
  <2>1. <<>> \in Seq(Frame)
    OBVIOUS
  <2> QED BY <1>3, <2>1 DEF ResetQueue
<1>4. CASE Read
  <2>1. rxQueue # <<>> => Head(rxQueue) \in Frame /\ Tail(rxQueue) \in Seq(Frame)
    OBVIOUS
  <2>2. rxQueue' \in Seq(Frame) /\ got' \in 0..MaxFrames /\ len' \in {0, 1}
    <3>1. CASE ~Pops
      BY <1>4, <3>1 DEF Read, PopFrame, Pops
    <3>2. CASE Pops
      <4>1. /\ rxQueue' = Tail(rxQueue)
            /\ got' = Head(rxQueue) \/ got' = got
            /\ len' \in {0, 1}
        BY <1>4, <3>2 DEF Read, PopFrame
      <4>2. Head(rxQueue) \in 0..MaxFrames
        BY <2>1, <3>2, BoundAssumption DEF Frame, Pops
      <4> QED BY <2>1, <3>2, <4>1, <4>2 DEF Pops
    <3> QED BY <3>1, <3>2
  <2>3. UNCHANGED <<pcm, canIf, handle, exited, fresh, rxMutex, socket, stop, pc, reg, held,
                    hand, opened, bound, buffer, arrived>>
    BY <1>4 DEF Read, PopFrame
  <2> QED BY <2>2, <2>3
<1>5. CASE Exit
  BY <1>5 DEF Exit
<1> QED
  BY <1>1, <1>2, <1>3, <1>4, <1>5

\* The steps that close the socket.
LEMMA CloseShape == Shape /\ (EnableClose \/ PollingClose \/ CloseCan) => Shape'
<1> SUFFICES ASSUME Shape, EnableClose \/ PollingClose \/ CloseCan PROVE Shape'
  OBVIOUS
<1>1. socket' = None /\ stop' \in BOOLEAN
  BY DEF EnableClose, PollingClose, CloseCan, CloseSocket, objVars, Shape, TypeOK
<1> USE <1>1 DEF Shape, TypeOK, Counted, Enabling, Threads, Running, LastOpened, At, pollVars,
                queueVars, kernelVars
<1>2. CASE EnableClose
  BY <1>2, BoundAssumption DEF EnableClose, Poller, None, Sockets
<1>3. CASE PollingClose
  BY <1>3 DEF PollingClose
<1>4. CASE CloseCan
  BY <1>4 DEF CloseCan
<1> QED
  BY <1>2, <1>3, <1>4

LEMMA OpenShape == Shape /\ EnableOpen => Shape'
<1> SUFFICES ASSUME Shape, EnableOpen PROVE Shape'
  OBVIOUS
<1>1. /\ \/ pcm = "open" /\ pcm' = "close"
         \/ pcm = "reopen" /\ pcm' = "spawn"
      /\ UNCHANGED <<canIf, handle, exited, got, len, fresh, stop, buffer, arrived, pc, reg, held,
                     hand, rxMutex, rxQueue>>
  BY DEF EnableOpen, At, pollVars, queueVars
<1>2. handle \in 0..(Pollers - 1) /\ opened \in Nat
  BY <1>1, BoundAssumption DEF Shape, Counted, Enabling, TypeOK, Poller, None, Sockets
<1> USE DEF Shape, TypeOK, Counted, Enabling, Threads, Running, LastOpened
<1>3. CASE UNCHANGED <<socket, opened, bound>>
  BY <1>1, <1>2, <1>3, BoundAssumption
<1>4. CASE /\ socket = None /\ opened' = opened + 1 /\ socket' = opened'
           /\ bound' \in {bound, bound \cup {opened'}}
  <2>1. opened' \in Sockets /\ opened' \in 0..(2 * Pollers)
    BY <1>1, <1>2, <1>4, BoundAssumption DEF Sockets, Foreign
  <2>2. bound' \subseteq Sockets
    BY <1>4, <2>1
  <2>3. TypeOK'
    BY <1>1, <1>4, <2>1, <2>2
  <2>4. Counted'
    BY <1>1, <1>2, <1>4
  <2>5. Threads'
    <3>1. \A p \in Poller : reg[p] \in Nat /\ held[p] \in Nat
      BY BoundAssumption DEF Sockets, Foreign, None
    <3>2. \A p \in Poller : /\ reg[p] <= opened' \/ reg[p] = Foreign
                            /\ held[p] <= opened' \/ held[p] = Foreign
      BY <1>2, <1>4, <3>1
    <3> QED BY <1>1, <3>2
  <2>6. LastOpened'
    BY <1>1, <1>2, <1>4 DEF Sockets
  <2> QED
    BY <2>3, <2>4, <2>5, <2>6
<1> QED
  BY <1>3, <1>4 DEF EnableOpen, OpenSocket

LEMMA StartShape == Shape /\ PollingStart => Shape'
<1> SUFFICES ASSUME Shape, PollingStart PROVE Shape'
  OBVIOUS
<1>1. /\ pcm = "spawn" /\ pcm' = "idle"
      /\ handle' = handle + 1 /\ pc' = [pc EXCEPT ![handle'] = "begin"]
      /\ UNCHANGED <<canIf, exited, got, len, fresh, reg, held, hand, socket, stop, rxMutex, rxQueue,
                     opened, bound, buffer, arrived>>
  BY DEF PollingStart, At, objVars, queueVars, kernelVars
<1>2. handle' \in Poller /\ handle \in Nat
  BY <1>1, BoundAssumption DEF Shape, Counted, Enabling, TypeOK, Poller, None
<1> USE DEF Shape, TypeOK, Counted, Enabling, Threads, Running, LastOpened
<1>3. pc' \in [Poller -> PollPC]
  BY <1>1, <1>2 DEF PollPC
<1>4. /\ \A p \in Poller : p # handle' => pc'[p] = pc[p]
      /\ pc'[handle'] = "begin" /\ ~Running(handle')
  BY <1>1, <1>2
<1>5. \A p \in Poller : ~Running(p)
  BY <1>1
<1>6. hand[handle'] = None
  BY <1>2, <1>4
<1>7. Counted'
  BY <1>1, <1>2
<1> QED
  BY <1>1, <1>2, <1>3, <1>4, <1>5, <1>6, <1>7

\* The steps of a polling thread up to its read().
LEMMA PollShape ==
  ASSUME Shape, NEW p \in Poller,
         PollGivesUp(p) \/ PollRegister(p) \/ PollClearStop(p) \/ PollTest(p) \/ PollWait(p)
           \/ PollEvent(p)
  PROVE  Shape'
<1>1. /\ UNCHANGED <<pcm, canIf, handle, exited, got, len, fresh, socket, hand, rxMutex, rxQueue,
                      opened, bound, buffer, arrived>>
      /\ stop' \in BOOLEAN
      /\ pc' \in [Poller -> PollPC]
      /\ pc[p] \in {"begin", "armed", "test", "wait", "event"}
      /\ pc'[p] \in {"armed", "test", "wait", "event", "read", "done"}
      /\ \A q \in Poller : q # p => pc'[q] = pc[q]
  <2> USE DEF Shape, TypeOK, Goto, mainVars, objVars, queueVars, kernelVars, PollPC
  <2>1. CASE PollGivesUp(p)
    BY <2>1 DEF PollGivesUp
  <2>2. CASE PollRegister(p)
    BY <2>2 DEF PollRegister
  <2>3. CASE PollClearStop(p)
    BY <2>3 DEF PollClearStop
  <2>4. CASE PollTest(p)
    BY <2>4 DEF PollTest
  <2>5. CASE PollWait(p)
    BY <2>5 DEF PollWait
  <2>6. CASE PollEvent(p)
    BY <2>6 DEF PollEvent
  <2> QED BY <2>1, <2>2, <2>3, <2>4, <2>5, <2>6
<1>2. /\ reg' \in [Poller -> Sockets \cup {None}]
      /\ \A q \in Poller :
           \/ reg'[q] = reg[q]
           \/ q = p /\ pc'[p] = "armed" /\ reg'[q] \in {opened, Foreign}
  <2>1. Foreign \in Sockets
    BY BoundAssumption DEF Foreign, Sockets
  <2>2. CASE PollRegister(p)
    <3>1. pc'[p] = "armed"
      BY <1>1, <2>2 DEF PollRegister, Goto, Shape, TypeOK
    <3> QED BY <2>1, <2>2, <3>1 DEF PollRegister, SocketSeen, Shape, TypeOK, LastOpened
  <2>3. CASE ~PollRegister(p)
    <3>1. reg' = reg
      BY <2>3 DEF PollGivesUp, PollClearStop, PollTest, PollWait, PollEvent
    <3> QED BY <3>1 DEF Shape, TypeOK
  <2> QED BY <2>2, <2>3
<1>3. /\ held' \in [Poller -> Sockets \cup {None}]
      /\ \A q \in Poller :
           \/ held'[q] = held[q] /\ (q = p => pc'[q] # "read")
           \/ /\ q = p /\ reg'[p] = reg[p] /\ held'[p] # None
              /\ \/ held'[p] = opened /\ reg[p] # Foreign
                 \/ held'[p] = Foreign /\ reg[p] = Foreign
  <2>1. Foreign \in Sockets /\ Foreign # None
    BY BoundAssumption DEF Foreign, Sockets, None
  <2>2. CASE PollEvent(p)
    <3>1. socket # None => socket # Foreign
      BY BoundAssumption DEF Shape, LastOpened, TypeOK, Foreign
    <3>2. PICK d \in SocketSeen :
            IF d # None /\ (d = Foreign <=> reg[p] = Foreign)
              THEN pc' = [pc EXCEPT ![p] = "read"] /\ held' = [held EXCEPT ![p] = d]
              ELSE pc' = [pc EXCEPT ![p] = "test"] /\ UNCHANGED held
      BY <2>2 DEF PollEvent, Goto
    <3>3. d \in Sockets \cup {None} /\ (d # None => d = Foreign \/ (d = opened /\ d # Foreign))
      BY <2>1, <3>1 DEF SocketSeen, Shape, TypeOK, LastOpened
    <3>4. reg' = reg
      BY <2>2 DEF PollEvent
    <3>5. CASE d # None /\ (d = Foreign <=> reg[p] = Foreign)
      BY <3>2, <3>3, <3>4, <3>5 DEF Shape, TypeOK
    <3>6. CASE ~(d # None /\ (d = Foreign <=> reg[p] = Foreign))
      BY <3>2, <3>6 DEF Shape, TypeOK
    <3> QED BY <3>5, <3>6
  <2>3. CASE ~PollEvent(p)
    <3>1. held' = held
      BY <2>3 DEF PollGivesUp, PollRegister, PollClearStop, PollTest, PollWait
    <3>2. pc'[p] # "read"
      BY <2>3 DEF PollGivesUp, PollRegister, PollClearStop, PollTest, PollWait, Goto, Shape, TypeOK
    <3> QED BY <3>1, <3>2 DEF Shape, TypeOK
  <2> QED BY <2>2, <2>3
<1>4. Running(p) /\ \A q \in Poller : Running(q)' => Running(q)
  BY <1>1 DEF Running
<1>5. TypeOK' /\ Counted' /\ LastOpened'
  BY <1>1, <1>2, <1>3 DEF Shape, TypeOK, Counted, LastOpened
<1>6. \A q \in Poller : /\ reg'[q] <= opened' \/ reg'[q] = Foreign
                        /\ held'[q] <= opened' \/ held'[q] = Foreign
  <2>1. opened \in Nat /\ opened <= opened
    BY BoundAssumption DEF Shape, TypeOK
  <2>2. TAKE q \in Poller
  <2>3. /\ reg[q] <= opened \/ reg[q] = Foreign
        /\ held[q] <= opened \/ held[q] = Foreign
    BY DEF Shape, Threads
  <2>4. reg'[q] <= opened \/ reg'[q] = Foreign
    BY <1>2, <2>1, <2>3
  <2>5. held'[q] <= opened \/ held'[q] = Foreign
    BY <1>3, <2>1, <2>3
  <2> QED BY <1>1, <2>4, <2>5
<1>7. \A q \in Poller : pc'[q] = "read" => held'[q] # None /\ reg'[q] <= held'[q]
  <2> SUFFICES ASSUME NEW q \in Poller, pc'[q] = "read"
               PROVE  held'[q] # None /\ reg'[q] <= held'[q]
    OBVIOUS
  <2>1. CASE held'[q] = held[q] /\ q # p
    BY <1>1, <1>2, <2>1 DEF Shape, Threads
  <2>2. CASE q = p
    <3>1. reg'[p] = reg[p] /\ held'[p] # None
      BY <1>3, <2>2
    <3>2. reg[p] <= opened \/ reg[p] = Foreign
      BY DEF Shape, Threads
    <3>3. Foreign <= Foreign
      BY BoundAssumption DEF Foreign
    <3> QED BY <1>3, <2>2, <3>1, <3>2, <3>3
  <2> QED BY <1>3, <2>1, <2>2
<1>8. \A q \in Poller : pc'[q] \in {"push", "pushing"} <=> hand'[q] # None
  BY <1>1 DEF Shape, Threads
<1>9. Threads'
  BY <1>1, <1>4, <1>6, <1>7, <1>8 DEF Shape, Threads
<1> QED
  BY <1>5, <1>9 DEF Shape

LEMMA ReadShape == ASSUME Shape, NEW p \in Poller, PollRead(p) PROVE Shape'
<1>1. /\ pc[p] = "read" /\ pc' = [pc EXCEPT ![p] = "push"] /\ buffer[held[p]] # <<>>
      /\ hand' = [hand EXCEPT ![p] = Head(buffer[held[p]])]
      /\ buffer' = [buffer EXCEPT ![held[p]] = Tail(buffer[held[p]])]
      /\ held' = [held EXCEPT ![p] = None]
      /\ UNCHANGED <<reg, opened, bound, arrived, pcm, canIf, handle, exited, got, len, fresh, socket,
                     stop, rxMutex, rxQueue>>
  BY DEF PollRead, ReadFrame, Goto, mainVars, objVars, queueVars
<1>2. held[p] \in Sockets
  BY <1>1 DEF Shape, TypeOK, Threads
<1>3. Head(buffer[held[p]]) \in Frame /\ Tail(buffer[held[p]]) \in Seq(Frame)
  BY <1>1, <1>2 DEF Shape, TypeOK
<1>4. Head(buffer[held[p]]) # None
  BY <1>3, BoundAssumption DEF Frame, None
<1>5. TypeOK'
  BY <1>1, <1>2, <1>3 DEF Shape, TypeOK, PollPC
<1>6. Counted' /\ LastOpened'
  BY <1>1, <1>2 DEF Shape, TypeOK, Counted, LastOpened
<1>7. Running(p) /\ \A q \in Poller : Running(q)' => Running(q)
  BY <1>1 DEF Running, Shape, TypeOK
<1>8. \A q \in Poller : /\ reg'[q] <= opened' \/ reg'[q] = Foreign
                        /\ held'[q] <= opened' \/ held'[q] = Foreign
  BY <1>1, BoundAssumption DEF Shape, Threads, TypeOK, None
<1>9. Threads'
  BY <1>1, <1>4, <1>7, <1>8 DEF Shape, Threads, TypeOK
<1> QED
  BY <1>5, <1>6, <1>9 DEF Shape

LEMMA ReadFailsShape == ASSUME Shape, NEW p \in Poller, PollReadFails(p) PROVE Shape'
<1>1. /\ pc[p] = "read" /\ pc' = [pc EXCEPT ![p] = "test"]
      /\ held' = [held EXCEPT ![p] = None]
      /\ UNCHANGED <<reg, hand, opened, bound, arrived, pcm, canIf, handle, exited, got, len,
                     fresh, socket, stop, rxMutex, rxQueue>>
  BY DEF PollReadFails, Goto, mainVars, objVars, queueVars
<1>2. held[p] \in Sockets
  BY <1>1 DEF Shape, TypeOK, Threads
<1>3. /\ buffer' \in [Sockets -> Seq(Frame)]
      /\ \A s \in Sockets : buffer[s] = <<>> => buffer'[s] = <<>>
  <2>1. CASE UNCHANGED buffer
    BY <2>1 DEF Shape, TypeOK
  <2>2. CASE buffer[held[p]] # <<>> /\ buffer' = [buffer EXCEPT ![held[p]] = Tail(@)]
    <3>1. Tail(buffer[held[p]]) \in Seq(Frame)
      BY <1>2, <2>2 DEF Shape, TypeOK
    <3> QED BY <1>2, <2>2, <3>1 DEF Shape, TypeOK
  <2> QED BY <2>1, <2>2 DEF PollReadFails
<1>4. TypeOK'
  BY <1>1, <1>3 DEF Shape, TypeOK, PollPC
<1>5. Counted' /\ LastOpened'
  BY <1>1, <1>3 DEF Shape, TypeOK, Counted, LastOpened
<1>6. Running(p) /\ \A q \in Poller : Running(q)' => Running(q)
  BY <1>1 DEF Running, Shape, TypeOK
<1>7. \A q \in Poller : /\ reg'[q] <= opened' \/ reg'[q] = Foreign
                        /\ held'[q] <= opened' \/ held'[q] = Foreign
  BY <1>1, BoundAssumption DEF Shape, Threads, TypeOK, None
<1>8. Threads'
  BY <1>1, <1>6, <1>7 DEF Shape, Threads, TypeOK
<1> QED
  BY <1>4, <1>5, <1>8 DEF Shape

LEMMA PushShape == ASSUME Shape, NEW p \in Poller, PushLock(p) \/ PushFrame(p) PROVE Shape'
<1>1. /\ pc[p] \in {"push", "pushing"}
      /\ UNCHANGED <<reg, held, opened, bound, buffer, arrived, pcm, canIf, handle, exited, got, len,
                     fresh, socket, stop>>
  BY DEF PushLock, PushFrame, Goto, mainVars, objVars, kernelVars
<1>2. CASE PushLock(p)
  <2>1. pc' = [pc EXCEPT ![p] = "pushing"] /\ UNCHANGED <<hand, rxQueue>> /\ rxMutex' = p
    BY <1>2 DEF PushLock, Goto
  <2> QED
    BY <1>1, <2>1 DEF Shape, TypeOK, PollPC, Counted, LastOpened, Threads, Running
<1>3. CASE PushFrame(p)
  <2>1. /\ pc' = [pc EXCEPT ![p] = "test"] /\ hand' = [hand EXCEPT ![p] = None]
        /\ rxQueue' = Append(rxQueue, hand[p]) /\ rxMutex' = None
    BY <1>3 DEF PushFrame, PushBack, Goto
  <2>2. hand[p] \in Frame
    BY <1>1 DEF Shape, TypeOK, Threads
  <2>3. rxQueue' \in Seq(Frame)
    BY <2>1, <2>2 DEF Shape, TypeOK
  <2> QED
    BY <1>1, <2>1, <2>3 DEF Shape, TypeOK, PollPC, Counted, LastOpened, Threads, Running
<1> QED
  BY <1>2, <1>3

LEMMA ArriveShape == Shape /\ Arrive => Shape'
<1> SUFFICES ASSUME Shape, Arrive PROVE Shape'
  OBVIOUS
<1>1. /\ arrived < MaxFrames /\ arrived' = arrived + 1
      /\ buffer' = [s \in Sockets |->
                      IF Hears(s) /\ Len(buffer[s]) < BufferSize
                        THEN Append(buffer[s], arrived') ELSE buffer[s]]
      /\ UNCHANGED <<reg, held, hand, pc, opened, bound, pcm, canIf, handle, exited, got, len, fresh,
                     socket, stop, rxMutex, rxQueue>>
  BY DEF Arrive, mainVars, objVars, pollVars, queueVars
<1>2. arrived' \in Frame /\ arrived' \in 0..MaxFrames
  BY <1>1, BoundAssumption DEF Shape, TypeOK, Frame
<1>3. buffer' \in [Sockets -> Seq(Frame)]
  BY <1>1, <1>2 DEF Shape, TypeOK
<1>4. \A s \in Sockets : s > opened' => s \notin bound' /\ buffer'[s] = <<>>
  BY <1>1 DEF Hears, Shape, LastOpened
<1> QED
  BY <1>1, <1>2, <1>3, <1>4 DEF Shape, TypeOK, Counted, LastOpened, Threads, Running

LEMMA NextShape == Shape /\ [Next]_vars => Shape'
<1> SUFFICES ASSUME Shape, [Next]_vars PROVE Shape'
  OBVIOUS
<1>1. CASE UNCHANGED vars
  BY <1>1 DEF Shape, TypeOK, Counted, LastOpened, Threads, Running, vars, mainVars, objVars,
              pollVars, queueVars, kernelVars
<1> QED
  BY <1>1, MainShape, CloseShape, OpenShape, StartShape, PollShape, ReadShape, ReadFailsShape,
     PushShape, ArriveShape DEF Next, EnableStep, PollStep

LEMMA ShapeHolds == Spec => []Shape
BY InitShape, NextShape, PTL DEF Spec

\* Every variable has its type; only frames are queued.
THEOREM TypeCorrect == Spec => []TypeOK
<1>1. Shape => TypeOK
  BY DEF Shape
<1> QED
  BY <1>1, ShapeHolds, PTL

\* However often Enable() is called, one thread is inside Poll() at most.
THEOREM SinglePoller == Spec => []OnePoller
<1>1. Shape => OnePoller
  BY DEF Shape, Threads, OnePoller
<1> QED
  BY <1>1, ShapeHolds, PTL

-----------------------------------------------------------------------------
(* The order of frames.                                                    *)

Sorted(s) == \A i, j \in 1..Len(s) : i < j => s[i] < s[j]
Above(s, n) == \A i \in 1..Len(s) : n < s[i]
Below(s, n) == \A i \in 1..Len(s) : s[i] < n

\* A frame, or all of a sequence of them, that is newer than anything on its way from a
\* socket to Read(), and than what Read() must not return any more.
After(n) ==
  n > got /\ n > fresh /\ Below(rxQueue, n) /\ \A p \in Poller : hand[p] < n
Behind(s) == \A i \in 1..Len(s) : After(s[i])

\* What arrived is kept in the order of its arrival.
Kept ==
  /\ \A s \in Sockets : Sorted(buffer[s]) /\ Below(buffer[s], arrived + 1)
  /\ Sorted(rxQueue) /\ Below(rxQueue, arrived + 1)
  /\ \A p \in Poller : hand[p] <= arrived
  /\ got <= arrived /\ fresh <= arrived

\* The frames on their way are newer than what they must not be mixed up with.
OnTheWay ==
  /\ Above(rxQueue, got) /\ Above(rxQueue, fresh)
  /\ \A p \in Poller :
       hand[p] # None => hand[p] > got /\ hand[p] > fresh /\ Below(rxQueue, hand[p])

\* So are those a thread will come to: in the socket its read() is in, and in the one that
\* is open, unless the thread has registered another and has no event of that at hand, or
\* a descriptor that is no socket.
Reaches(p) ==
  pc[p] = "begin" \/ (pc[p] = "event" /\ reg[p] # Foreign) \/ reg[p] = socket

ToCome ==
  \A p \in Poller :
    /\ pc[p] = "read" => Behind(buffer[held[p]])
    /\ Running(p) /\ socket # None /\ Reaches(p) => Behind(buffer[socket])

\* Before a thread is started, the queue is empty and the socket it will read is new.
Restarting ==
  /\ pcm \in {"reopen", "spawn"} => rxQueue = <<>> /\ got <= fresh
  /\ pcm = "spawn" /\ socket # None => Above(buffer[socket], fresh)

Order == Kept /\ OnTheWay /\ ToCome /\ Restarting

LEMMA FrameTypes ==
  ASSUME TypeOK
  PROVE  /\ Frame \subseteq Nat /\ None \in Nat
         /\ arrived \in Nat /\ got \in Nat /\ fresh \in Nat
         /\ \A p \in Poller : hand[p] \in Nat
         /\ rxQueue \in Seq(Nat) /\ \A s \in Sockets : buffer[s] \in Seq(Nat)
<1>1. Frame \subseteq Nat /\ None \in Nat
  BY BoundAssumption DEF Frame, None
<1>2. arrived \in Nat /\ got \in Nat /\ fresh \in Nat
  BY BoundAssumption DEF TypeOK
<1>3. \A s \in Seq(Frame) : s \in Seq(Nat)
  <2> SUFFICES ASSUME NEW s \in Seq(Frame) PROVE s \in Seq(Nat)
    OBVIOUS
  <2>1. \A i \in 1..Len(s) : s[i] \in Frame
    OBVIOUS
  <2>2. \A i \in 1..Len(s) : s[i] \in Nat
    BY <1>1, <2>1
  <2>3. Len(s) \in Nat /\ s = [i \in 1..Len(s) |-> s[i]]
    OBVIOUS
  <2> QED BY <2>2, <2>3
<1> QED
  BY <1>1, <1>2, <1>3 DEF TypeOK

\* The first of a sorted sequence is older than the others.
LEMMA Popped ==
  ASSUME NEW s \in Seq(Nat), s # <<>>, Sorted(s)
  PROVE  /\ 1 \in 1..Len(s) /\ Head(s) = s[1]
         /\ \A i \in 1..Len(Tail(s)) : i + 1 \in 1..Len(s) /\ Tail(s)[i] = s[i + 1]
         /\ Tail(s) \in Seq(Nat) /\ Sorted(Tail(s)) /\ Above(Tail(s), Head(s))
<1>1. 1 \in 1..Len(s) /\ Head(s) = s[1]
  OBVIOUS
<1>2. Len(Tail(s)) = Len(s) - 1 /\ \A i \in 1..Len(Tail(s)) : Tail(s)[i] = s[i + 1]
  OBVIOUS
<1>3. \A i \in 1..Len(Tail(s)) : i + 1 \in 1..Len(s) /\ i \in Nat
  <2>1. Len(s) \in Nat
    OBVIOUS
  <2> QED BY <1>2, <2>1
<1> QED
  BY <1>1, <1>2, <1>3 DEF Sorted, Above

\* What is newer than a sorted sequence keeps it sorted.
LEMMA Appended ==
  ASSUME NEW s \in Seq(Nat), NEW n \in Nat, Sorted(s), Below(s, n)
  PROVE  /\ Append(s, n) \in Seq(Nat) /\ Sorted(Append(s, n))
         /\ \A i \in 1..Len(Append(s, n)) :
              \/ Append(s, n)[i] = n
              \/ i \in 1..Len(s) /\ Append(s, n)[i] = s[i]
<1>1. /\ Append(s, n) \in Seq(Nat) /\ Len(Append(s, n)) = Len(s) + 1
      /\ Append(s, n)[Len(s) + 1] = n /\ \A i \in 1..Len(s) : Append(s, n)[i] = s[i]
  OBVIOUS
<1>2. \A i \in 1..Len(Append(s, n)) : i \in 1..Len(s) \/ i = Len(s) + 1
  BY <1>1
<1>3. Sorted(Append(s, n))
  <2> SUFFICES ASSUME NEW i \in 1..Len(Append(s, n)), NEW j \in 1..Len(Append(s, n)), i < j
               PROVE  Append(s, n)[i] < Append(s, n)[j]
    BY DEF Sorted
  <2>1. i \in 1..Len(s)
    BY <1>1
  <2>2. CASE j = Len(s) + 1
    BY <1>1, <2>1, <2>2 DEF Below
  <2>3. CASE j \in 1..Len(s)
    BY <1>1, <2>1, <2>3 DEF Sorted
  <2> QED BY <1>2, <2>2, <2>3
<1> QED
  BY <1>1, <1>2, <1>3

LEMMA InitOrder == Init => Order
<1> SUFFICES ASSUME Init PROVE Order
  OBVIOUS
<1>1. Len(<<>>) = 0
  OBVIOUS
<1>2. Sorted(<<>>) /\ \A n \in Nat : Below(<<>>, n) /\ Above(<<>>, n)
  BY <1>1 DEF Sorted, Below, Above
<1>3. \A s \in Sockets : buffer[s] = <<>>
  BY DEF Init
<1> QED
  BY <1>2, <1>3 DEF Init, Order, Kept, OnTheWay, ToCome, Reaches, Restarting, Running, None

\* Steps in which no frame moves.
LEMMA StillOrder ==
  ASSUME Shape, Order,
         InitCan \/ EnableClose \/ EnableOpen \/ PollingClose \/ PollingJoin \/ PollingStart
           \/ CloseCan \/ Exit
  PROVE  Order'
<1>1. UNCHANGED <<rxQueue, got, fresh, hand, buffer, arrived, reg, held>>
  BY DEF InitCan, EnableClose, EnableOpen, PollingClose, PollingJoin, PollingStart, CloseCan, Exit,
         queueVars, pollVars, kernelVars
<1>2. Kept' /\ OnTheWay'
  BY <1>1 DEF Order, Kept, OnTheWay, Sorted, Above, Below
<1>3. CASE InitCan \/ PollingJoin \/ Exit
  <2>1. /\ UNCHANGED <<pc, socket>> /\ pcm' \notin {"reopen", "spawn"}
    BY <1>3 DEF InitCan, PollingJoin, Join, Exit, At, pollVars, objVars
  <2> QED
    BY <1>1, <1>2, <2>1 DEF Order, ToCome, Reaches, Restarting, Behind, After, Below, Running
<1>4. CASE EnableClose \/ PollingClose \/ CloseCan
  <2>1. UNCHANGED pc /\ socket' = None /\ pcm' \notin {"reopen", "spawn"}
    BY <1>4 DEF EnableClose, PollingClose, CloseCan, CloseSocket, At, pollVars, objVars
  <2> QED
    BY <1>1, <1>2, <2>1 DEF Order, ToCome, Reaches, Restarting, Behind, After, Below, Running
<1>5. CASE EnableOpen
  <2>1. /\ UNCHANGED pc
        /\ \/ pcm = "open" /\ pcm' = "close"
           \/ pcm = "reopen" /\ pcm' = "spawn"
    BY <1>5 DEF EnableOpen, At, pollVars
  <2>2. \/ UNCHANGED socket
        \/ socket' \in Sockets /\ buffer[socket'] = <<>>
    <3>1. opened' = opened + 1 => opened' > opened
      BY BoundAssumption DEF Shape, TypeOK, Sockets
    <3>2. socket' \in Sockets \cup {None}
      BY <1>5, OpenShape DEF Shape, TypeOK
    <3> QED
      BY <1>5, <3>1, <3>2, BoundAssumption DEF EnableOpen, OpenSocket, Shape, TypeOK, LastOpened, None
  <2>3. pcm = "reopen" => socket = None
    BY DEF Shape, LastOpened
  <2>4. ToCome'
    BY <1>1, <2>1, <2>2 DEF Order, ToCome, Reaches, Behind, After, Below, Running
  <2>5. Restarting'
    BY <1>1, <2>1, <2>2, <2>3 DEF Order, Restarting, Above
  <2> QED
    BY <1>2, <2>4, <2>5 DEF Order
<1>6. CASE PollingStart
  <2>1. /\ pcm = "spawn" /\ pcm' = "idle" /\ handle' = handle + 1
        /\ pc' = [pc EXCEPT ![handle'] = "begin"] /\ UNCHANGED socket
    BY <1>6 DEF PollingStart, At, objVars
  <2>2. \A p \in Poller : ~Running(p) /\ hand[p] = None
    BY <2>1 DEF Shape, Threads, Running
  <2>3. socket # None => Behind(buffer[socket])
    <3> SUFFICES ASSUME socket # None, NEW i \in 1..Len(buffer[socket])
                 PROVE  After(buffer[socket][i])
      BY DEF Behind
    <3>1. /\ rxQueue = <<>> /\ got <= fresh /\ buffer[socket][i] > fresh
          /\ buffer[socket] \in Seq(Nat) /\ got \in Nat /\ fresh \in Nat
      BY <2>1, FrameTypes DEF Order, Restarting, Above, Shape, TypeOK
    <3>2. buffer[socket][i] \in Nat
      BY <3>1
    <3> QED
      BY <2>2, <3>1, <3>2 DEF After, Below, None
  <2>4. ToCome'
    BY <1>1, <2>1, <2>2, <2>3 DEF ToCome, Reaches, Behind, After, Below, Running, Shape, TypeOK
  <2>5. Restarting'
    BY <2>1 DEF Restarting
  <2> QED
    BY <1>2, <2>4, <2>5 DEF Order
<1> QED
  BY <1>3, <1>4, <1>5, <1>6

\* The steps of a thread in which it only looks.
LEMMA LookOrder ==
  ASSUME Shape, Order, NEW p \in Poller,
         PollGivesUp(p) \/ PollRegister(p) \/ PollClearStop(p) \/ PollTest(p) \/ PollWait(p)
           \/ PollEvent(p) \/ PushLock(p) \/ (PollReadFails(p) /\ UNCHANGED buffer)
  PROVE  Order'
<1>1. UNCHANGED <<pcm, rxQueue, got, fresh, hand, buffer, arrived, socket>>
  BY DEF PollGivesUp, PollRegister, PollClearStop, PollTest, PollWait, PollEvent, PushLock, PollReadFails,
         mainVars, objVars, queueVars, kernelVars
<1>2. Kept' /\ OnTheWay' /\ Restarting'
  BY <1>1 DEF Order, Kept, OnTheWay, Restarting, Sorted, Above, Below
<1>3. /\ Running(p) /\ \A q \in Poller : q # p => pc'[q] = pc[q]
      /\ \A q \in Poller : q # p => reg'[q] = reg[q] /\ held'[q] = held[q]
  BY DEF PollGivesUp, PollRegister, PollClearStop, PollTest, PollWait, PollEvent, PushLock,
         PollReadFails, Goto,
         Running, Shape, TypeOK
<1>4. /\ pc'[p] # "begin" /\ (pc'[p] = "event" => reg'[p] \in {socket, Foreign})
      /\ reg'[p] = reg[p] \/ pc[p] = "begin"
  <2>1. CASE PollWait(p)
    BY <2>1 DEF PollWait, Ready, Goto, Shape, TypeOK
  <2>2. CASE PollGivesUp(p) \/ PollRegister(p)
    BY <2>2 DEF PollGivesUp, PollRegister, Goto, Shape, TypeOK
  <2>3. CASE PollClearStop(p) \/ PollTest(p) \/ PollEvent(p) \/ PushLock(p) \/ PollReadFails(p)
    BY <2>3 DEF PollClearStop, PollTest, PollEvent, PushLock, PollReadFails, Goto, Shape, TypeOK
  <2> QED BY <2>1, <2>2, <2>3
<1>5. pc'[p] = "read" => \/ /\ pc[p] = "event" /\ reg[p] # Foreign
                            /\ held'[p] = socket /\ socket # None
                         \/ held'[p] = Foreign
  BY DEF PollGivesUp, PollRegister, PollClearStop, PollTest, PollWait, PollEvent, PushLock,
         PollReadFails, Goto,
         SocketSeen, Shape, TypeOK
<1>6. \A s : Behind(s) => Behind(s)'
  BY <1>1 DEF Behind, After, Below
<1>7. ASSUME NEW q \in Poller
      PROVE  /\ pc'[q] = "read" => Behind(buffer[held'[q]])
             /\ Running(q)' /\ socket # None /\ Reaches(q)' => Behind(buffer[socket])
  <2>1. CASE q = p
    <3>1. Behind(buffer[Foreign])
      <4>1. Foreign \in Sockets /\ Foreign > opened
        BY BoundAssumption DEF Foreign, Sockets, Shape, TypeOK
      <4> QED BY <4>1 DEF Shape, LastOpened, Behind
    <3> QED BY <1>1, <1>3, <1>4, <1>5, <2>1, <3>1 DEF Order, ToCome, Reaches, Running
  <2>2. CASE q # p
    BY <1>1, <1>3, <2>2 DEF Order, ToCome, Reaches, Running
  <2> QED BY <2>1, <2>2
<1>8. ToCome'
  BY <1>1, <1>6, <1>7 DEF ToCome, Behind, After, Below
<1> QED
  BY <1>2, <1>8 DEF Order

\* Enable() empties the queue while no thread holds a frame.
LEMMA ResetOrder == ASSUME Shape, Order, ResetQueue PROVE Order'
<1>1. /\ pcm = "reset" /\ pcm' = "reopen" /\ rxQueue' = <<>> /\ fresh' = arrived
      /\ UNCHANGED <<got, hand, buffer, arrived, socket, pc, held, reg>>
  BY DEF ResetQueue, At, objVars, pollVars, kernelVars
<1>2. \A p \in Poller : ~Running(p) /\ hand[p] = None
  BY <1>1 DEF Shape, Threads, Running
<1>3. Len(rxQueue') = 0
  BY <1>1
<1>4. arrived \in Nat
  BY FrameTypes DEF Shape
<1>5. Kept'
  BY <1>1, <1>3, <1>4 DEF Order, Kept, Sorted, Below
<1>6. OnTheWay'
  BY <1>1, <1>2, <1>3 DEF OnTheWay, Above
<1>7. ToCome'
  BY <1>1, <1>2 DEF ToCome, Running
<1>8. Restarting'
  BY <1>1 DEF Order, Kept, Restarting
<1> QED
  BY <1>5, <1>6, <1>7, <1>8 DEF Order

\* What Read() returns is newer than what it returned before and than the last reset.
LEMMA ReadNewer ==
  ASSUME Shape, Order, Read, Pops
  PROVE  /\ rxQueue' = Tail(rxQueue) /\ 1 \in 1..Len(rxQueue) /\ rxQueue # <<>>
         /\ rxQueue[1] \in Nat /\ rxQueue[1] > got /\ rxQueue[1] > fresh
         /\ got' = rxQueue[1] \/ got' = got
<1>1. /\ rxQueue' = Tail(rxQueue) /\ rxQueue # <<>>
      /\ got' = Head(rxQueue) \/ got' = got
  BY DEF Read, PopFrame, Pops
<1>2. rxQueue \in Seq(Nat)
  BY FrameTypes DEF Shape
<1>3. 1 \in 1..Len(rxQueue) /\ Head(rxQueue) = rxQueue[1] /\ rxQueue[1] \in Nat
  BY <1>1, <1>2
<1> QED
  BY <1>1, <1>3, FrameTypes DEF Order, OnTheWay, Above, Shape

LEMMA PopOrder == ASSUME Shape, Order, Read PROVE Order'
<1>1. UNCHANGED <<pcm, fresh, hand, buffer, arrived, socket, pc, held, reg>>
  BY DEF Read, objVars, pollVars, kernelVars
<1>2. CASE ~Pops
  <2>1. UNCHANGED <<rxQueue, got>>
    BY <1>2 DEF Read, PopFrame
  <2> QED
    BY <1>1, <2>1 DEF Order, Kept, OnTheWay, ToCome, Reaches, Restarting, Sorted, Above, Below, Behind,
                      After, Running
<1>3. CASE Pops
  <2>1. /\ rxQueue' = Tail(rxQueue) /\ 1 \in 1..Len(rxQueue) /\ rxQueue # <<>>
        /\ rxQueue[1] \in Nat /\ rxQueue[1] > got /\ rxQueue[1] > fresh
        /\ got' = rxQueue[1] \/ got' = got
    BY <1>3, ReadNewer
  <2>2. /\ rxQueue \in Seq(Nat) /\ Sorted(rxQueue) /\ Frame \subseteq Nat
        /\ arrived \in Nat /\ got \in Nat /\ \A p \in Poller : hand[p] \in Nat
    BY FrameTypes DEF Shape, Order, Kept
  <2>3. /\ \A i \in 1..Len(rxQueue') : i + 1 \in 1..Len(rxQueue) /\ rxQueue'[i] = rxQueue[i + 1]
        /\ Sorted(rxQueue') /\ Above(rxQueue', rxQueue[1])
    <3>1. /\ \A i \in 1..Len(Tail(rxQueue)) :
               i + 1 \in 1..Len(rxQueue) /\ Tail(rxQueue)[i] = rxQueue[i + 1]
          /\ Head(rxQueue) = rxQueue[1]
          /\ Sorted(Tail(rxQueue)) /\ Above(Tail(rxQueue), Head(rxQueue))
      BY <2>1, <2>2, Popped
    <3> QED BY <2>1, <3>1
  <2>4. \A n : Below(rxQueue, n) => Below(rxQueue', n)
    BY <2>3 DEF Below
  <2>5. \A n : Above(rxQueue, n) => Above(rxQueue', n)
    BY <2>3 DEF Above
  <2>6. rxQueue[1] <= arrived
    <3>1. rxQueue[1] < arrived + 1 /\ rxQueue[1] \in Nat
      BY <2>1, <2>2 DEF Order, Kept, Below
    <3> QED BY <2>2, <3>1
  <2>7. Kept'
    BY <1>1, <2>1, <2>3, <2>4, <2>6 DEF Order, Kept, Sorted, Below
  <2>8. OnTheWay'
    BY <1>1, <2>1, <2>3, <2>4, <2>5 DEF Order, OnTheWay, Above, Below
  <2>9. \A s : Behind(s) => Behind(s)'
    BY <1>1, <2>1, <2>4 DEF Behind, After, Below
  <2>10. ToCome'
    BY <1>1, <2>9 DEF Order, ToCome, Reaches, Running, Behind, After, Below
  <2>11. Restarting'
    BY <1>1, <2>1 DEF Order, Restarting, Above
  <2> QED
    BY <2>7, <2>8, <2>10, <2>11 DEF Order
<1> QED
  BY <1>2, <1>3

LEMMA PollReadOrder == ASSUME Shape, Order, NEW p \in Poller, PollRead(p) PROVE Order'
<1> DEFINE h == held[p]
<1>1. /\ pc[p] = "read" /\ pc' = [pc EXCEPT ![p] = "push"] /\ buffer[h] # <<>>
      /\ hand' = [hand EXCEPT ![p] = Head(buffer[h])]
      /\ buffer' = [buffer EXCEPT ![h] = Tail(buffer[h])]
      /\ UNCHANGED <<reg, arrived, pcm, got, fresh, socket, rxQueue>>
      /\ \A q \in Poller : q # p => held'[q] = held[q]
  BY DEF PollRead, ReadFrame, Goto, mainVars, objVars, queueVars, Shape, TypeOK
<1>2. /\ h \in Sockets /\ reg[p] <= h /\ h <= opened /\ reg[p] \in Nat
      /\ (socket # None => socket = opened) /\ opened \in Nat
  BY <1>1, BoundAssumption DEF Shape, TypeOK, Threads, LastOpened, Sockets, None
<1>3. /\ buffer[h] \in Seq(Nat) /\ Sorted(buffer[h]) /\ Below(buffer[h], arrived + 1)
      /\ arrived \in Nat
  BY <1>2, FrameTypes DEF Shape, Order, Kept
<1>4. /\ 1 \in 1..Len(buffer[h]) /\ Head(buffer[h]) = buffer[h][1]
      /\ \A i \in 1..Len(Tail(buffer[h])) :
           i + 1 \in 1..Len(buffer[h]) /\ Tail(buffer[h])[i] = buffer[h][i + 1]
      /\ Tail(buffer[h]) \in Seq(Nat) /\ Sorted(Tail(buffer[h]))
      /\ Above(Tail(buffer[h]), Head(buffer[h]))
  <2> HIDE DEF h
  <2> QED BY <1>1, <1>3, Popped
<1>5. Behind(buffer[h]) /\ After(Head(buffer[h])) /\ Head(buffer[h]) <= arrived
      /\ Head(buffer[h]) \in Nat
  <2>1. Behind(buffer[h])
    BY <1>1 DEF Order, ToCome, Reaches
  <2>2. buffer[h][1] \in Nat /\ buffer[h][1] < arrived + 1
    BY <1>3, <1>4 DEF Below
  <2> QED BY <1>3, <1>4, <2>1, <2>2 DEF Behind
<1>6. \A q \in Poller : q # p => ~Running(q) /\ ~Running(q)'
  <2>1. Running(p)
    BY <1>1 DEF Running
  <2> QED BY <1>1, <2>1 DEF Shape, Threads, Running
<1>7. /\ \A q \in Poller : q # p => hand'[q] = hand[q]
      /\ hand'[p] = Head(buffer[h])
      /\ \A s \in Sockets : s # h => buffer'[s] = buffer[s]
      /\ buffer'[h] = Tail(buffer[h])
  BY <1>1, <1>2 DEF Shape, TypeOK
<1>8. Kept'
  <2>1. Below(buffer'[h], arrived + 1)
    BY <1>3, <1>4, <1>7 DEF Below
  <2>2. \A s \in Sockets : Sorted(buffer'[s]) /\ Below(buffer'[s], arrived + 1)
    <3> HIDE DEF h
    <3> QED BY <1>4, <1>7, <2>1 DEF Order, Kept
  <2> QED BY <1>1, <1>5, <1>7, <2>2 DEF Order, Kept, Sorted, Below
<1>9. OnTheWay'
  BY <1>1, <1>5, <1>7 DEF Order, OnTheWay, After, Above, Below
<1>10. ToCome'
  <2>1. pc'[p] = "push" /\ \A q \in Poller : q # p => pc'[q] # "read"
    BY <1>1, <1>6 DEF Shape, TypeOK, Running
  <2>2. CASE socket # None /\ reg[p] = socket
    <3>1. h = socket
      <4>1. socket = opened /\ reg[p] = opened /\ h \in Nat
        BY <1>2, <2>2, BoundAssumption DEF Sockets
      <4> QED BY <1>2, <4>1
    <3>2. ASSUME NEW i \in 1..Len(buffer'[socket])
          PROVE  /\ buffer'[socket][i] > got' /\ buffer'[socket][i] > fresh'
                 /\ Below(rxQueue', buffer'[socket][i])
                 /\ \A q \in Poller : hand'[q] < buffer'[socket][i]
      <4>1. /\ i + 1 \in 1..Len(buffer[h]) /\ buffer'[socket][i] = buffer[h][i + 1]
            /\ buffer'[socket][i] > hand'[p]
        BY <1>4, <1>7, <3>1 DEF Above
      <4>2. After(buffer'[socket][i])
        BY <1>5, <4>1 DEF Behind
      <4>3. \A q \in Poller : hand'[q] < buffer'[socket][i]
        BY <1>7, <4>1, <4>2 DEF After
      <4> QED
        BY <1>1, <4>2, <4>3 DEF After, Below
    <3>3. Behind(buffer[socket])'
      BY <1>1, <3>2 DEF Behind, After, Below
    <3> QED BY <1>1, <1>6, <2>1, <3>3 DEF ToCome, Reaches
  <2>3. CASE ~(socket # None /\ reg[p] = socket)
    BY <1>1, <1>6, <2>1, <2>3 DEF ToCome, Reaches
  <2> QED BY <2>2, <2>3
<1>11. Restarting'
  <2>1. pcm # "spawn"
    BY <1>1 DEF Shape, Threads, Running
  <2> QED BY <1>1, <2>1 DEF Order, Restarting
<1> QED
  BY <1>8, <1>9, <1>10, <1>11 DEF Order

\* A frame that is cut short is gone, and the others are still in order.
LEMMA CutOrder ==
  ASSUME Shape, Order, NEW p \in Poller, PollReadFails(p), buffer' # buffer
  PROVE  Order'
<1> DEFINE h == held[p]
<1>1. /\ pc[p] = "read" /\ pc' = [pc EXCEPT ![p] = "test"] /\ buffer[h] # <<>>
      /\ buffer' = [buffer EXCEPT ![h] = Tail(buffer[h])]
      /\ UNCHANGED <<reg, hand, arrived, pcm, got, fresh, socket, rxQueue>>
      /\ \A q \in Poller : q # p => held'[q] = held[q]
  BY DEF PollReadFails, Goto, mainVars, objVars, queueVars, Shape, TypeOK
<1>2. h \in Sockets
  BY <1>1 DEF Shape, TypeOK, Threads
<1>3. buffer[h] \in Seq(Nat) /\ Sorted(buffer[h]) /\ Below(buffer[h], arrived + 1)
  BY <1>2, FrameTypes DEF Shape, Order, Kept
<1>4. /\ \A i \in 1..Len(Tail(buffer[h])) :
           i + 1 \in 1..Len(buffer[h]) /\ Tail(buffer[h])[i] = buffer[h][i + 1]
      /\ Sorted(Tail(buffer[h]))
  <2> HIDE DEF h
  <2> QED BY <1>1, <1>3, Popped
<1>5. /\ \A s \in Sockets : s # h => buffer'[s] = buffer[s]
      /\ buffer'[h] = Tail(buffer[h])
  BY <1>1, <1>2 DEF Shape, TypeOK
<1>6. Kept'
  <2>1. Below(buffer'[h], arrived + 1)
    BY <1>3, <1>4, <1>5 DEF Below
  <2>2. \A s \in Sockets : Sorted(buffer'[s]) /\ Below(buffer'[s], arrived + 1)
    <3> HIDE DEF h
    <3> QED BY <1>4, <1>5, <2>1 DEF Order, Kept
  <2> QED BY <1>1, <2>2 DEF Order, Kept, Sorted, Below
<1>7. OnTheWay'
  BY <1>1 DEF Order, OnTheWay, Above, Below
<1>8. \A s \in Sockets : Behind(buffer[s]) => Behind(buffer[s])'
  <2> SUFFICES ASSUME NEW s \in Sockets, Behind(buffer[s]), NEW i \in 1..Len(buffer'[s])
               PROVE  After(buffer'[s][i])
    BY <1>1 DEF Behind, After, Below
  <2>1. CASE s # h
    BY <1>5, <2>1 DEF Behind
  <2>2. CASE s = h
    BY <1>4, <1>5, <2>2 DEF Behind
  <2> QED BY <2>1, <2>2
<1>9. ToCome'
  <2>1. Running(p) /\ \A q \in Poller : q # p => ~Running(q) /\ ~Running(q)'
    BY <1>1 DEF Shape, Threads, Running
  <2>2. pc'[p] = "test" /\ \A q \in Poller : pc'[q] # "read"
    BY <1>1, <2>1 DEF Shape, TypeOK, Running
  <2>3. ASSUME socket # None, reg[p] = socket PROVE Behind(buffer[socket])'
    <3>1. socket \in Sockets /\ Behind(buffer[socket])
      BY <2>1, <2>3 DEF Order, ToCome, Reaches, Shape, TypeOK
    <3>2. \A s \in Sockets : s = socket' /\ Behind(buffer[s]) => Behind(buffer[s])'
      BY <1>8
    <3> QED BY <1>1, <1>8, <3>1 DEF Behind
  <2> QED BY <1>1, <2>1, <2>2, <2>3 DEF ToCome, Reaches
<1>10. Restarting'
  <2>1. pcm \notin {"reopen", "spawn"}
    BY <1>1 DEF Shape, Threads, Running
  <2> QED BY <1>1, <2>1 DEF Restarting
<1> QED
  BY <1>6, <1>7, <1>9, <1>10 DEF Order

LEMMA PushOrder == ASSUME Shape, Order, NEW p \in Poller, PushFrame(p) PROVE Order'
<1> DEFINE f == hand[p]
<1>1. /\ pc[p] = "pushing" /\ pc' = [pc EXCEPT ![p] = "test"]
      /\ rxQueue' = Append(rxQueue, f) /\ hand' = [hand EXCEPT ![p] = None]
      /\ UNCHANGED <<reg, held, buffer, arrived, pcm, got, fresh, socket>>
  BY DEF PushFrame, PushBack, Goto, mainVars, objVars, kernelVars
<1>2. /\ f # None /\ f \in Nat /\ rxQueue \in Seq(Nat) /\ arrived \in Nat /\ got \in Nat
      /\ fresh \in Nat /\ f <= arrived
  BY <1>1, FrameTypes DEF Shape, Threads, Order, Kept
<1>3. /\ f > got /\ f > fresh /\ Below(rxQueue, f) /\ Sorted(rxQueue)
      /\ Below(rxQueue, arrived + 1) /\ Above(rxQueue, got) /\ Above(rxQueue, fresh)
  BY <1>2 DEF Order, OnTheWay, Kept
<1>4. /\ Sorted(Append(rxQueue, f))
      /\ \A i \in 1..Len(Append(rxQueue, f)) :
           \/ Append(rxQueue, f)[i] = f
           \/ i \in 1..Len(rxQueue) /\ Append(rxQueue, f)[i] = rxQueue[i]
  <2> HIDE DEF f
  <2> QED BY <1>2, <1>3, Appended
<1>5. /\ \A n : Below(rxQueue, n) /\ f < n => Below(rxQueue', n)
      /\ \A n : Above(rxQueue, n) /\ n < f => Above(rxQueue', n)
  BY <1>1, <1>4 DEF Below, Above
<1>6. \A q \in Poller : hand'[q] = None
  <2>1. Running(p)
    BY <1>1 DEF Running
  <2> QED BY <1>1, <2>1 DEF Shape, TypeOK, Threads, Running
<1>7. Kept'
  <2>1. Below(rxQueue', arrived + 1) /\ Sorted(rxQueue')
    BY <1>1, <1>2, <1>3, <1>4, <1>5
  <2> QED BY <1>1, <1>2, <1>6, <2>1 DEF Order, Kept, Sorted, Below, None
<1>8. OnTheWay'
  <2>1. Above(rxQueue', got) /\ Above(rxQueue', fresh)
    BY <1>2, <1>3, <1>5
  <2> QED BY <1>1, <1>6, <2>1 DEF OnTheWay, Above
<1>9. ToCome'
  <2>1. ASSUME NEW n \in Nat, After(n) PROVE n > got /\ n > fresh /\ Below(rxQueue', n) /\ n > None
    <3>1. f < n /\ n > got /\ n > fresh /\ Below(rxQueue, n)
      BY <2>1 DEF After
    <3>2. \A q \in Poller : hand[q] \in Nat /\ hand[q] < n
      BY <2>1, FrameTypes DEF After, Shape
    <3>3. n > None
      <4>1. hand[p] < n /\ hand[p] \in Nat
        BY <3>2
      <4>2. 0 < n
        BY <3>2, <4>1
      <4> QED BY <4>2 DEF None
    <3> QED BY <1>5, <3>1, <3>3
  <2>2. ASSUME NEW s \in Seq(Nat), Behind(s) PROVE Behind(s)'
    <3>1. \A i \in 1..Len(s) : s[i] \in Nat /\ After(s[i])
      BY <2>2 DEF Behind
    <3> QED BY <1>1, <1>6, <2>1, <3>1 DEF Behind, After, Below
  <2>3. \A q \in Poller : /\ pc'[q] = "read" => pc[q] = "read"
                          /\ Running(q)' => Running(q)
                          /\ Reaches(q)' => Reaches(q)
    BY <1>1 DEF Shape, TypeOK, Running, Reaches
  <2>4. /\ socket # None => buffer[socket] \in Seq(Nat)
        /\ \A q \in Poller : pc[q] = "read" => buffer[held[q]] \in Seq(Nat)
    BY FrameTypes DEF Shape, TypeOK, Threads
  <2> QED
    BY <1>1, <2>2, <2>3, <2>4 DEF Order, ToCome, Reaches, Behind, After, Below, Running
<1>10. Restarting'
  <2>1. pcm \notin {"reopen", "spawn"}
    BY <1>1 DEF Shape, Threads, Running
  <2> QED BY <1>1, <2>1 DEF Restarting
<1> QED
  BY <1>7, <1>8, <1>9, <1>10 DEF Order

\* A new frame is newer than everything.
LEMMA ArriveOrder == ASSUME Shape, Order, Arrive PROVE Order'
<1> DEFINE a == arrived + 1
<1>1. /\ arrived' = a
      /\ UNCHANGED <<pcm, rxQueue, got, fresh, hand, socket, pc, held, reg>>
      /\ \A s \in Sockets : buffer'[s] = buffer[s] \/ buffer'[s] = Append(buffer[s], a)
  BY DEF Arrive, mainVars, objVars, pollVars, queueVars, Shape, TypeOK
<1>2. /\ arrived \in Nat /\ got \in Nat /\ fresh \in Nat /\ \A p \in Poller : hand[p] \in Nat
      /\ rxQueue \in Seq(Nat) /\ \A s \in Sockets : buffer[s] \in Seq(Nat)
  BY FrameTypes DEF Shape
<1>3. \A s \in Seq(Nat) : Below(s, a) => Below(s, a + 1)
  <2> SUFFICES ASSUME NEW s \in Seq(Nat), Below(s, a), NEW i \in 1..Len(s) PROVE s[i] < a + 1
    BY DEF Below
  <2>1. s[i] \in Nat /\ s[i] < a
    BY DEF Below
  <2> QED BY <1>2, <2>1
<1>4. After(a)
  BY <1>2 DEF Order, Kept, After
<1>5. ASSUME NEW s \in Sockets, buffer'[s] = Append(buffer[s], a)
      PROVE  /\ Sorted(buffer'[s]) /\ buffer'[s] \in Seq(Nat)
             /\ \A i \in 1..Len(buffer'[s]) :
                  \/ buffer'[s][i] = a
                  \/ i \in 1..Len(buffer[s]) /\ buffer'[s][i] = buffer[s][i]
  <2>1. buffer[s] \in Seq(Nat) /\ a \in Nat /\ Sorted(buffer[s]) /\ Below(buffer[s], a)
    BY <1>2 DEF Order, Kept
  <2> HIDE DEF a
  <2>2. /\ Append(buffer[s], a) \in Seq(Nat) /\ Sorted(Append(buffer[s], a))
        /\ \A i \in 1..Len(Append(buffer[s], a)) :
              \/ Append(buffer[s], a)[i] = a
              \/ i \in 1..Len(buffer[s]) /\ Append(buffer[s], a)[i] = buffer[s][i]
    BY <2>1, Appended
  <2> QED BY <1>5, <2>2
<1>6. Kept'
  <2>1. ASSUME NEW s \in Sockets PROVE Sorted(buffer'[s]) /\ Below(buffer'[s], a + 1)
    <3>1. CASE buffer'[s] = buffer[s]
      BY <1>2, <1>3, <3>1 DEF Order, Kept
    <3>2. CASE buffer'[s] = Append(buffer[s], a)
      <4>1. Below(buffer[s], a) /\ buffer[s] \in Seq(Nat)
        BY <1>2 DEF Order, Kept
      <4>2. Below(buffer[s], a + 1)
        BY <1>3, <4>1
      <4>3. a < a + 1
        BY <1>2
      <4>4. \A i \in 1..Len(buffer'[s]) : buffer'[s][i] < a + 1
        BY <1>5, <3>2, <4>2, <4>3 DEF Below
      <4> QED BY <1>5, <3>2, <4>4 DEF Below
    <3> QED BY <1>1, <3>1, <3>2
  <2>2. Below(rxQueue, a + 1)
    BY <1>2, <1>3 DEF Order, Kept
  <2> QED
    BY <1>1, <1>2, <2>1, <2>2 DEF Order, Kept, Sorted, Below
<1>7. OnTheWay'
  BY <1>1 DEF Order, OnTheWay, Above, Below
<1>8. \A s \in Sockets : Behind(buffer[s]) => Behind(buffer[s])'
  <2> SUFFICES ASSUME NEW s \in Sockets, Behind(buffer[s]), NEW i \in 1..Len(buffer'[s])
               PROVE  After(buffer'[s][i])
    BY <1>1 DEF Behind, After, Below
  <2>1. CASE buffer'[s] = buffer[s]
    BY <2>1 DEF Behind
  <2>2. CASE buffer'[s] = Append(buffer[s], a)
    BY <1>4, <1>5, <2>2 DEF Behind
  <2> QED BY <1>1, <2>1, <2>2
<1>9. ToCome'
  <2>1. \A p \in Poller : pc[p] = "read" => held[p] \in Sockets
    BY DEF Shape, Threads, TypeOK
  <2>2. socket # None => socket \in Sockets
    BY DEF Shape, TypeOK
  <2>3. \A p \in Poller : Running(p)' = Running(p)
    BY <1>1 DEF Running
  <2>4. \A p \in Poller : pc[p] = "read" => Behind(buffer[held[p]])'
    <3> SUFFICES ASSUME NEW p \in Poller, pc[p] = "read" PROVE Behind(buffer[held[p]])'
      OBVIOUS
    <3>1. held[p] \in Sockets /\ Behind(buffer[held[p]])
      BY <2>1 DEF Order, ToCome, Reaches
    <3>2. \A s \in Sockets : s = held'[p] /\ Behind(buffer[s]) => Behind(buffer[s])'
      BY <1>8
    <3> QED BY <1>1, <1>8, <3>1 DEF Behind
  <2>5. ASSUME NEW p \in Poller, Running(p), socket # None,
               Reaches(p)
        PROVE  Behind(buffer[socket])'
    <3>1. Behind(buffer[socket])
      BY <2>5 DEF Order, ToCome, Reaches
    <3> QED BY <1>1, <1>8, <2>2, <2>5, <3>1 DEF Behind
  <2> QED
    BY <1>1, <2>3, <2>4, <2>5 DEF ToCome, Reaches, Running
<1>10. Restarting'
  <2>1. ASSUME NEW s \in Sockets, Above(buffer[s], fresh) PROVE Above(buffer'[s], fresh)
    <3>1. fresh < a
      BY <1>2 DEF Order, Kept
    <3> QED BY <1>1, <1>5, <2>1, <3>1 DEF Above
  <2>2. socket # None => socket \in Sockets
    BY DEF Shape, TypeOK
  <2> QED BY <1>1, <2>1, <2>2 DEF Order, Restarting, Above
<1> QED
  BY <1>6, <1>7, <1>9, <1>10 DEF Order

LEMMA NextOrder == Shape /\ Order /\ [Next]_vars => Order'
<1> SUFFICES ASSUME Shape, Order, [Next]_vars PROVE Order'
  OBVIOUS
<1>1. CASE UNCHANGED vars
  BY <1>1 DEF Order, Kept, OnTheWay, ToCome, Reaches, Restarting, Sorted, Above, Below, Behind, After,
              Running, vars, mainVars, objVars, pollVars, queueVars, kernelVars
<1> QED
  BY <1>1, StillOrder, LookOrder, ResetOrder, PopOrder, PollReadOrder, CutOrder, PushOrder,
     ArriveOrder
     DEF Next, EnableStep, PollStep

\* Whatever Enable() and the threads do, Read() returns frames in the order of the bus,
\* none twice, and none from before the last Enable().
THEOREM FramesFreshInOrder == Spec => FreshInOrder
<1>1. Shape /\ Order /\ [Next]_vars => [got' # got => got' > got /\ got' > fresh]_vars
  <2> SUFFICES ASSUME Shape, Order, Next, got' # got PROVE got' > got /\ got' > fresh
    OBVIOUS
  <2>1. Read
    BY DEF Next, EnableStep, PollStep, PollReadFails, InitCan, EnableClose, EnableOpen, PollingClose, PollingJoin,
           ResetQueue, PollingStart, CloseCan, Exit, PollGivesUp, PollRegister, PollClearStop,
           PollTest, PollWait, PollEvent, PollRead, PushLock, PushFrame, Arrive, mainVars
  <2>2. Pops
    BY <2>1 DEF Read, PopFrame
  <2> QED BY <2>1, <2>2, ReadNewer
<1> QED
  BY <1>1, InitShape, NextShape, InitOrder, NextOrder, PTL DEF Spec, FreshInOrder
=============================================================================
