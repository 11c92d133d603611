----------------------------- MODULE CanReceive -----------------------------
(***************************************************************************)
(* How a frame gets from the bus to the stack: the life of the socket and  *)
(* of the polling thread (src/src/co_can_linux.cpp on top of               *)
(* src/lib/socketcan/socketcan.cpp).  Main opens, closes and reads; each   *)
(* Enable() starts one thread that runs SocketCAN::Poll() and hands every  *)
(* frame to PushFrame().  They share m_socket and m_stopPolling, which no  *)
(* mutex protects, and s_rxQueue, which s_rxMutex does.                    *)
(*                                                                         *)
(* A frame is the number of its arrival on the bus; of its contents only   *)
(* its length counts, and whether its identifier is 0.  Every open socket  *)
(* is a new one, numbered from 1, with a receive buffer of its own in the  *)
(* kernel.  Its file descriptor number is the same each time: the kernel   *)
(* gives out the lowest free one.                                          *)
(***************************************************************************)
EXTENDS Naturals, Sequences

CONSTANTS
  Pollers,    \* the threads Enable() creates, in order: one for each call (a bound)
  MaxFrames,  \* how many frames arrive (a bound)
  BufferSize, \* how many of them the kernel keeps for a socket
  Empty,      \* those of them that carry no data (a DLC of 0)
  Zero        \* those of the empty ones that have the identifier 0

ASSUME BoundAssumption ==
  Pollers \in Nat \ {0} /\ MaxFrames \in Nat /\ BufferSize \in Nat \ {0}

Poller == 1..Pollers
Frame == 1..MaxFrames

ASSUME EmptyAssumption == Empty \subseteq Frame /\ Zero \subseteq Empty

Foreign == 2 * Pollers + 1    \* a descriptor that is none of the program's sockets
Sockets == 1..Foreign         \* an Enable() opens two
None == 0                     \* c_invalidSocket, no thread, no frame, no owner
Main == Pollers + 1           \* the owner of s_rxMutex when that is main

VARIABLES
  pcm,      \* where main stands in the driver call it is making
  canIf,    \* s_canIf: is there a SocketCAN object
  socket,   \* its m_socket
  stop,     \* its m_stopPolling
  handle,   \* s_rxPolling: the thread that was started last
  exited,   \* how main() ended: "no", "clean" or "terminate"
  pc,       \* where each polling thread stands in Poll()
  reg,      \* the socket its epoll instance watches
  held,     \* the socket its read() is in
  hand,     \* the frame it is about to push
  rxMutex,  \* the owner of s_rxMutex
  rxQueue,  \* s_rxQueue
  opened,   \* history: sockets opened so far
  bound,    \* those of them that hear the bus
  buffer,   \* the frames the kernel keeps for each socket
  arrived,  \* history: frames that have been on the bus
  got,      \* the frame Read() has filled in last
  len,      \* what Read() returned last: was there a frame with data
  fresh     \* history: frames that had arrived when the queue was last reset

mainVars == <<pcm, canIf, handle, exited, got, len, fresh>>
objVars == <<socket, stop>>
pollVars == <<pc, reg, held, hand>>
queueVars == <<rxMutex, rxQueue>>
kernelVars == <<opened, bound, buffer, arrived>>
vars == <<mainVars, objVars, pollVars, queueVars, kernelVars>>

Init ==
  /\ pcm = "init" /\ canIf = FALSE /\ handle = None /\ exited = "no"
  /\ socket = None /\ stop = FALSE
  /\ pc = [p \in Poller |-> "none"]
  /\ reg = [p \in Poller |-> None] /\ held = [p \in Poller |-> None]
  /\ hand = [p \in Poller |-> None]
  /\ rxMutex = None /\ rxQueue = <<>>
  /\ opened = 0 /\ bound = {} /\ buffer = [s \in Sockets |-> <<>>] /\ arrived = 0
  /\ got = None /\ len = 0 /\ fresh = 0

-----------------------------------------------------------------------------
(* SocketCAN::Open() and Close(), called by main.                          *)

At(here, there) == pcm = here /\ pcm' = there

\* A closed socket is closed again without telling the polling thread.
CloseSocket ==
  IF socket = None THEN UNCHANGED objVars
                   ELSE stop' = TRUE /\ socket' = None

\* socket() or bind() may fail, and then there is no socket.  When only the lookup
\* of the interface fails, Open() returns false and keeps one that is not bound.
OpenSocket ==
  \/ UNCHANGED <<socket, opened, bound>>
  \/ /\ socket = None
     /\ opened' = opened + 1
     /\ socket' = opened'
     /\ bound' \in {bound, bound \cup {opened'}}

-----------------------------------------------------------------------------
(* Main: the calls the stack makes through s_coCanDrv.                     *)

InitCan ==
  /\ At("init", "idle")
  /\ canIf' = TRUE
  /\ UNCHANGED <<handle, exited, got, len, fresh>>
  /\ UNCHANGED <<objVars, pollVars, queueVars, kernelVars>>

\* Enable(): close, set the bit rate, open; then StartPolling(): close, join,
\* reset the queue, open, start the thread.
EnableClose ==
  /\ At("idle", "open")
  /\ handle < Pollers
  /\ CloseSocket
  /\ UNCHANGED <<canIf, handle, exited, got, len, fresh>>
  /\ UNCHANGED <<pollVars, queueVars, kernelVars>>

EnableOpen ==
  /\ \/ At("open", "close")
     \/ At("reopen", "spawn")
  /\ OpenSocket
  /\ UNCHANGED <<canIf, handle, exited, got, len, fresh, stop, buffer, arrived>>
  /\ UNCHANGED <<pollVars, queueVars>>

PollingClose ==
  /\ At("close", "join")
  /\ CloseSocket
  /\ UNCHANGED <<canIf, handle, exited, got, len, fresh>>
  /\ UNCHANGED <<pollVars, queueVars, kernelVars>>

\* StartPolling() that does not wait for the thread before.
JoinNobody == At("join", "reset")

\* join() returns when the thread has returned from Poll().
Join == At("join", "reset") /\ (handle # None => pc[handle] = "done")

PollingJoin ==
  /\ Join
  /\ UNCHANGED <<canIf, handle, exited, got, len, fresh>>
  /\ UNCHANGED <<objVars, pollVars, queueVars, kernelVars>>

ResetQueue ==
  /\ At("reset", "reopen")
  /\ rxMutex = None
  /\ rxQueue' = <<>>
  /\ fresh' = arrived
  /\ UNCHANGED <<canIf, handle, exited, got, len, rxMutex>>
  /\ UNCHANGED <<objVars, pollVars, kernelVars>>

PollingStart ==
  /\ At("spawn", "idle")
  /\ handle' = handle + 1
  /\ pc' = [pc EXCEPT ![handle'] = "begin"]
  /\ UNCHANGED <<canIf, exited, got, len, fresh, reg, held, hand>>
  /\ UNCHANGED <<objVars, queueVars, kernelVars>>

\* PopFrame() gives up when the mutex is taken.
Pops == rxMutex = None /\ rxQueue # <<>>

\* A PopFrame() that returns with the mutex when the queue is empty.
PopKeepsMutex ==
  /\ rxQueue' = IF Pops THEN Tail(rxQueue) ELSE rxQueue
  /\ rxMutex' = IF rxMutex = None /\ rxQueue = <<>> THEN Main ELSE rxMutex

\* PopFrame() lets go of the mutex either way.
PopFrame ==
  /\ rxQueue' = IF Pops THEN Tail(rxQueue) ELSE rxQueue
  /\ UNCHANGED rxMutex

\* Read() takes a frame with identifier and DLC 0 for none: the queue has lost it.  It
\* returns the DLC of any other, so 0 for one without data.
Read ==
  /\ pcm = "idle"
  /\ PopFrame
  /\ IF Pops /\ Head(rxQueue) \notin Zero
       THEN got' = Head(rxQueue) /\ len' = (IF got' \in Empty THEN 0 ELSE 1)
       ELSE len' = 0 /\ UNCHANGED got
  /\ UNCHANGED <<pcm, canIf, handle, exited, fresh>>
  /\ UNCHANGED <<objVars, pollVars, kernelVars>>

\* Close(), from NodeStop(): the object is destroyed, the thread is not joined.
CloseCan ==
  /\ At("idle", "exit")
  /\ CloseSocket
  /\ canIf' = FALSE
  /\ UNCHANGED <<handle, exited, got, len, fresh>>
  /\ UNCHANGED <<pollVars, queueVars, kernelVars>>

\* main() returns, and destroying s_rxPolling destroys a joinable thread.
Exit ==
  /\ At("exit", "exited")
  /\ exited' = IF handle = None THEN "clean" ELSE "terminate"
  /\ UNCHANGED <<canIf, handle, got, len, fresh>>
  /\ UNCHANGED <<objVars, pollVars, queueVars, kernelVars>>

-----------------------------------------------------------------------------
(* A polling thread: SocketCAN::Poll().  Once the object is destroyed its  *)
(* members hold anything: m_socket no descriptor that is open, or one that *)
(* belongs to something else.                                              *)

Alive == exited = "no"

Goto(p, from, to) == Alive /\ pc[p] = from /\ pc' = [pc EXCEPT ![p] = to]

SocketSeen == IF canIf THEN {socket} ELSE {None, Foreign}
StopSeen == IF canIf THEN {stop} ELSE BOOLEAN

\* No socket, no epoll instance, or a socket closed in between: Poll() returns.
PollGivesUp(p) ==
  /\ Goto(p, "begin", "done")
  /\ UNCHANGED <<reg, held, hand>>
  /\ UNCHANGED <<mainVars, objVars, queueVars, kernelVars>>

PollRegister(p) ==
  /\ Goto(p, "begin", "armed")
  /\ \E s \in SocketSeen : s # None /\ reg' = [reg EXCEPT ![p] = s]
  /\ UNCHANGED <<held, hand>>
  /\ UNCHANGED <<mainVars, objVars, queueVars, kernelVars>>

\* m_stopPolling.store(false), by the thread itself.
PollClearStop(p) ==
  /\ Goto(p, "armed", "test")
  /\ stop' = FALSE
  /\ UNCHANGED <<reg, held, hand, socket>>
  /\ UNCHANGED <<mainVars, queueVars, kernelVars>>

PollTest(p) ==
  /\ \E s \in StopSeen : Goto(p, "test", IF s THEN "done" ELSE "wait")
  /\ UNCHANGED <<reg, held, hand>>
  /\ UNCHANGED <<mainVars, objVars, queueVars, kernelVars>>

Ready(p) == reg[p] = socket /\ buffer[reg[p]] # <<>>

\* A loop that clears m_stopPolling in every round.
PollWaitClears(p) ==
  /\ Goto(p, "wait", IF Ready(p) THEN "event" ELSE "armed")
  /\ UNCHANGED <<reg, held, hand>>
  /\ UNCHANGED <<mainVars, objVars, queueVars, kernelVars>>

\* epoll_wait() reports a frame in the socket it watches, while that is open, and
\* times out after 5 ms otherwise; of a foreign descriptor it may report anything.
PollWait(p) ==
  /\ \/ Goto(p, "wait", IF Ready(p) THEN "event" ELSE "test")
     \/ reg[p] = Foreign /\ Goto(p, "wait", "event")
  /\ UNCHANGED <<reg, held, hand>>
  /\ UNCHANGED <<mainVars, objVars, queueVars, kernelVars>>

\* The event is for m_socket if there is one: a new socket has the old number.
PollEvent(p) ==
  /\ \E s \in SocketSeen :
       IF s # None /\ (s = Foreign <=> reg[p] = Foreign)
         THEN Goto(p, "event", "read") /\ held' = [held EXCEPT ![p] = s]
         ELSE Goto(p, "event", "test") /\ UNCHANGED held
  /\ UNCHANGED <<reg, hand>>
  /\ UNCHANGED <<mainVars, objVars, queueVars, kernelVars>>

\* Poll() that pushes the zeroed frame when read() fails.
ReadUnchecked(p) ==
  /\ Goto(p, "read", "push")
  /\ IF buffer[held[p]] # <<>>
       THEN /\ hand' = [hand EXCEPT ![p] = Head(buffer[held[p]])]
            /\ buffer' = [buffer EXCEPT ![held[p]] = Tail(@)]
       ELSE UNCHANGED <<hand, buffer>>

\* read() blocks until the socket it was called for has a frame.
ReadFrame(p) ==
  /\ Goto(p, "read", "push")
  /\ buffer[held[p]] # <<>>
  /\ hand' = [hand EXCEPT ![p] = Head(buffer[held[p]])]
  /\ buffer' = [buffer EXCEPT ![held[p]] = Tail(@)]

PollRead(p) ==
  /\ ReadFrame(p)
  /\ held' = [held EXCEPT ![p] = None]
  /\ UNCHANGED <<reg, opened, bound, arrived>>
  /\ UNCHANGED <<mainVars, objVars, queueVars>>

\* read() fails, or the frame it took is not whole: nothing is pushed.
PollReadFails(p) ==
  /\ Goto(p, "read", "test")
  /\ held' = [held EXCEPT ![p] = None]
  /\ \/ UNCHANGED buffer
     \/ /\ buffer[held[p]] # <<>>
        /\ buffer' = [buffer EXCEPT ![held[p]] = Tail(@)]
  /\ UNCHANGED <<reg, hand, opened, bound, arrived>>
  /\ UNCHANGED <<mainVars, objVars, queueVars>>

\* A PushFrame() that puts the frame in front.
PushFront(p) == rxQueue' = <<hand[p]>> \o rxQueue

PushBack(p) == rxQueue' = Append(rxQueue, hand[p])

\* PushFrame(): takes the mutex, appends, and releases it.
PushLock(p) ==
  /\ Goto(p, "push", "pushing")
  /\ rxMutex = None
  /\ rxMutex' = p
  /\ UNCHANGED <<reg, held, hand, rxQueue>>
  /\ UNCHANGED <<mainVars, objVars, kernelVars>>

PushFrame(p) ==
  /\ Goto(p, "pushing", "test")
  /\ PushBack(p)
  /\ hand' = [hand EXCEPT ![p] = None]
  /\ rxMutex' = None
  /\ UNCHANGED <<reg, held>>
  /\ UNCHANGED <<mainVars, objVars, kernelVars>>

-----------------------------------------------------------------------------
(* The bus.                                                                *)

\* A socket exists while main has it open, and while a read() of it goes on.
Hears(s) == s \in bound /\ (s = socket \/ \E p \in Poller : held[p] = s)

\* A frame arrives, and is lost where the buffer is full.
Arrive ==
  /\ Alive
  /\ arrived < MaxFrames
  /\ arrived' = arrived + 1
  /\ buffer' = [s \in Sockets |->
                  IF Hears(s) /\ Len(buffer[s]) < BufferSize
                    THEN Append(buffer[s], arrived') ELSE buffer[s]]
  /\ UNCHANGED <<opened, bound>>
  /\ UNCHANGED <<mainVars, objVars, pollVars, queueVars>>

EnableStep ==
  EnableOpen \/ PollingClose \/ PollingJoin \/ ResetQueue \/ PollingStart

PollStep(p) ==
  \/ PollGivesUp(p) \/ PollRegister(p) \/ PollClearStop(p) \/ PollTest(p)
  \/ PollWait(p) \/ PollEvent(p) \/ PollRead(p) \/ PushLock(p) \/ PushFrame(p)

Next ==
  \/ InitCan \/ EnableClose \/ EnableStep \/ Read \/ CloseCan \/ Exit
  \/ \E p \in Poller : PollStep(p) \/ PollReadFails(p)
  \/ Arrive

Spec == Init /\ [][Next]_vars

\* Main goes on with a call it has begun and reads in every NodeTick(); the
\* operating system runs every thread.  Nothing makes a frame arrive or a read() fail.
FairSpec ==
  /\ Spec
  /\ WF_vars(EnableStep) /\ WF_vars(Read) /\ WF_vars(Exit)
  /\ \A p \in Poller : WF_vars(PollStep(p))

-----------------------------------------------------------------------------
(* Properties.                                                             *)

PollPC == {"none", "begin", "armed", "test", "wait", "event", "read", "push", "pushing",
           "done"}

\* Every variable has its type; in particular only frames are ever queued.
TypeOK ==
  /\ pcm \in {"init", "idle", "open", "close", "join", "reset", "reopen", "spawn", "exit",
              "exited"}
  /\ canIf \in BOOLEAN /\ stop \in BOOLEAN
  /\ exited \in {"no", "clean", "terminate"}
  /\ handle \in Poller \cup {None}
  /\ socket \in Sockets \cup {None}
  /\ pc \in [Poller -> PollPC]
  /\ reg \in [Poller -> Sockets \cup {None}] /\ held \in [Poller -> Sockets \cup {None}]
  /\ hand \in [Poller -> Frame \cup {None}]
  /\ rxMutex \in Poller \cup {Main, None}
  /\ rxQueue \in Seq(Frame)
  /\ opened \in 0..(2 * Pollers) /\ bound \subseteq Sockets
  /\ buffer \in [Sockets -> Seq(Frame)]
  /\ arrived \in 0..MaxFrames /\ got \in 0..MaxFrames /\ len \in {0, 1} /\ fresh \in 0..MaxFrames

Running(p) == pc[p] \notin {"none", "done"}

\* Two threads are never inside Poll() at once: they would both read from
\* m_socket and push frames out of order.
OnePoller == \A p, q \in Poller : Running(p) /\ Running(q) => p = q

\* Read() returns frames in the order of the bus, each at most once, and after
\* Enable() none that arrived before.
FreshInOrder == [][got' # got => got' > got /\ got' > fresh]_vars

Looping(p) == pc[p] \in {"test", "wait", "event", "read", "push", "pushing"}

\* A Close() that finds the thread in the loop of Poll() ends that thread, unless its
\* read() of a socket without frames never returns, or the process ends first.  (A
\* Close() that comes before the loop may not: see the README.)
StopIsHeard ==
  \A p \in Poller :
    stop /\ Looping(p) ~> pc[p] = "done" \/ [](pc[p] = "read") \/ exited # "no"

\* A frame with data that Poll() has read is returned by Read(), unless Enable() empties
\* the queue or waits for ever, or the node ends.
PolledIsRead ==
  \A p \in Poller, f \in Frame \ Empty :
    hand[p] = f ~> (got = f /\ len > 0) \/ fresh >= f \/ pcm = "exited" \/ [](pcm = "join")

\* SIGINT ends the program softly: main() returns and so does the process.
SoftClosure == exited # "terminate"

=============================================================================
