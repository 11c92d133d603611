# A TLA+ verification of canopen-timers

`canopen-timers` runs a small CANopen node on Linux: a CANopen stack (a git
submodule, absent from the tree), the drivers that the stack calls through
function tables (timer, CAN, non-volatile storage), a SocketCAN wrapper, and a
`main()` that ticks the node. The repository's own README says that "TPDOs may
randomly stop transmitting" and suspects a race. The modules here model the
parts of the program in which threads meet or operations fail half way, say what
they should guarantee, check that with TLC on small instances, and prove what
matters most with TLAPS.

Paths below are relative to `src/`, the repository.

## 1. Inventory

Main reads its arguments, constructs the node, calls `NodeStart`, then `NodeTick`
every 500 us until SIGINT, then `NodeStop`. Three kinds of thread exist: main, the `SIGEV_THREAD` threads
that the C library starts at each expiry of the OS timer, and the polling thread
that `Enable()` starts.

| Component | Source | State | Operations |
|---|---|---|---|
| Timer driver | `src/co_timer_linux.cpp` | `s_timerId`, `s_tmr`, `s_tickRateNanoSec`, `s_tempSec`, `s_tempNanosec`, `s_lock` | `Init`, `Start`, `Stop`, `Reload`, `Delay`, `Update`, `ISROSTimer`, `LinkTimer`, `COTmrLock/Unlock` |
| Soft timers | `lib/canopen-stack` (absent) | running and elapsed actions | `COTmrCreate`, `COTmrInsert`, `COTmrProcess`, `COTmrService` |
| CAN driver | `src/co_can_linux.cpp` | `s_canIf`, `s_rxPolling`, `s_rxQueue`, `s_rxMutex` | `Init`, `Enable`, `Read`, `Send`, `Reset`, `Close`, `StartPolling`, `PushFrame`, `PopFrame` |
| SocketCAN socket | `lib/socketcan/socketcan.cpp` | `m_socket`, `m_stopPolling`, `m_busOff`, `m_txErrCnt` | `Open`, `Close`, `Poll`, `Send`, `IsBusOff` |
| SocketCAN interface | `lib/socketcan/socketcan.cpp` | `m_bitrate`, the flags, bit rate and queue length of the interface | `SetBitrate`, the first half of `Open`, the destructor, the `Netlink_` functions |
| SocketCAN error frames | `lib/socketcan/socketcan.cpp` | frame statistics | `TranslateErrorFrame`, `UpdateStats`, `FrameBitLength`, `BusLoad` |
| Storage driver | `src/co_nvm_linux.cpp` | a file stream | `Init`, `Read`, `Write` |
| Node, dictionary | `src/mystack.cpp`, `src/co_addr.hpp` | the object dictionary, `m_dataMtx` | the constructor with `AllocateObjects`, `NodeStart/Tick/Stop`, `SetObject`, `TriggerTPDO` |
| Data generator | `src/varloop.cpp` | two counters, a moving bit, the time of the last update | `Tick` |
| Main program | `src/main.cpp`, `src/utils.hpp` | the exit flag, the parsed arguments | `ParseArguments`, the loop, the signal handler |

How they interact, and what is hard about each:

* **Timer driver and soft timers.** Main inserts soft timers and decides from
  `Delay()` and from the list whether to `Reload` and `Start` the one-shot OS
  timer; each expiry runs `COTmrService` on a thread of its own, which reads
  `Update()`, moves the head to the elapsed list and reloads or stops the timer.
  They share the stack's lists and the driver's statics. *Hard:* interleaving,
  stale decisions, an expiry on its way that cannot be recalled, a timer that
  must be rearmed on every path. *Correct when* no running timer is left without
  anything to make it elapse, what reaches `timer_settime` is one reload and not
  halves of two, and inserting a timer moves none of those that run, but for the
  rest of a tick and the time it takes.
* **CAN reception.** The polling thread waits in `epoll_wait`, reads `m_socket`
  and pushes frames; main restarts it in `Enable()` and pops frames in `Read()`.
  *Hard:* `m_socket` and `m_stopPolling` are shared without a lock, and the
  polling thread itself clears the stop flag; the socket can be closed and
  reopened under the same descriptor number between the event and the `read`.
  *Correct when* one thread polls at a time, frames are returned in bus order and
  none from before the restart, a stop is heard, a frame with data that
  was read arrives,
  and the process ends cleanly.
* **CAN transmission.** Main tests `m_busOff` and the error counter before
  writing; the polling thread sets and clears `m_busOff`. *Hard:* the test and
  the write are apart, the counter gates the only code that resets it, and an error
  frame is translated into text, by code that may throw, before it is believed.
  *Correct when* few frames follow a bus-off report, sending resumes on a
  healed bus, the log says why frames are dropped.
* **Interface configuration.** `Enable()` calls `SetBitrate()` and `Open()` (twice),
  each of which makes several changes through netlink. *Hard:* any of them may fail,
  most results are ignored, the decisions are made on a copy of the interface read
  beforehand, and the bit rate asked for is applied by a later call than the one that
  stores it. *Correct when* the interface runs at the rate asked for, and at the one
  that is reported.
* **Storage.** The stack reads and writes a file through one `std::fstream`. *Hard:*
  the stream's failure is sticky, a write beyond the end first fills the gap, and the
  process may be killed in between. *Correct when* it is an array of bytes.
* **Main loop and generator.** Each iteration ticks node and generator, which writes
  three objects that two TPDOs carry. *Hard:* two clocks (of updates and of TPDOs) and
  a main that may be held up anywhere between them. *Correct when* no update is
  overwritten before it was sent, and the data are what the README says.
* **Arguments and dictionary.** One thread, before any other starts. *Hard:* arguments
  are read backwards and the tokens in each forwards, with an exit on the way; a TPDO
  has 64 bits and takes objects of any width, of which it skips those that do not fit;
  entries keep raw pointers into a map; the stack searches by bisection. *Correct when*
  the program does what it was asked to, and the stack finds every object and reads a
  complete mapping.

The complete list of hazards, with the line where each bites and the properties
that watch it, is in `PROJECT.json`.

## 2. Modules

| Module | What it models |
|---|---|
| `HalTimer` | The steps a thread takes inside the timer driver, the mutex, the OS timer |
| `TimerService` | `HalTimer` under the stack's soft timers: main, the expiry threads, time |
| `AlarmClock` | What the two promise together: a started action rings |
| `MCTimerService` | Two actions, three delays, for TLC |
| `TimerServiceProofs` | Proofs about `TimerService` |
| `CanReceive`, `CanReceiveProofs` | The life of socket, polling thread and receive queue; proofs |
| `ErrorFrame` | What an error frame says, what its translation names, and when that throws |
| `CanTransmit`, `CanTransmitProofs` | The bus-off gate in front of `write()`, extending `ErrorFrame`; proofs |
| `MCCanTransmit` | Nine error frames, for TLC |
| `CanLink`, `CanLinkProofs` | Bit rate, queue length, up and down of the interface; proofs |
| `Arguments` | `ParseArguments()` and the decision to start |
| `ObjDict`, `ObjDictProofs` | Addresses, `AddObject()`, the TPDO mapping, sorting and search; what these compute for every input |
| `Startup`, `StartupProofs` | From the command line to the dictionary the node gets: `Arguments` and `ObjDict` composed; proofs |
| `MCStartup` | Eight tokens, five pairs of TPDOs, for TLC |
| `NvmStore` | What the storage driver promises: an array of bytes |
| `Nvm` | The storage driver on its file, implementing `NvmStore` |
| `NvmProofs` | Proofs about `Nvm` |
| `VarLoop`, `VarLoopProofs` | The loop of `main()`, from the generator to the TPDOs; proofs |

### HalTimer and TimerService

`HalTimer` has the driver's statics under their names. The stack counts in ticks and
the OS timer in nanoseconds, as in the code: `T1000ms` is the number of nanoseconds
in a second, `TmrFreq` what `Init()` is given, and `TickRate` the quotient it stores.
A second is a whole number of ticks (`SecondAssumption`), as with the 500000 of the only
caller, whose tick is 2000 ns. `Reload()` and `Delay()` convert with the code's divisions;
`Delay()` cuts what is left to whole ticks, so that the rest of a tick is missing from what
it says. No integer can overflow: a reload of 32 bits times a tick of at most a second is
below 2^64, and what `Delay()` narrows to 32 bits is never more than a reload was.
`Reload` is three steps, because the two assignments and
`timer_settime` are separate accesses to shared memory and only `s_lock` can keep
another thread out. `Start` is one step: with the assignments of `Reload` apart,
splitting the two reads of `Start` would add no outcome when `s_lock` is held.
Where it is not (`ServiceLocks = FALSE`), the model has fewer interleavings than
the code, so the violation it finds is real and absence of others is not
claimed. `timer_create` may fail; then `s_timerId` is the null pointer,
`timer_settime` is skipped (or refused, in `Start`), and no timer ever elapses.

`TimerService` adds what is not in the repository: how the stack uses the driver.
Main's insertion takes the lock, reads list and `Delay()`, decides, places the
action, reloads (and starts, when the list was empty), unlocks. The expiry thread
enters `COTmrService`, pops the head and reloads for the next, or stops. The
stack keeps deltas in a chain; the model keeps `off[a]`, the distance from the
head. These definitions are marked external in `PROJECT.json`. They follow the
driver table (`co_timer_linux.cpp:56`), the calls in `mystack.cpp` and the system
calls traced in the repository's README. Three facts about the stack are not to be
had from the repository, and are explicit:

* whether `COTmrService` takes `COTmrLock`: the constant `ServiceLocks`;
* that the stack calls `Start()` after `Reload()` for its first timer: read off
  the driver table. It arms the OS timer twice with one value; if the first period
  ends in between, two expiries are delivered for one timer, and since `Update()`
  answers 1 to whoever asks, the second pops the next action before its time. The same
  happens with an expiry that is on its way when main reloads the timer for an earlier
  action. **An action can so elapse early**, mutex or not. No document of the
  repository says that it may not, nor can it be seen whether the stack calls
  `Start()` there, so this is described here and neither stated nor excluded;
* that `CONodeInit` starts no timer. It runs in the constructor (`mystack.cpp:35`),
  between the driver's `Init` and `LinkTimer` in `NodeStart` (`:45`), and an expiry in that
  time would call `COTmrService` with a null pointer. `Boot` takes it that there is none:
  the `Init` of the driver is all the model has of `CONodeInit`.

`due` and `passed` are history: in how many nanoseconds each action was to elapse when
main asked `Delay()`, and how many the OS timer has counted since.

### CanReceive

One step for each access to shared state that another thread can see: the three
closes and opens inside `Enable`/`StartPolling`, the join, the queue reset, the
start; in `Poll` the registration, the clearing of `m_stopPolling`, the test, the
wait, the second look at `m_socket`, the `read`, the two halves of `PushFrame`.
Each open makes a new socket (numbered), which has its own kernel buffer, while
the descriptor *number* is reused, so the event of one socket can lead to a
`read` of its successor that blocks. After `Close()` the object is destroyed while
the thread may still be inside `Poll` (`co_can_linux.cpp:130`): from then on every
member it reads may have any value. `SocketSeen` is then no descriptor that is open, or
one that belongs to something else (`Foreign`), of which `epoll_wait` may report anything
and `read` may fail or block; `StopSeen` is either value. A `read` may also fail, or
return a part of a frame, at any other time (`PollReadFails`): nothing is pushed then.

A frame is the number of its arrival. Two things about its contents matter to `Read()`
(`Empty`, `Zero`): it returns the length, so that a frame without data looks like none
(`len` is 0); and it takes a frame with the identifier 0 and no data for none, which the
queue has lost by then. What the stack makes of 0 is not in the repository.

### ErrorFrame and CanTransmit

`co_can_linux::Send` tests `IsBusOff`, `SocketCAN::Send` tests `m_busOff` again,
and then writes: three steps, between which the polling thread may change
`m_busOff`. That thread too takes steps: it reads a frame (`PollFrame`, `PollError`),
translates an error frame for the log (`PollLog`), and then stores `m_busOff`
(`PollStore`). A full queue (`ENOBUFS`) counts in `m_txErrCnt`, other errors do not.
The bus is healthy or not, and takes queued frames when healthy.

An error frame is a record of its classes, of the flags in its bytes for the controller
and the protocol, and of the location of a violation. `Named` is the text of
`TranslateErrorFrame()` as the set of faults it names. The location is looked up with
`at()`, which throws for a byte that is not in the table; the exception leaves the
function of the polling thread, and the process ends: `alive` becomes false and nothing
of it moves any more. **An error frame can so end the process** (`socketcan.cpp:676`): the
tables hold the names of SocketCAN's headers, and a controller may report a location that
has none, such as a segment of an error flag. The error frames of the run have one. No
document of the repository speaks of it, and the model needs a single step to get there, so
no property is stated; `SendsResume` is about a process that goes on. A frame says that the
bus is off, or the controller passive, only while the bus is unhealthy, which is what a
controller reports. `rxFrame` is the frame the thread has read last, the local variable of `Poll()` while it deals with it, and history
once it waits again; `late` is history.

### CanLink

The variables `up`, `rate`, `long` are what the kernel holds of the interface; `link`
is the `rtnl_link` read by `Netlink_GetInterface`, on which each later function
decides whether it has anything to do. `Enable` to `StoreBitrate` are `SetBitrate()`
and the message of `Enable()`, one step per netlink call; `OpenCall` and `OpenStep`
are the first half of `Open()`, once from `Enable()` and once from `StartPolling()`
(the socket is closed before each, so `Open()` never returns early); `CloseCall`
and `CloseDown` are the destructor. A netlink call may fail at any time. Two rules are
the kernel's: the bit rate of an interface that is up cannot be changed, and one
without a bit rate cannot be brought up. Between any two steps the interface may be
pulled out or plugged in, or an administrator may take it up or down or, while it is
down, change its bit rate. `Connect` and `GetInterface` are one step, because nothing is
changed between them. `ok` is the local variable of `SetBitrate()`; what fails in
`Open()` leaves no trace in the program, so `openFailed` is history, with `meddled`
and `before`.

### NvmStore and Nvm

`file` is what is on the disk, `fail` what `!s_nvmFile` says, which nothing clears.
`Read` is one step. `Write` is up to three: the look at the file's size
(`WriteCall`), the filler, which `seekp` has flushed when it returns (`WriteFill`), and
the data (`WriteData`); the disk may stop taking bytes in each, and `Kill` may come
between them. When the disk refuses the data, what `Write()` returns depends on the
stream's buffer: either the data fit, `tellp()` counted them and only `flush()` fails, or
`tellp()` fails and the count is `-1 - start` in 32 bits. Both are alternatives of
`WriteDataFails`. A killed process loses what such a stream still has in its buffer. (One
that ends normally tries to write it again when the stream is destroyed; this last
attempt is not modelled.)

`NvmStore` has no file: bytes, all zero where nothing was written, with `Save` in one
step, and `SaveTorn`, after which the storage is broken until it is opened again.

### Arguments, ObjDict and Startup

A command line is a sequence of arguments, an argument the sequence of its tokens; a
token carries its text and the parts between its `=` signs, as `getline` yields them
(`--iface=` has one part, and is its own key). `ReadArgument` takes the next argument from
the right and splits it; `ReadToken` handles a token, and may end the process. `Kept` says
what `Split()` keeps of an argument from each token on. `TokenAssumption` says that a text
without `=` is its only part, of the texts the code compares with; for a blank this is a
convention, because `Split()` drops it before it would be taken apart.

`AllocateObjects` is the list of the calls it makes, which depends on the objects that the
two TPDOs are defined with. `DefineObject` makes one call of `AddObject()`, `MapObject` is
one turn of the loop of `DefineTPDOMapping()`, `MapSize` what follows it, and `Sort` the
call of `std::sort`, whose result is unique only if no two keys are equal. An entry holds a
value or points to a storage that bears a number. An address is a record of index and
subindex, the latter in 8 bits; `FullRef` gives the order. Flags other than direct and
PDO-mappable, the types and the default values are left out, since no decision depends on
them. `CODictFind` is the stack's search, by bisection, and external.

`Startup` runs one after the other: no node without an interface, no dictionary without a
node. The two TPDOs may be defined with any lists (`Tables`), the code's being one of them.

### VarLoop

`NodeTick` and `Tick` are called in turn; `Tick` compares the clock with
`m_lastUpdate` (`age` is the difference), moves the three data points on, writes the three
objects, and takes the time again (`Stamp`). Nobody but main takes `m_dataMtx`, and
`SetObject` returns early only for an address that is not in the dictionary, which these
three are (`Startup`): neither is in the model. The objects are not marked
as asynchronous in the dictionary (`mystack.cpp:140`), so that only the event timers of the
TPDOs send, in `NodeTick`. Those timers are taken to work here: whether they do
is the subject of `TimerService`. Time passes in three places: between `NodeTick` and the
clock that `Tick` reads (`Gap`), up to `MaxGap`; until `Tick` takes the time again
(in `SetObject3`, since nothing looks at the clock before); and in the rest of the iteration
(`Sleep`), up to `MaxSleep` each. The node is operational throughout.

## 3. Runs

| Run | Instance | Shows |
|---|---|---|
| `timers` | two actions (a cyclic one of 3 ticks, a one-shot), delays 1 to 3, a second of 4 ns, ticks of 2 ns, two expiry threads, `ServiceLocks` | `TypeOK`, `TimersKeepRunning`, `ReloadNotTorn`, `EveryTimerElapses`, `InsertionKeepsTime`, and that the system implements `AlarmClock` |
| `timers_unlocked` | one expiry thread, `ServiceLocks = FALSE` | `EveryTimerElapses` fails: the silence of the README |
| `can_receive` | two `Enable()` calls, three frames, the first and the last without data, the first with identifier 0, kernel buffers of two | `TypeOK`, `OnePoller`, `FreshInOrder`, `StopIsHeard`, `PolledIsRead` |
| `can_receive_exit` | one `Enable()`, one frame | `SoftClosure` fails |
| `can_transmit` | the code's threshold of 10, a queue of two, nine error frames | `TypeOK`, `OneLateFrame`, `BusOffIsNamed`, `SendsResume` |
| `can_transmit_lockout` | the same | `SendsForever` fails |
| `can_link` | two bit rates, any initial state of the interface | `TypeOK`, `EnableApplies`, `FailureKeepsRate`, `ClosedIsDown` |
| `can_link_told` | the same | `RunningAsTold` fails |
| `nvm` | three bytes of one bit, integers of four bits | `TypeOK`, `AckedIsStored`, `ImplementsStore` |
| `varloop` | updates after 4 units, TPDOs every 2, gaps of up to 2, any other delay of up to 10, counters of 4 bits, 32 bits of data point 3 | `TypeOK`, `EveryUpdateIsSent` |
| `startup` | command lines of the program's name and up to two of eight arguments, five pairs of TPDOs | `TypeOK`, `StartedAsAsked`, `FirstInterfaceWins`, `SearchFinds`, `StorageLive`, `MappingComplete`, `SubindicesCounted`, `FirstFit` |
| `varloop_bit` | updates after 2 units, TPDOs every unit, no delay beyond 1 | `MovingBitCrosses` fails |

Why the bounds are enough to be interesting. *Timers:* with delays 1, 2, 3 a new
action is earlier than, as late as, and later than the head; with ticks of 2 ns and a
second of 4 a reload has nanoseconds only, seconds only, and both, and `Delay()` has a rest
to cut; the cyclic
and the one-shot action are what an asynchronous TPDO has (event and inhibit
timer); two expiry threads allow one expiry while another waits for the mutex
(`Expire` needs an idle thread, so with both busy time stands still, which the
fairness forbids from lasting). *Reception:* the second `Enable()` is the one that
meets a running thread; three frames let one be lost to a full buffer, one be in
hand and one arrive after the restart; the frame with data can be between the others, so
that dropping those must not disturb it. *Transmission:* the state is finite, and
the threshold is the code's; a queue of two can be partly full. The nine error frames are
off, passive on either side, a status that is neither, violations with a location that is
in the table, that is in none, and with none, and several classes at once. *Startup:* two
arguments are enough for either to come first, one of them with several tokens; the lists
of objects are those of the code, and ones that fill 64 bits exactly, miss them by one,
overflow and go on, have more objects than fit, or none; one number of a TPDO is beyond
the clamp. *Interface:* the model is
finite but for its bit rates, and two are enough to be different. *Storage:* in three
bytes a gap, its filler and the data can be of length one each, and a request can begin
before, at and behind the end of the file; four bits leave room for the wrapped count.
*Main loop:* a delay of 10 is longer than two update periods (500 ms in the code)
and five event times (250 ms), so everything can be due at once; a gap of 2 is all that
the period leaves beside the event time; the width of data point 3
and the bit where it turns are the code's. `varloop_bit` needs no long delays.

`CHECK_DEADLOCK FALSE` stands where the program really stops: nothing happens when
`timer_create` failed and all actions wait for it, the program ends in
`CanReceive`, and `Startup` is over when the dictionary is built or main gave up. The other runs check for deadlock.

### Properties

* `TimersKeepRunning` — while an action runs, the OS timer is armed, or an expiry
  is being delivered, or a thread is on its way to arm. This is the property whose
  violation is the silence of the README. `EveryTimerElapses` is its liveness form.
* `ReloadNotTorn` — what reaches `timer_settime` is the argument of the `Reload`
  that calls it.
* `ImplementsAlarms` — the mapping `clock` reads the state of an action off the
  list it is in; locks, statics, offsets and threads disappear. `AlarmClock` has
  no timer at all, so that it states the promise and not the way it is kept.
* `InsertionKeepsTime` — main computes the place of a new action from what `Delay()` says
  is left of the head, which lacks the rest of a tick, and then arms the timer while time
  goes on. When it is done, each running action, the new one too, elapses when it was to
  (as timer and list stand): earlier by less than a tick, later by less than a tick and
  the time main took since it asked. It is about what an insertion does: an
  expiry that is on its way at that moment may still ring one action before its time, as
  said above.
* `OnePoller`, `FreshInOrder` — about `Enable()` over a running thread.
* `StopIsHeard` — a `Close()` that finds the thread in the loop ends it. It is
  stated for that window on purpose: **the stop can be lost**. The polling thread
  clears `m_stopPolling` itself (`socketcan.cpp:508`) after it has checked that the
  socket is open (`:484`); a `Close()` in between sets a flag that is then cleared,
  the thread loops for ever, and the `join` of the next `Enable()` never returns.
  Nor does it end when it blocks in a `read` of the new socket on which no frame comes,
  which the property excepts.
  No document of the repository denies it, so it is described here and not
  stated as a violation.
* `PolledIsRead` — a frame with data that the thread has read reaches the stack unless
  `Enable()` empties the queue, the node ends, or main waits in that `join`. One without
  data does not: it looks like none.
* `OneLateFrame` — the gap between test and write costs at most one frame, counted from
  the store of `m_busOff`. Between the `read` of the error frame and that store, main may
  write as many as it has.
* `BusOffIsNamed` — the log says why frames are dropped: whatever sets `m_busOff` is named
  in the text. It relates two pieces of code that read the same frame differently (the
  translation by its tables, the assignment by a mask).
* `SendsResume` — on a bus that heals for good, frames are sent again, *unless* the
  write errors passed the threshold. `SendsForever` drops the exception and fails.
* `EnableApplies` — the interface ends up with the rate asked for, although
  `SetBitrate()` applies the old one: because the two `Open()`s that follow apply
  what it stored.
* `FailureKeepsRate` — when `Enable()` reports that the change failed, the interface does not
  run at the new rate all the same. True because `SetBitrate()` sets the old one.
* `RunningAsTold` — what `Enable()` reports is true. Not satisfied.
* `AckedIsStored` — while the stream is good, the file holds every byte that was
  acknowledged since `Init()`. It is false of a stream that failed, which may have
  acknowledged data that never reached the disk, and it says nothing of a restart, which
  is for `ImplementsStore`.
* `ImplementsStore` — under the mapping `cells <- Content(file)`: filling a gap changes
  no byte, so the first step of a write is invisible, and a kill after it too. The store may
  break at any time, so that the sticky failure of the stream is permitted and not caught.
* `EveryUpdateIsSent` — when the next update is written, both TPDOs carry the one
  before. It depends on `NodeTick()` coming before `Tick()` in the loop, and on
  `m_lastUpdate` being read from the clock: advanced by `TickRate` instead, a long iteration
  would be followed by two updates without a TPDO in between. And it depends on `ShortGap`:
  main is not held up between `NodeTick()` and the clock read of `Tick()` for more than
  `TickRate` leaves beside the event time, 250 ms in the code. **Held up for longer there,
  main overwrites an update that was never sent**: its event was not due when `NodeTick()`
  looked, and the next update is when `Tick()` does. Anywhere else any delay is harmless.
* `StartedAsAsked` — a node is made only with an interface and without `--help` or
  `--version` anywhere; main ends with 0 only if one of those is there, and with 1 only
  if nothing is. `FirstInterfaceWins` — of several interfaces the first argument counts,
  but within one argument the last token: the effect of the two reading directions.
* `SearchFinds` — bisection finds every entry, and that entry only: keys are sorted and
  different. `StorageLive` — no storage an entry points to has been replaced.
* `MappingComplete` — an entry that says a mapping has n objects never stands before
  its n objects do, for any mapping. `SubindicesCounted` — subindex 0 of every object that
  has others tells the highest. `FirstFit` — the TPDO, as the stack will read it by
  searching the sorted dictionary, carries each object for which there was room, in order,
  each of them mappable.
* `MovingBitCrosses` — every bit of data point 3 is carried again and again. Not
  satisfied.

### Findings

1. `timers_unlocked`: main finds the list empty or reads `Delay()`, an expiry
   thread pops the last action and disarms, main queues the new action behind a
   head that is gone and arms nothing. `ISROSTimer` takes no lock, so all depends
   on `COTmrService`. The repository's README says the mutex "should be already
   playing ball"; its trace (two `timer_gettime` of zero, no `timer_settime`) is
   the state TLC reaches. The run shows that *if* the stack does not lock, this is
   how the node falls silent; the theorems show that if it does, it cannot.
2. `can_receive_exit`: `s_rxPolling` is never joined or detached at the end, so its
   destructor calls `std::terminate`.
3. `can_transmit_lockout`: eleven `ENOBUFS` in a row shut `IsBusOff()` for good,
   because only a successful `SocketCAN::Send` resets the counter.
4. `can_link_told`: `Enable()` ignores what `SetBitrate()` returns and compares its
   argument with `m_bitrate`, which is 250000 from the start. When a netlink call of
   `SetBitrate()` fails, because netlink cannot be reached or the interface is not taken
   down, while the interface runs at another rate, the rate stays, and "Now running at
   250000 bps" is printed.
5. `varloop_bit`: data point 3 starts over after `0x8000000`, which is bit 27, where the
   README promises "a moving bit across 32 bits". The trace in the README agrees: its
   64th update carries `0x100`, bit 8, and 64 is 8 modulo 28.

### Fairness

* `TimerService`: time passes; a spawned thread runs; main calls `NodeTick` for
  ever, hence goes on with an insertion and takes elapsed actions. The steps that
  wait for `s_lock` are strongly fair: the critical sections are finite and main
  sleeps 500 us between ticks (`main.cpp`), so no thread can find the mutex taken
  at each of its attempts. Creating an action is not fair.
* `CanReceive`: main goes on with a driver call it has begun, and reads in every
  `NodeTick`; threads run. Nothing makes a frame arrive, so a blocked `read` may
  stay blocked, and nothing makes a `read` fail; nothing makes main call `Enable` or
  `Close`.
* `CanTransmit`: timers keep asking for TPDOs; a healthy bus takes frames and
  brings some (with another node on it); the polling thread goes on with a frame it has
  read. Nothing heals the bus: `SendsResume`
  assumes that in its premise.
* `VarLoop`: the loop of `main()` goes on. The other modules have no liveness
  properties and assume no fairness.

## 4. Proofs

For every set of actions, every number of expiry threads, every cycle, delay, tick and
second (`TimerServiceProofs`):

| Theorem | States | Assumes |
|---|---|---|
| `TypeCorrect` | `Spec => []TypeOK` | |
| `MutualExclusion` | a thread inside the critical section owns `s_lock` | `ServiceLocks` |
| `WholeReloads` | `Spec => []ReloadNotTorn` | `ServiceLocks` |
| `NeverSilent` | `Spec => []TimersKeepRunning` | `ServiceLocks` |
| `AlarmSteps` | `Spec => Clocks!Spec`, the safety part of `ImplementsAlarms` | |
| `InsertionsKeepTime` | `Spec => InsertionKeepsTime` | `ServiceLocks` |

In the other proof modules nothing is assumed but the assumptions on the constants that
the modules state, and `ShortGap` where the table says so:

| Module | Theorem | States | For every |
|---|---|---|---|
| `CanReceiveProofs` | `TypeCorrect` | `TypeOK` | number of `Enable()` calls, frames, buffer places |
| | `SinglePoller` | `OnePoller` | |
| | `FramesFreshInOrder` | `FreshInOrder` | |
| `CanTransmitProofs` | `CounterBounded` | `TypeOK` | threshold, queue length, set of error frames |
| | `LateFrameBound` | `OneLateFrame` | |
| | `NamedBusOff` | `BusOffIsNamed` | |
| `CanLinkProofs` | `TypeCorrect` | `TypeOK` | set of bit rates |
| | `RateApplied` | `EnableApplies` | |
| | `FailedRateUnused` | `FailureKeepsRate` | |
| | `DownAtTheEnd` | `ClosedIsDown` | |
| `NvmProofs` | `TypeCorrect` | `TypeOK` | set of bytes, capacity, integer width |
| | `AcknowledgedKept` | `AckedIsStored` | |
| | `StoreRefined` | `ImplementsStore`, in full: `NvmStore` has no fairness | |
| `VarLoopProofs` | `TypeCorrect` | `TypeOK` | times, length of an iteration, width of the data |
| | `UpdatesSent` | `EveryUpdateIsSent`, assuming `ShortGap` | |
| `ObjDictProofs` | `BisectionFinds` | the search returns what a scan would | ordered sequence of entries |
| `StartupProofs` | `TypesKept` | `TypeOK` | set of command lines, pair of numbers and lists of objects |
| | `NodeStartedAsAsked` | `StartedAsAsked` | |
| | `NodeUsesFirstInterface` | `FirstInterfaceWins` | |
| | `MappingsComplete` | `MappingComplete` | |
| | `StorageStaysLive` | `StorageLive` | |
| | `EveryEntryFound` | `SearchFinds` | |
| | `SubindicesStayCounted` | `SubindicesCounted` | |
| | `MappingsFitFirst` | `FirstFit` | |

The argument for the timers has three layers, each inductive relative to the one
before. `TInv` adds to `TypeOK` that nothing runs before `NodeStart` has linked the
stack's timers, and that main holds an action exactly while it is inserting it. `LInv`,
under the lock, adds `Mutex` (who is between lock and unlock owns the lock),
`Storing` (whoever is in `Reload` has a positive argument, and the
statics hold as much of it as has been stored), and `Listing` (when main is about to
place an action and found the list non-empty, it still is; when an expiry thread is
about to stop the timer, the list is empty). Without `Listing`, `TimersKeepRunning`
is not inductive: from a state where main is about to queue behind a head that is
gone and the timer is disarmed, the step breaks it. The unlocked run is a behaviour
through exactly such a state. `AInv` adds that nothing
elapses on a timer that could not be created, and that an action is in one place,
which is what the refinement mapping needs; it does not need the lock.

`InsertionsKeepTime` follows from `Timing`, an invariant under the lock. `Placing` says that
while main places its action, what `Delay()` said is within a tick of what the timer had
left, which is what it has now and what has `passed`, and that each running action is due
by that; `Arming` that from then on what the timer is about to be armed with (`Loading`),
and the offsets, are in time for every action. No thread of `ISROSTimer()` moves an action in
between, because main holds the mutex (`MainAlone`), though the timer may run out and an
expiry start to wait.

For reception, `Shape` says that only the thread started last runs, and none between
`join()` and the next start, that an open socket is the one opened last, and that a
thread in `read()` has a socket no older than the one it registered; this gives
`OnePoller`. `Order` puts frames in a line, from `got` over the queue, the hand of the
thread and the socket it reads: `OnTheWay` for what the thread has read already, `ToCome`
for what it will read. The latter is the hard part, because `m_socket` may be exchanged
under the thread: it speaks of the open socket only while the thread has registered no
other, or has an event at hand, for then it will read that one, whatever the event was
for. `Restarting` says that the queue is empty and the new socket has nothing from
before the reset when the next thread starts.

For the interface, `Setting` and `Opening` say, step by step, what of the work of
`SetBitrate()` and `Open()` is done when nothing failed, and that the copy of the link is
right about the rest; `StoredRates` that no rate reaches the interface before it is
stored; `Closing` that the destructor's copy is current. For the main loop, `SentInTime`
bounds the age of an update that a TPDO has not carried by what its event timer has gone,
unless that has elapsed and waits for `NodeTick()`; after `NodeTick()` none waits, so that by
the time `Tick()` reads the clock the age is the event time and the gap at most, which
`ShortGap` keeps within the period. `TurnsInTime` keeps the moving bit below the one it turns
at.

For the command line, `Line` speaks of the token that is read next: launchArgs has the
options that stand before it in the order of reading (`Told`), and of the interfaces among
them its value is that of the `Winner`; when nothing is left (`AllSeen`), that is the whole
line, so that what main decides then depends on all of it. `KeptTokens` justifies the steps
over blanks that `Split()` drops, by going down from the end of the argument.

For the dictionary, `Mapped` is the smaller invariant: `Packed` says that the bits and the
number of objects of the mapping under way are bounded, so that the subindex never wraps,
and `Entered` that each object so far has its entry. `Whole` adds what is in the
dictionary after so many calls of `AllocateObjects()`. `Progress` says which call is next,
`Claimed` that each entry has an address that one of the calls done *claims* (a mapping
claims the 65 it may need), `Made` and `Filled` that each of those calls left what it was to
leave, and `Packing` that the mapping under way carries the objects a first fit chooses of
those looked at. Neither `StorageLive` nor the uniqueness of addresses is inductive without
`Claimed` and `Progress`: a call may find its address taken unless all addresses come from
earlier calls. `ClaimedOnce` then says that no two of the 26 calls claim the same address;
it needs the numbers of the TPDOs to differ after they were clamped (`NumberAssumption`).

What the sorted dictionary, the search, the counts and the sums are is a matter of data,
proved in `ObjDictProofs`. The installed provers cannot use the library's induction
theorems, which take a predicate as parameter; but a least counterexample does the same, and
there is one, because inclusion of finite sets is well-founded (`LeastNumber`, `LeastSet`).
`Ranking` says that elements with different keys have the ranks 0 to n - 1, one each, which
is why `Sort` is well-defined and ordered (`SortOrders`); `BisectionFinds` that the search
has no other solution than what a scan finds; `TotalRemove` that the order of the summands
does not matter to the folded sum; `ChosenNext` and `ChosenFull` that the loop of
`DefineTPDOMapping()` chooses as a first fit does, also when it stops at 64 bits.

For transmission, `GateHeld` says that main is past the gate only with the counter
within the threshold, which bounds the counter; `Settled` that when the polling thread waits
for a frame, `m_busOff` is what the frame before said, which between `PollError` and
`PollStore` it need not be; `LateOnce` that a frame can be late only while that frame was a
report of bus-off and `m_busOff` is still set, and never with main about to write another,
because the check before the write turns main away. `NamedBusOff` rests on `Settled` and on
the tables.

For storage, `Writing` says that the arguments of a write under way are a request, that the
gap is open before the filler and closed before the data, and that the stream is good until
the step that ends the write. `FillKeeps` (the filler changes no byte) and `OverwrittenPuts`
(the data change the bytes `Put` says) carry both `AckedIsStored` and the refinement, in
which `InitNvm` and `Kill` are `Open`, `NotReady` is `Refuse`, `WriteCall` and the filler
stutter, and a filler or data that the disk refused are a torn save.

Only model-checked: every liveness property (`EveryTimerElapses`, `StopIsHeard`,
`PolledIsRead`, `SendsResume`) and the fairness part of `ImplementsAlarms`, because
liveness and `ENABLED` are beyond the prover. Every invariant and every action property
that the passing runs check is stated by a theorem. No module uses a `RECURSIVE` operator.

## 5. Not modelled

* Code that nothing calls: `SocketCAN::Receive`, `RemoveOSTimer`, `BusLoad` (and with it
  the statistics of `UpdateStats` and `FrameBitLength`), `TriggerTPDO`, which would change
  the stack's state without `m_dataMtx`, `DumpBuffer`, `GetFileSize`. `Reset` changes
  nothing.
* Logging, hexadecimal dumps, build files; the branch of `Split()` for separators of
  several characters (`utils.hpp:67`), which no caller uses; of `TranslateErrorFrame` the
  wording, the bit of a lost arbitration and the faults of the transceiver.
* The inside of the stack beyond its use of the drivers: the modes of the node, SDO, NMT,
  whether `CONodeInit` starts a timer, what it makes of a frame without data, of an error
  of `CONodeInit` (which is only logged), of objects that a TPDO maps.
* The destruction of the node while an expiry thread may still use `s_tmr`: whether
  `CONodeStop` stops the timers is not in the repository.
* `Init(0)` of the timer driver, a division by zero: the only caller passes 500000.
* Descriptor leaks (`socketcan.cpp:347`, `:487`), the unbounded receive queue and
  the rest of the hazards without a property: each has a note in `PROJECT.json`.
* In `Nvm`, the last attempt to write of a stream whose `flush()` failed.
* Data races on plain words are read as atomic accesses, except on the destroyed
  object, where any value is possible.

## 6. Plan

What could be added next, in order of importance:

1. With the sources of `lib/canopen-stack`: the external definitions of `TimerService`
   replaced by translations, which would settle `ServiceLocks` and the early elapse; then
   the modes of the node and the end of the process, with `TriggerTPDO`.
2. The composition of `CanReceive` and `CanTransmit`, which share `m_socket` and the
   polling thread: transmission now sees a socket that is open or not.
