------------------------------ MODULE CanLink ------------------------------
(***************************************************************************)
(* What the CAN driver does to the network interface: its bit rate, its    *)
(* queue length, up and down, over netlink (src/lib/socketcan/socketcan.cpp *)
(* called from src/src/co_can_linux.cpp).  Every netlink function works on *)
(* a copy of the link read beforehand, does nothing when the copy already  *)
(* says what it wants, and may fail.  Most callers ignore that.            *)
(*                                                                         *)
(* Meanwhile the interface can be pulled out and plugged in again, and an  *)
(* administrator can take it up and down.                                  *)
(***************************************************************************)
EXTENDS Naturals

CONSTANTS
  Rates,   \* the bit rates that are used
  Default, \* the one a SocketCAN object starts with
  Unset    \* the bit rate of an interface that was never configured

ASSUME RateAssumption == Default \in Rates /\ Unset \notin Rates

VARIABLES
  pc,         \* what main does next
  asked,      \* the argument of the last Enable()
  bitrate,    \* m_bitrate
  link,       \* the copy of the interface, or NoLink
  ok,         \* the ok of SetBitrate()
  told,       \* what Enable() said last: "none", "running" or "failed"
  present,    \* the interface: is there one
  up,         \* IFF_UP
  rate,       \* its bit rate
  long,       \* is its transmit queue 1000 frames long
  meddled,    \* history: others touched it since the call began
  openFailed, \* history: netlink failed in Open() or the destructor since then
  before      \* history: the bit rate then

ifaceVars == <<present, up, rate, long>>
callVars == <<asked, told>>
historyVars == <<meddled, openFailed, before>>
vars == <<pc, callVars, bitrate, link, ok, ifaceVars, historyVars>>

NoLink == [up |-> FALSE, rate |-> Unset, long |-> FALSE, valid |-> FALSE]
Link == [up : BOOLEAN, rate : Rates \cup {Unset}, long : BOOLEAN, valid : BOOLEAN]
Current == [up |-> up, rate |-> rate, long |-> long, valid |-> TRUE]

Init ==
  /\ pc = "idle" /\ asked = Default /\ told = "none"
  /\ bitrate = Default
  /\ link = NoLink /\ ok = TRUE
  /\ present \in BOOLEAN /\ rate \in Rates \cup {Unset} /\ long \in BOOLEAN
  /\ up \in BOOLEAN /\ (up => present /\ rate # Unset)
  /\ meddled = FALSE /\ openFailed = FALSE /\ before = rate

-----------------------------------------------------------------------------
(* Netlink.                                                                *)

\* Netlink_Connect() and Netlink_GetInterface(): both may fail.
GetLink == link' \in {NoLink} \cup (IF present THEN {Current} ELSE {})

\* What the kernel makes of a change, and whether it says so: it may refuse any,
\* it refuses to change the bit rate of an interface that is up, and to bring up
\* one that has none.
KernelSet(u, r, l, done) ==
  \/ done = FALSE /\ UNCHANGED ifaceVars
  \/ /\ present /\ done = TRUE
     /\ r # rate => ~up
     /\ u => r # Unset
     /\ up' = u /\ rate' = r /\ long' = l
     /\ UNCHANGED present

\* A function of netlink with the change it makes: nothing without a link, nothing
\* when the copy has it already.
Netlink(already, u, r, l, done) ==
  IF ~link.valid THEN done = FALSE /\ UNCHANGED ifaceVars
  ELSE IF already THEN done = TRUE /\ UNCHANGED ifaceVars
  ELSE KernelSet(u, r, l, done)

\* Bringing down an interface by setting no flag at all.
DownSkipped(done) == Netlink(TRUE, FALSE, rate, long, done)

BringDown(done) == Netlink(~link.up, FALSE, rate, long, done)
BringUp(done) == Netlink(link.up, TRUE, rate, long, done)
CANSetBitrate(r, done) == Netlink(link.rate = r, up, r, long, done)
SetTXQueueLen(done) == Netlink(link.long, up, rate, TRUE, done)

-----------------------------------------------------------------------------
(* Enable().  A failure in SetBitrate() is kept in ok, one in Open() is not *)
(* even looked at.                                                         *)

Goto(from, to) == pc = from /\ pc' = to

Enable ==
  /\ Goto("idle", "down")
  /\ asked' \in Rates
  /\ GetLink
  /\ ok' = link'.valid
  /\ told' = "none"
  /\ meddled' = FALSE /\ openFailed' = FALSE /\ before' = rate
  /\ UNCHANGED <<bitrate, ifaceVars>>

\* SetBitrate() that applies the new bit rate before it knows that all is well.
SetAskedRate(done) == CANSetBitrate(asked, done)

SetStoredRate(done) == CANSetBitrate(bitrate, done)

SetBitrateStep ==
  /\ \E done \in BOOLEAN :
       /\ \/ Goto("down", "rate") /\ BringDown(done)
          \/ Goto("rate", "queue") /\ SetStoredRate(done)
          \/ Goto("queue", "store") /\ SetTXQueueLen(done)
       /\ ok' = (ok /\ done)
  /\ UNCHANGED <<callVars, bitrate, link, historyVars>>

\* Storing what the copy says, which was read before anything was set.
StoreLinkRate == bitrate' = IF ok THEN link.rate ELSE bitrate

\* The bit rate applied above is the old one; the new one is stored for Open().
StoreIfOk == bitrate' = IF ok THEN asked ELSE bitrate

\* Enable() reports success when the stored bit rate is the one asked for.
StoreBitrate ==
  /\ Goto("store", "open")
  /\ StoreIfOk
  /\ told' = IF bitrate' = asked THEN "running" ELSE "failed"
  /\ UNCHANGED <<asked, link, ok, ifaceVars, historyVars>>

\* Open(), twice: the socket has been closed each time.
OpenCall ==
  /\ \/ Goto("open", "openRate")
     \/ Goto("reopen", "reopenRate")
  /\ GetLink
  /\ openFailed' = (openFailed \/ ~link'.valid)
  /\ UNCHANGED <<callVars, bitrate, ok, ifaceVars, meddled, before>>

\* Open() that leaves the bit rate alone.
OpenKeepsRate(done) == done = TRUE /\ UNCHANGED ifaceVars

OpenRate(done) == CANSetBitrate(bitrate, done)

\* A refusal that the kernel's rules make necessary is not a failure of netlink.
OpenStep ==
  /\ \E done \in BOOLEAN :
       /\ \/ Goto("openRate", "openQueue") /\ OpenRate(done)
          \/ Goto("openQueue", "openUp") /\ SetTXQueueLen(done)
          \/ Goto("openUp", "reopen") /\ BringUp(done)
          \/ Goto("reopenRate", "reopenQueue") /\ OpenRate(done)
          \/ Goto("reopenQueue", "reopenUp") /\ SetTXQueueLen(done)
          \/ Goto("reopenUp", "idle") /\ BringUp(done)
       /\ openFailed' = (openFailed \/ (~done /\ ~(pc \in {"openRate", "reopenRate"} /\ up)))
  /\ link' = IF pc = "reopenUp" THEN NoLink ELSE link
  /\ UNCHANGED <<callVars, bitrate, ok, meddled, before>>

\* Close(): the destructor of SocketCAN takes the interface down.
CloseCall ==
  /\ Goto("idle", "closing")
  /\ GetLink
  /\ told' = "none"
  /\ meddled' = FALSE /\ openFailed' = ~link'.valid /\ before' = rate
  /\ UNCHANGED <<asked, bitrate, ok, ifaceVars>>

CloseDown ==
  /\ Goto("closing", "closed")
  /\ \E done \in BOOLEAN : BringDown(done) /\ openFailed' = (openFailed \/ ~done)
  /\ UNCHANGED <<callVars, bitrate, link, ok, meddled, before>>

-----------------------------------------------------------------------------
(* The others.                                                             *)

Unplug ==
  /\ present
  /\ present' = FALSE /\ up' = FALSE /\ rate' = Unset /\ long' = FALSE
  /\ meddled' = TRUE
  /\ UNCHANGED <<pc, callVars, bitrate, link, ok, openFailed, before>>

Plug ==
  /\ ~present
  /\ present' = TRUE
  /\ UNCHANGED <<up, rate, long>>
  /\ meddled' = TRUE
  /\ UNCHANGED <<pc, callVars, bitrate, link, ok, openFailed, before>>

Administer ==
  /\ present /\ rate # Unset
  /\ up' = ~up
  /\ IF up THEN UNCHANGED rate ELSE rate' \in Rates
  /\ UNCHANGED <<present, long>>
  /\ meddled' = TRUE
  /\ UNCHANGED <<pc, callVars, bitrate, link, ok, openFailed, before>>

Next ==
  \/ Enable \/ SetBitrateStep \/ StoreBitrate \/ OpenCall \/ OpenStep
  \/ CloseCall \/ CloseDown
  \/ Unplug \/ Plug \/ Administer

Spec == Init /\ [][Next]_vars

-----------------------------------------------------------------------------
(* Properties.                                                             *)

\* Every variable has its type, and an interface that is up has a bit rate.
TypeOK ==
  /\ pc \in {"idle", "down", "rate", "queue", "store", "open", "openRate", "openQueue",
             "openUp", "reopen", "reopenRate", "reopenQueue", "reopenUp", "closing", "closed"}
  /\ asked \in Rates /\ bitrate \in Rates
  /\ link \in Link /\ ok \in BOOLEAN
  /\ told \in {"none", "running", "failed"}
  /\ present \in BOOLEAN /\ up \in BOOLEAN /\ long \in BOOLEAN
  /\ rate \in Rates \cup {Unset}
  /\ up => present /\ rate # Unset
  /\ meddled \in BOOLEAN /\ openFailed \in BOOLEAN
  /\ before \in Rates \cup {Unset}

\* When neither Enable() nor Open() met a failure and nobody meddles, the interface
\* is up with the bit rate that was asked for and a long queue, whatever it was before.
EnableApplies ==
  pc = "idle" /\ told # "none" /\ ok /\ ~meddled /\ ~openFailed
    => up /\ rate = asked /\ long

\* A new bit rate that Enable() reports to have failed is not in use all the same,
\* whatever failed: the interface has the rate it had, or the one stored before.
FailureKeepsRate ==
  pc = "idle" /\ told = "failed" /\ ~meddled => rate \in {before, bitrate}

\* The driver leaves the interface down unless netlink fails.
ClosedIsDown == pc = "closed" /\ ~meddled /\ ~openFailed => ~up

\* The interface runs at the bit rate Enable() says it is running at, when nothing
\* fails in Open() and nobody meddles.
RunningAsTold ==
  pc = "idle" /\ told = "running" /\ ~meddled /\ ~openFailed => up /\ rate = asked

=============================================================================
