--------------------------- MODULE CanLinkProofs ---------------------------
(***************************************************************************)
(* What holds of CanLink for every set of bit rates, whatever state the    *)
(* interface was in and whichever calls of netlink fail.                   *)
(***************************************************************************)
EXTENDS CanLink, TLAPS

\* The states of Open(), and what the first Open() has to do yet.
FirstOpen == {"openRate", "openQueue", "openUp"}
SecondOpen == {"reopenRate", "reopenQueue", "reopenUp"}

\* SetBitrate() that has met no failure has done what the steps it is past do; its
\* copy of the link is right about what is still to be done.
Setting ==
  ~meddled /\ ok =>
    /\ pc = "down" => link = Current
    /\ pc = "rate" => link.valid /\ link.rate = rate /\ link.long = long
    /\ pc = "queue" => link.valid /\ link.long = long
    /\ pc \in {"rate", "queue", "store", "open"} => ~up
    /\ pc = "store" => long

\* After that, as long as netlink does not fail, the first Open() applies the stored
\* bit rate to an interface that is down, and the second finds nothing to do.
Opening ==
  ~meddled /\ ok /\ ~openFailed =>
    /\ pc \in {"open", "reopen"} \cup FirstOpen \cup SecondOpen => long /\ bitrate = asked
    /\ pc = "openRate" => ~up /\ link = Current
    /\ pc \in {"openQueue", "openUp"} => rate = asked /\ link.valid /\ link.long /\ ~link.up
    /\ pc \in {"reopen"} \cup SecondOpen => up /\ rate = asked
    /\ pc \in SecondOpen => link = Current

\* No rate reaches the interface before it is stored; what was said of the one before
\* is forgotten until then.
StoredRates ==
  /\ pc \in {"down", "rate", "queue", "store"} => told = "none"
  /\ ~meddled /\ told # "running" => rate \in {before, bitrate}

\* The destructor knows whether the interface is up.
Closing == pc = "closing" /\ ~meddled /\ ~openFailed => link = Current

Inv == TypeOK /\ Setting /\ Opening /\ EnableApplies /\ StoredRates /\ Closing /\ ClosedIsDown

-----------------------------------------------------------------------------

LEMMA InitInv == Init => Inv
<1> SUFFICES ASSUME Init PROVE Inv
  OBVIOUS
<1>1. NoLink \in Link
  BY DEF NoLink, Link
<1>2. TypeOK
  BY <1>1, RateAssumption DEF Init, TypeOK
<1> QED
  BY <1>2
DEF Init, Inv, TypeOK, Setting, Opening, FirstOpen, SecondOpen, EnableApplies, StoredRates,
    Closing, ClosedIsDown, Link, NoLink

\* What a function of netlink can have done to the interface.
Did(already, u, r, l, done) ==
  /\ present' = present /\ up' \in BOOLEAN /\ long' \in BOOLEAN
  /\ rate' \in Rates \cup {Unset}
  /\ up' => present' /\ rate' # Unset
  /\ done => link.valid
  /\ done /\ ~already => up' = u /\ rate' = r /\ long' = l
  /\ ~done \/ already => up' = up /\ rate' = rate /\ long' = long

LEMMA Changed ==
  ASSUME TypeOK, NEW u \in BOOLEAN, NEW r \in Rates \cup {Unset}, NEW l \in BOOLEAN,
         NEW done \in BOOLEAN, NEW already \in BOOLEAN, Netlink(already, u, r, l, done)
  PROVE  Did(already, u, r, l, done)
<1>1. CASE UNCHANGED ifaceVars /\ done = FALSE
  BY <1>1 DEF TypeOK, Did, ifaceVars
<1>2. CASE UNCHANGED ifaceVars /\ already /\ link.valid
  BY <1>2 DEF TypeOK, Did, ifaceVars, Link
<1>3. CASE /\ done = TRUE /\ ~already /\ link.valid /\ present
           /\ u => r # Unset
           /\ up' = u /\ rate' = r /\ long' = l /\ UNCHANGED present
  BY <1>3 DEF TypeOK, Did
<1>4. link.valid \in BOOLEAN
  BY DEF TypeOK, Link
<1> QED
  BY <1>1, <1>2, <1>3, <1>4 DEF Netlink, KernelSet

LEMMA BringDownDid ==
  ASSUME TypeOK, NEW done \in BOOLEAN, BringDown(done)
  PROVE  Did(~link.up, FALSE, rate, long, done)
<1>1. (~link.up) \in BOOLEAN /\ FALSE \in BOOLEAN /\ rate \in Rates \cup {Unset} /\ long \in BOOLEAN
  BY DEF TypeOK, Link
<1>2. Netlink(~link.up, FALSE, rate, long, done)
  BY DEF BringDown
<1> QED
  BY ONLY TypeOK, <1>1, <1>2, done \in BOOLEAN, Changed

LEMMA BringUpDid ==
  ASSUME TypeOK, NEW done \in BOOLEAN, BringUp(done)
  PROVE  Did(link.up, TRUE, rate, long, done)
<1>1. link.up \in BOOLEAN /\ TRUE \in BOOLEAN /\ rate \in Rates \cup {Unset} /\ long \in BOOLEAN
  BY DEF TypeOK, Link
<1>2. Netlink(link.up, TRUE, rate, long, done)
  BY DEF BringUp
<1> QED
  BY ONLY TypeOK, <1>1, <1>2, done \in BOOLEAN, Changed

LEMMA RateDid ==
  ASSUME TypeOK, NEW r \in Rates, NEW done \in BOOLEAN, CANSetBitrate(r, done)
  PROVE  Did(link.rate = r, up, r, long, done)
<1> DEFINE same == link.rate = r
<1>1. up \in BOOLEAN /\ r \in Rates \cup {Unset} /\ long \in BOOLEAN
  BY DEF TypeOK
<1>2. Netlink(same, up, r, long, done)
  BY DEF CANSetBitrate
<1>3. same \in BOOLEAN
  OBVIOUS
<1>4. Did(same, up, r, long, done)
  <2> HIDE DEF same
  <2> QED BY ONLY TypeOK, <1>1, <1>2, <1>3, done \in BOOLEAN, Changed
<1> QED
  BY <1>4

LEMMA QueueDid ==
  ASSUME TypeOK, NEW done \in BOOLEAN, SetTXQueueLen(done)
  PROVE  Did(link.long, up, rate, TRUE, done)
BY Changed DEF SetTXQueueLen, TypeOK, Link

\* The interface has the type it is given whatever netlink does to it.
LEMMA Copied ==
  ASSUME TypeOK, GetLink
  PROVE  link' \in Link /\ (link'.valid => link' = Current /\ present)
<1>1. Current \in Link /\ NoLink \in Link /\ NoLink.valid = FALSE
  BY DEF Current, NoLink, Link, TypeOK
<1> QED
  BY <1>1 DEF GetLink

LEMMA EnableInv == Inv /\ Enable => Inv'
<1> SUFFICES ASSUME Inv, Enable PROVE Inv'
  OBVIOUS
<1>1. link' \in Link /\ (link'.valid => link' = Current)
  BY Copied DEF Inv, Enable
<1>2. /\ pc' = "down" /\ asked' \in Rates /\ ok' = link'.valid /\ told' = "none"
      /\ meddled' = FALSE /\ openFailed' = FALSE /\ before' = rate
      /\ UNCHANGED <<bitrate, present, up, rate, long>>
  BY DEF Enable, Goto, ifaceVars
<1>3. Current' = Current
  BY <1>2 DEF Current
<1>4. ok' \in BOOLEAN
  BY <1>1, <1>2 DEF Link
<1> QED
  BY <1>1, <1>2, <1>3, <1>4
  DEF Inv, TypeOK, Setting, Opening, FirstOpen, SecondOpen, EnableApplies, StoredRates,
      Closing, ClosedIsDown

LEMMA SetBitrateInv == Inv /\ SetBitrateStep => Inv'
<1> SUFFICES ASSUME Inv, NEW done \in BOOLEAN,
                    \/ Goto("down", "rate") /\ BringDown(done)
                    \/ Goto("rate", "queue") /\ SetStoredRate(done)
                    \/ Goto("queue", "store") /\ SetTXQueueLen(done),
                    ok' = (ok /\ done),
                    UNCHANGED <<callVars, bitrate, link, historyVars>>
             PROVE  Inv'
  BY DEF SetBitrateStep
<1>0. /\ UNCHANGED <<asked, told, bitrate, link, meddled, openFailed, before>>
      /\ ok' \in BOOLEAN
  BY DEF callVars, historyVars, Inv, TypeOK
<1> USE DEF Inv, TypeOK, Setting, Opening, FirstOpen, SecondOpen, EnableApplies, StoredRates,
            Closing, ClosedIsDown, Goto
<1>1. CASE Goto("down", "rate") /\ BringDown(done)
  <2>1. Did(~link.up, FALSE, rate, long, done)
    BY <1>1, BringDownDid
  <2> QED BY <1>0, <1>1, <2>1 DEF Did, Current, Link
<1>2. CASE Goto("rate", "queue") /\ SetStoredRate(done)
  <2>1. Did(link.rate = bitrate, up, bitrate, long, done)
    BY <1>2, RateDid DEF SetStoredRate
  <2> QED BY <1>0, <1>2, <2>1 DEF Did
<1>3. CASE Goto("queue", "store") /\ SetTXQueueLen(done)
  <2>1. Did(link.long, up, rate, TRUE, done)
    BY <1>3, QueueDid
  <2> QED BY <1>0, <1>3, <2>1 DEF Did
<1> QED
  BY <1>1, <1>2, <1>3

LEMMA StoreInv == Inv /\ StoreBitrate => Inv'
<1> SUFFICES ASSUME Inv, StoreBitrate PROVE Inv'
  OBVIOUS
<1>1. /\ pc = "store" /\ pc' = "open"
      /\ bitrate' = IF ok THEN asked ELSE bitrate
      /\ told' = IF bitrate' = asked THEN "running" ELSE "failed"
      /\ UNCHANGED <<asked, link, ok, present, up, rate, long, meddled, openFailed, before>>
  BY DEF StoreBitrate, StoreIfOk, Goto, ifaceVars, historyVars
<1> QED
  BY <1>1
  DEF Inv, TypeOK, Setting, Opening, FirstOpen, SecondOpen, EnableApplies, StoredRates,
      Closing, ClosedIsDown

LEMMA OpenCallInv == Inv /\ OpenCall => Inv'
<1> SUFFICES ASSUME Inv, OpenCall PROVE Inv'
  OBVIOUS
<1>1. link' \in Link /\ (link'.valid => link' = Current)
  BY Copied DEF Inv, OpenCall
<1>2. /\ \/ pc = "open" /\ pc' = "openRate"
         \/ pc = "reopen" /\ pc' = "reopenRate"
      /\ openFailed' = (openFailed \/ ~link'.valid)
      /\ UNCHANGED <<asked, told, bitrate, ok, present, up, rate, long, meddled, before>>
  BY DEF OpenCall, Goto, ifaceVars, callVars
<1>3. Current' = Current
  BY <1>2 DEF Current
<1>4. openFailed' \in BOOLEAN /\ (~openFailed' => ~openFailed /\ link' = Current)
  <2>1. link'.valid \in BOOLEAN /\ openFailed \in BOOLEAN
    BY <1>1 DEF Inv, TypeOK, Link
  <2> QED BY <1>1, <1>2, <2>1
<1>5. Current.up = up /\ Current.rate = rate /\ Current.long = long
  BY DEF Current
<1> QED
  BY <1>1, <1>2, <1>3, <1>4, <1>5
  DEF Inv, TypeOK, Setting, Opening, FirstOpen, SecondOpen, EnableApplies, StoredRates,
      Closing, ClosedIsDown

LEMMA OpenStepInv == Inv /\ OpenStep => Inv'
<1> SUFFICES ASSUME Inv, NEW done \in BOOLEAN,
                    \/ Goto("openRate", "openQueue") /\ OpenRate(done)
                    \/ Goto("openQueue", "openUp") /\ SetTXQueueLen(done)
                    \/ Goto("openUp", "reopen") /\ BringUp(done)
                    \/ Goto("reopenRate", "reopenQueue") /\ OpenRate(done)
                    \/ Goto("reopenQueue", "reopenUp") /\ SetTXQueueLen(done)
                    \/ Goto("reopenUp", "idle") /\ BringUp(done),
                    openFailed' = (openFailed
                                     \/ (~done /\ ~(pc \in {"openRate", "reopenRate"} /\ up))),
                    link' = (IF pc = "reopenUp" THEN NoLink ELSE link),
                    UNCHANGED <<callVars, bitrate, ok, meddled, before>>
             PROVE  Inv'
  BY DEF OpenStep
<1>0. /\ UNCHANGED <<asked, told, bitrate, ok, meddled, before>>
      /\ openFailed' \in BOOLEAN /\ link' \in Link
  BY DEF callVars, Inv, TypeOK, NoLink, Link
<1> USE DEF Inv, TypeOK, Setting, Opening, FirstOpen, SecondOpen, EnableApplies, StoredRates,
            Closing, ClosedIsDown, Goto
<1>1. CASE Goto("openRate", "openQueue") /\ OpenRate(done)
  <2>1. Did(link.rate = bitrate, up, bitrate, long, done)
    BY <1>1, RateDid DEF OpenRate
  <2> QED BY <1>0, <1>1, <2>1 DEF Did, Current, Link
<1>2. CASE Goto("openQueue", "openUp") /\ SetTXQueueLen(done)
  <2>1. Did(link.long, up, rate, TRUE, done)
    BY <1>2, QueueDid
  <2> QED BY <1>0, <1>2, <2>1 DEF Did, Link
<1>3. CASE Goto("openUp", "reopen") /\ BringUp(done)
  <2>1. Did(link.up, TRUE, rate, long, done)
    BY <1>3, BringUpDid
  <2> QED BY <1>0, <1>3, <2>1 DEF Did, Link
<1>4. CASE Goto("reopenRate", "reopenQueue") /\ OpenRate(done)
  <2>1. Did(link.rate = bitrate, up, bitrate, long, done)
    BY <1>4, RateDid DEF OpenRate
  <2> QED BY <1>0, <1>4, <2>1 DEF Did, Current, Link
<1>5. CASE Goto("reopenQueue", "reopenUp") /\ SetTXQueueLen(done)
  <2>1. Did(link.long, up, rate, TRUE, done)
    BY <1>5, QueueDid
  <2> QED BY <1>0, <1>5, <2>1 DEF Did, Current, Link
<1>6. CASE Goto("reopenUp", "idle") /\ BringUp(done)
  <2>1. Did(link.up, TRUE, rate, long, done)
    BY <1>6, BringUpDid
  <2> QED BY <1>0, <1>6, <2>1 DEF Did, Current, Link
<1> QED
  BY <1>1, <1>2, <1>3, <1>4, <1>5, <1>6

LEMMA CloseInv == Inv /\ (CloseCall \/ CloseDown) => Inv'
<1> SUFFICES ASSUME Inv, CloseCall \/ CloseDown PROVE Inv'
  OBVIOUS
<1>1. CASE CloseCall
  <2>1. link' \in Link /\ (link'.valid => link' = Current)
    BY <1>1, Copied DEF Inv, CloseCall
  <2>2. /\ pc = "idle" /\ pc' = "closing" /\ told' = "none"
        /\ meddled' = FALSE /\ openFailed' = ~link'.valid /\ before' = rate
        /\ UNCHANGED <<asked, bitrate, ok, present, up, rate, long>>
    BY <1>1 DEF CloseCall, Goto, ifaceVars
  <2>3. Current' = Current
    BY <2>2 DEF Current
  <2>4. openFailed' \in BOOLEAN /\ (~openFailed' => link' = Current)
    BY <2>1, <2>2 DEF Link
  <2> QED
    BY <2>1, <2>2, <2>3, <2>4
    DEF Inv, TypeOK, Setting, Opening, FirstOpen, SecondOpen, EnableApplies, StoredRates,
        Closing, ClosedIsDown
<1>2. CASE CloseDown
  <2>1. PICK done \in BOOLEAN : BringDown(done) /\ openFailed' = (openFailed \/ ~done)
    BY <1>2 DEF CloseDown
  <2>2. Did(~link.up, FALSE, rate, long, done)
    BY <2>1, BringDownDid DEF Inv
  <2>3. /\ pc = "closing" /\ pc' = "closed"
        /\ UNCHANGED <<asked, told, bitrate, link, ok, meddled, before>>
    BY <1>2 DEF CloseDown, Goto, callVars
  <2>4. openFailed' \in BOOLEAN /\ (~openFailed' => ~openFailed /\ done)
    BY <2>1 DEF Inv, TypeOK
  <2> QED
    BY <2>2, <2>3, <2>4
    DEF Did, Current, Link, Inv, TypeOK, Setting, Opening, FirstOpen, SecondOpen,
        EnableApplies, StoredRates, Closing, ClosedIsDown
<1> QED
  BY <1>1, <1>2

\* Once others have touched the interface, only its type is claimed.
LEMMA OthersInv == Inv /\ (Unplug \/ Plug \/ Administer) => Inv'
<1> SUFFICES ASSUME Inv, Unplug \/ Plug \/ Administer PROVE Inv'
  OBVIOUS
<1>1. /\ meddled' = TRUE
      /\ UNCHANGED <<pc, asked, told, bitrate, link, ok, openFailed, before>>
  BY DEF Unplug, Plug, Administer, callVars
<1>2. /\ present' \in BOOLEAN /\ up' \in BOOLEAN /\ long' \in BOOLEAN
      /\ rate' \in Rates \cup {Unset}
      /\ up' => present' /\ rate' # Unset
  <2>1. CASE Unplug
    BY <2>1 DEF Unplug
  <2>2. CASE Plug
    BY <2>2 DEF Plug, Inv, TypeOK
  <2>3. CASE Administer
    BY <2>3, RateAssumption DEF Administer, Inv, TypeOK
  <2> QED BY <2>1, <2>2, <2>3
<1> QED
  BY <1>1, <1>2
  DEF Inv, TypeOK, Setting, Opening, EnableApplies, StoredRates, Closing, ClosedIsDown

LEMMA NextInv == Inv /\ [Next]_vars => Inv'
<1> SUFFICES ASSUME Inv, [Next]_vars PROVE Inv'
  OBVIOUS
<1>1. CASE UNCHANGED vars
  BY <1>1
  DEF Inv, TypeOK, Setting, Opening, EnableApplies, StoredRates, Closing, ClosedIsDown,
      Current, vars, callVars, ifaceVars, historyVars
<1> QED
  BY <1>1, EnableInv, SetBitrateInv, StoreInv, OpenCallInv, OpenStepInv, CloseInv, OthersInv
  DEF Next

LEMMA Invariant == Spec => []Inv
BY InitInv, NextInv, PTL DEF Spec

-----------------------------------------------------------------------------

\* Every variable has its type, and an interface that is up has a bit rate.
THEOREM TypeCorrect == Spec => []TypeOK
<1>1. Inv => TypeOK
  BY DEF Inv
<1> QED
  BY <1>1, Invariant, PTL

\* Enable() brings the interface up with the bit rate that was asked for, although
\* SetBitrate() applies the old one, whatever the interface was like.
THEOREM RateApplied == Spec => []EnableApplies
<1>1. Inv => EnableApplies
  BY DEF Inv
<1> QED
  BY <1>1, Invariant, PTL

\* A bit rate that Enable() reports to have failed is not in use.
THEOREM FailedRateUnused == Spec => []FailureKeepsRate
<1>1. Inv => FailureKeepsRate
  BY DEF Inv, StoredRates, FailureKeepsRate
<1> QED
  BY <1>1, Invariant, PTL

\* The destructor leaves the interface down.
THEOREM DownAtTheEnd == Spec => []ClosedIsDown
<1>1. Inv => ClosedIsDown
  BY DEF Inv
<1> QED
  BY <1>1, Invariant, PTL

=============================================================================
