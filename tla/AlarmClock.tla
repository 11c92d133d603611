----------------------------- MODULE AlarmClock -----------------------------
(***************************************************************************)
(* What the timer driver and the stack's soft timers promise together: an  *)
(* action that was started rings, and whoever started it hears of it.      *)
(* There is no clock, list, lock or thread here.                           *)
(***************************************************************************)
CONSTANTS
  Acts,  \* the actions that can be started
  Cycle  \* how often each repeats, 0 for a one-shot

VARIABLES
  works, \* could the hardware behind the clocks be had
  state  \* "idle", "running" or "ringing", for each action

vars == <<works, state>>

Init == works = FALSE /\ state = [a \in Acts |-> "idle"]

Boot == works' \in BOOLEAN /\ ~works /\ UNCHANGED state

StartAction(a) ==
  /\ state[a] = "idle"
  /\ state' = [state EXCEPT ![a] = "running"]
  /\ UNCHANGED works

\* The running actions in S end their wait together.
Ring(S) ==
  /\ works
  /\ S # {} /\ \A a \in S : state[a] = "running"
  /\ state' = [a \in Acts |-> IF a \in S THEN "ringing" ELSE state[a]]
  /\ UNCHANGED works

\* Main handles action a, and a cyclic one starts over.
Handle(a) ==
  /\ state[a] = "ringing"
  /\ state' = [state EXCEPT ![a] = IF Cycle[a] = 0 THEN "idle" ELSE "running"]
  /\ UNCHANGED works

RingIncluding(a) == \E S \in SUBSET Acts : a \in S /\ Ring(S)

Next ==
  \/ Boot
  \/ \E a \in Acts : StartAction(a) \/ Handle(a) \/ RingIncluding(a)

Spec == Init /\ [][Next]_vars

FairSpec ==
  /\ Spec
  /\ \A a \in Acts : WF_vars(RingIncluding(a)) /\ WF_vars(Handle(a))

=============================================================================
