-------------------------- MODULE MCTimerService --------------------------
\* Two actions, as the node has them: the cyclic event timer of a TPDO and its
\* one-shot inhibit timer.  Three delays make a new action earlier than, as late
\* as, and later than the head.  A tick of 2 ns and a second of 4 ns let a reload have
\* nanoseconds only, seconds only and both, and leave Delay() a rest to cut.
EXTENDS TimerService

CONSTANTS event, inhibit

MCActs == {event, inhibit}
MCDelays == 1..3
MCCycle == [a \in MCActs |-> IF a = event THEN 3 ELSE 0]

=============================================================================
