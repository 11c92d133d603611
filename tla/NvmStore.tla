------------------------------ MODULE NvmStore ------------------------------
(***************************************************************************)
(* What the non-volatile storage driver promises: an array of bytes,       *)
(* zeroed where nothing was ever written, in which a Write() is one step.  *)
(* There is no file, no gap and no stream here, only the question whether  *)
(* the storage is usable.                                                  *)
(***************************************************************************)
EXTENDS Naturals, Sequences

CONSTANTS
  Byte,     \* the values of a byte, 0 among them
  Capacity, \* the number of bytes the requests reach (a bound)
  Width     \* the values of an uint32_t are 0..(Width - 1)

Address == 0..(Capacity - 1)
Data == UNION {[1..n -> Byte] : n \in 0..Capacity}

VARIABLES
  cells,  \* the bytes
  broken, \* the storage answers nothing any more
  answer  \* the last answer: how many bytes, and the bytes read

vars == <<cells, broken, answer>>

Answer(n, bytes) == [count |-> n, bytes |-> bytes]

Init ==
  /\ cells \in [Address -> Byte]
  /\ broken = TRUE
  /\ answer = Answer(0, <<>>)

\* The first k bytes of data, put at start.
Put(start, data, k) ==
  [a \in Address |-> IF a \in start..(start + k - 1) THEN data[a - start + 1] ELSE cells[a]]

\* The storage is made ready, or not, without touching what it holds.
Open == broken' \in BOOLEAN /\ UNCHANGED <<cells, answer>>

Refuse == broken /\ answer' = Answer(0, <<>>) /\ UNCHANGED <<cells, broken>>

\* A short answer is the last one.
Load(start, size) ==
  /\ ~broken
  /\ \E k \in 0..size :
       /\ answer' = Answer(k, [i \in 1..k |-> cells[start + i - 1]])
       /\ broken' = (k < size)
  /\ UNCHANGED cells

Save(start, data) ==
  /\ ~broken
  /\ cells' = Put(start, data, Len(data))
  /\ answer' = Answer(Len(data), <<>>)
  /\ UNCHANGED broken

\* The storage gives out on the way: a part is saved, and the count means nothing.
SaveTorn(start, data) ==
  /\ ~broken
  /\ \E k \in 0..Len(data) : cells' = Put(start, data, k)
  /\ \E n \in 0..(Width - 1) : answer' = Answer(n, <<>>)
  /\ broken' = TRUE

Next ==
  \/ Open \/ Refuse
  \/ \E start \in Address :
       \/ \E size \in 0..(Capacity - start) : Load(start, size)
       \/ \E data \in Data : Len(data) <= Capacity - start
                             /\ (Save(start, data) \/ SaveTorn(start, data))

Spec == Init /\ [][Next]_vars

=============================================================================
