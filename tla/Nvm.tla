-------------------------------- MODULE Nvm --------------------------------
(***************************************************************************)
(* The storage driver of src/src/co_nvm_linux.cpp: one std::fstream on one *)
(* file.  The stream's state is sticky: nothing in the driver clears it    *)
(* once an operation has failed.  The process may be killed at any moment, *)
(* and the file is what the next one finds.                                *)
(***************************************************************************)
EXTENDS Naturals, Sequences

CONSTANTS
  Byte,     \* the values of a byte
  Capacity, \* start + size of every request is at most this (a bound)
  Width     \* an uint32_t is counted modulo this

ASSUME ByteAssumption == 0 \in Byte
ASSUME CapacityAssumption == Capacity \in Nat \ {0}
ASSUME WidthAssumption == Width \in Nat /\ Capacity < Width

Address == 0..(Capacity - 1)
Data == UNION {[1..n -> Byte] : n \in 0..Capacity}

VARIABLES
  pc,     \* "off", "idle", or where Write() stands: "fill", "data"
  fail,   \* !s_nvmFile
  exists, \* is there a file of that name
  file,   \* the bytes of the file
  start,  \* the arguments of the Write() under way
  data,
  answer, \* what the last call returned, and the bytes it read
  acked   \* history: the bytes of this run as far as acknowledged

diskVars == <<exists, file>>
argVars == <<start, data>>
vars == <<pc, fail, diskVars, argVars, answer, acked>>

\* The byte at address a, zero where the file does not reach.
ByteAt(f, a) == IF a < Len(f) THEN f[a + 1] ELSE 0

Content(f) == [a \in Address |-> ByteAt(f, a)]

Answer(n, bytes) == [count |-> n, bytes |-> bytes]

Init ==
  /\ pc = "off" /\ fail = TRUE
  /\ exists \in BOOLEAN
  /\ file \in Data /\ (~exists => file = <<>>)
  /\ start = 0 /\ data = <<>>
  /\ answer = Answer(0, <<>>)
  /\ acked = Content(file)

-----------------------------------------------------------------------------

\* Init(): opened for reading and writing, a file that is not there is not created.
InitNvm ==
  /\ pc = "off"
  /\ pc' = "idle"
  /\ \/ exists /\ fail' = FALSE
     \/ fail' = TRUE
  /\ acked' = Content(file)
  /\ UNCHANGED <<diskVars, argVars, answer>>

\* The stream's state is cleared at every call.
StreamCleared == pc = "idle"

StreamGood == pc = "idle" /\ ~fail

\* Read() and Write() on a failed stream.
NotReady ==
  /\ pc = "idle" /\ ~StreamGood
  /\ answer' = Answer(0, <<>>)
  /\ UNCHANGED <<pc, fail, diskVars, argVars, acked>>

\* gcount(): what the file holds of the request.
GCount(from, size) ==
  IF from + size <= Len(file) THEN size ELSE IF from < Len(file) THEN Len(file) - from ELSE 0

\* Read(): fewer bytes than asked set the stream's end and fail bits.
Read(from, size) ==
  /\ StreamGood
  /\ LET k == GCount(from, size) IN
       /\ answer' = Answer(k, [i \in 1..k |-> ByteAt(file, from + i - 1)])
       /\ fail' = (k < size)
  /\ UNCHANGED <<pc, diskVars, argVars, acked>>

\* Write() asks for the size of the file first.
WriteCall(to, bytes) ==
  /\ StreamGood
  /\ pc' = IF Len(file) < to THEN "fill" ELSE "data"
  /\ start' = to /\ data' = bytes
  /\ UNCHANGED <<fail, diskVars, answer, acked>>

Zeros(n) == [i \in 1..n |-> 0]

\* The filler written where the stream stands, at the front for one.
FillFront(k) == IF k <= Len(file) THEN Zeros(k) \o SubSeq(file, k + 1, Len(file)) ELSE Zeros(k)

\* The filler goes behind the end.
FillEnd(k) == file \o Zeros(k)

\* The gap is filled; it is on the disk when seekp() returns.
WriteFill ==
  /\ pc = "fill"
  /\ pc' = "data"
  /\ file' = FillEnd(start - Len(file))
  /\ UNCHANGED <<fail, exists, argVars, answer, acked>>

\* The disk takes a part of the filler, and seekp() fails.
WriteFillFails ==
  /\ pc = "fill"
  /\ pc' = "idle"
  /\ \E k \in 0..(start - Len(file) - 1) : file' = FillEnd(k)
  /\ fail' = TRUE
  /\ answer' = Answer(0, <<>>)
  /\ start' = 0 /\ data' = <<>>
  /\ UNCHANGED <<exists, acked>>

\* A file opened to append to.
Appended(k) == file \o SubSeq(data, 1, k)

\* The file with the first k bytes of the data in it.
Overwritten(k) ==
  [i \in 1..(IF start + k > Len(file) THEN start + k ELSE Len(file)) |->
     IF i \in (start + 1)..(start + k) THEN data[i - start] ELSE file[i]]

\* The bytes the caller takes to be stored.
Acknowledged ==
  [a \in Address |->
     IF a \in start..(start + Len(data) - 1) THEN data[a - start + 1] ELSE acked[a]]

\* tellp() is behind the data, so their length is returned.
WriteData ==
  /\ pc = "data"
  /\ pc' = "idle"
  /\ file' = Overwritten(Len(data))
  /\ answer' = Answer(Len(data), <<>>)
  /\ acked' = Acknowledged
  /\ start' = 0 /\ data' = <<>>
  /\ UNCHANGED <<fail, exists>>

\* The disk takes a part of the data.  What was buffered is still reported as
\* written, since only flush() fails; otherwise tellp() yields -1.
WriteDataFails ==
  /\ pc = "data"
  /\ pc' = "idle"
  /\ \E k \in 0..Len(data) : file' = Overwritten(k)
  /\ fail' = TRUE
  /\ \/ answer' = Answer(Len(data), <<>>) /\ acked' = Acknowledged
     \/ answer' = Answer(Width - 1 - start, <<>>) /\ UNCHANGED acked
  /\ start' = 0 /\ data' = <<>>
  /\ UNCHANGED exists

\* The process ends, between two calls or in the middle of one.
Kill ==
  /\ pc # "off"
  /\ pc' = "off"
  /\ fail' = TRUE
  /\ start' = 0 /\ data' = <<>>
  /\ UNCHANGED <<diskVars, answer, acked>>

Next ==
  \/ InitNvm \/ NotReady
  \/ \E from \in Address, size \in 0..Capacity : from + size <= Capacity /\ Read(from, size)
  \/ \E to \in Address, bytes \in Data : to + Len(bytes) <= Capacity /\ WriteCall(to, bytes)
  \/ WriteFill \/ WriteFillFails \/ WriteData \/ WriteDataFails
  \/ Kill

Spec == Init /\ [][Next]_vars

-----------------------------------------------------------------------------
(* Properties.                                                             *)

\* Every variable has its type; in particular the file stays within the capacity.
TypeOK ==
  /\ pc \in {"off", "idle", "fill", "data"}
  /\ fail \in BOOLEAN /\ exists \in BOOLEAN
  /\ file \in Data
  /\ start \in Address /\ data \in Data
  /\ answer.count \in 0..(Width - 1) /\ answer.bytes \in Data
  /\ acked \in [Address -> Byte]

\* While the stream is good, what Write() acknowledged since Init() is what the
\* file holds.
AckedIsStored == pc # "off" /\ ~fail => Content(file) = acked

\* The driver is an array of bytes in which a Write() is one step: see NvmStore.
Store == INSTANCE NvmStore WITH cells <- Content(file), broken <- fail
ImplementsStore == Store!Spec

=============================================================================
