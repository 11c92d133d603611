----------------------------- MODULE NvmProofs -----------------------------
(***************************************************************************)
(* What holds of Nvm for every set of bytes and every capacity.            *)
(***************************************************************************)
EXTENDS Nvm, TLAPS

\* Between the steps of Write() its arguments are a request, and the file reaches
\* up to the data when they are written.
Writing ==
  /\ pc \in {"fill", "data"} => ~fail /\ start + Len(data) <= Capacity
  /\ pc = "fill" => Len(file) < start
  /\ pc = "data" => start <= Len(file)
  /\ pc = "off" => fail

Inv == TypeOK /\ Writing /\ AckedIsStored

-----------------------------------------------------------------------------
(* Lemmas about files.                                                     *)

LEMMA DataLen ==
  ASSUME NEW d \in Data
  PROVE  Len(d) \in 0..Capacity /\ d \in [1..Len(d) -> Byte]
<1> PICK n \in 0..Capacity : d \in [1..n -> Byte]
  BY DEF Data
<1> QED BY CapacityAssumption

LEMMA LenData ==
  ASSUME NEW n \in 0..Capacity, NEW d \in [1..n -> Byte]
  PROVE  d \in Data /\ Len(d) = n
BY CapacityAssumption DEF Data

LEMMA ContentType ==
  ASSUME NEW f \in Data
  PROVE  /\ \A a \in Address : ByteAt(f, a) \in Byte
         /\ Content(f) \in [Address -> Byte]
BY DataLen, ByteAssumption, CapacityAssumption DEF ByteAt, Content, Address

\* Filling the gap, or a part of it, only makes the file longer.
LEMMA FillKeeps ==
  ASSUME TypeOK, NEW k \in Nat, Len(file) + k <= Capacity
  PROVE  /\ FillEnd(k) \in Data
         /\ Len(FillEnd(k)) = Len(file) + k
         /\ Content(FillEnd(k)) = Content(file)
<1> DEFINE n == Len(file)
<1>1. n \in 0..Capacity /\ file \in [1..n -> Byte]
  BY DataLen DEF TypeOK
<1>2. Zeros(k) \in [1..k -> Byte] /\ Zeros(k) \in Seq(Byte) /\ Len(Zeros(k)) = k
  BY ByteAssumption DEF Zeros
<1>3. file \in Seq(Byte)
  BY <1>1
<1>4. /\ FillEnd(k) \in Seq(Byte) /\ Len(FillEnd(k)) = n + k
      /\ \A i \in 1..(n + k) : FillEnd(k)[i] = IF i <= n THEN file[i] ELSE 0
  BY <1>2, <1>3 DEF FillEnd, Zeros
<1>5. FillEnd(k) \in Data
  BY <1>1, <1>4, LenData
<1>6. \A a \in Address : ByteAt(FillEnd(k), a) = ByteAt(file, a)
  BY <1>1, <1>4, CapacityAssumption DEF ByteAt, Address
<1> QED BY <1>4, <1>5, <1>6 DEF Content

\* Writing changes the bytes written and no other.
LEMMA OverwrittenPuts ==
  ASSUME TypeOK, start <= Len(file), NEW k \in 0..Len(data), start + Len(data) <= Capacity
  PROVE  /\ Overwritten(k) \in Data
         /\ Content(Overwritten(k)) = Store!Put(start, data, k)
<1> DEFINE n == Len(file)
           m == IF start + k > n THEN start + k ELSE n
<1>1. n \in 0..Capacity /\ file \in [1..n -> Byte]
  BY DataLen DEF TypeOK
<1>2. Len(data) \in 0..Capacity /\ data \in [1..Len(data) -> Byte]
  BY DataLen DEF TypeOK
<1>3. start \in Nat /\ k \in Nat /\ m \in 0..Capacity
  BY <1>1, <1>2, CapacityAssumption DEF TypeOK, Address
<1>4. Overwritten(k) \in [1..m -> Byte]
  BY <1>1, <1>2, <1>3 DEF Overwritten
<1>5. Overwritten(k) \in Data /\ Len(Overwritten(k)) = m
  BY <1>3, <1>4, LenData
<1>6. ASSUME NEW a \in Address
      PROVE  ByteAt(Overwritten(k), a)
               = IF a \in start..(start + k - 1) THEN data[a - start + 1] ELSE ByteAt(file, a)
  <2>1. a \in Nat
    BY CapacityAssumption DEF Address
  <2>2. CASE a >= m
    BY <1>1, <1>3, <1>5, <2>1, <2>2 DEF ByteAt
  <2>3. CASE a < m
    <3>1. ByteAt(Overwritten(k), a)
            = IF a + 1 \in (start + 1)..(start + k) THEN data[a + 1 - start] ELSE file[a + 1]
      BY <1>3, <1>5, <2>1, <2>3 DEF ByteAt, Overwritten
    <3>2. a + 1 - start = a - start + 1
      BY <1>3, <2>1
    <3> QED BY <1>1, <1>3, <2>1, <2>3, <3>1, <3>2 DEF ByteAt
  <2> QED BY <1>1, <1>3, <2>1, <2>2, <2>3
<1>7. \A a \in Address : Content(file)[a] = ByteAt(file, a)
  BY DEF Content
<1> QED BY <1>5, <1>6, <1>7 DEF Content, Store!Put, Store!Address, Address

-----------------------------------------------------------------------------
(* The invariant.                                                          *)

LEMMA EmptyType == <<>> \in Data /\ 0 \in Address /\ 0 \in 0..(Width - 1)
<1>1. <<>> \in [1..0 -> Byte]
  OBVIOUS
<1>2. 0 \in 0..Capacity
  BY CapacityAssumption
<1>3. <<>> \in Data
  BY <1>1, <1>2 DEF Data
<1>4. 0 \in Address
  BY CapacityAssumption DEF Address
<1>5. 0 \in 0..(Width - 1)
  BY CapacityAssumption, WidthAssumption
<1> QED BY <1>3, <1>4, <1>5

LEMMA InitInv == Init => Inv
<1> SUFFICES ASSUME Init PROVE Inv
  OBVIOUS
<1>1. <<>> \in Data
  BY EmptyType
<1>2. Content(file) \in [Address -> Byte]
  BY ContentType DEF Init
<1>3. 0 \in Address /\ 0 \in 0..(Width - 1)
  BY EmptyType
<1> QED BY <1>1, <1>2, <1>3 DEF Init, Inv, TypeOK, Writing, AckedIsStored, Answer

\* What a Read() puts in the buffer are bytes.
LEMMA ReadType ==
  ASSUME TypeOK, NEW from \in Address, NEW size \in 0..Capacity, from + size <= Capacity
  PROVE  /\ GCount(from, size) \in 0..size
         /\ [i \in 1..GCount(from, size) |-> ByteAt(file, from + i - 1)] \in Data
         /\ [i \in 1..GCount(from, size) |-> ByteAt(file, from + i - 1)]
              = [i \in 1..GCount(from, size) |-> Content(file)[from + i - 1]]
<1> DEFINE k == GCount(from, size)
<1>1. Len(file) \in Nat /\ from \in Nat /\ size \in Nat
  BY DataLen, CapacityAssumption DEF TypeOK, Address
<1>2. k \in 0..size
  BY <1>1 DEF GCount
<1>3. \A i \in 1..k : from + i - 1 \in Address
  BY <1>1, <1>2, CapacityAssumption DEF Address
<1>4. \A i \in 1..k : ByteAt(file, from + i - 1) = Content(file)[from + i - 1]
  BY <1>3 DEF Content
<1>5. [i \in 1..k |-> ByteAt(file, from + i - 1)] \in [1..k -> Byte]
  BY <1>3, ContentType DEF TypeOK
<1>6. k \in 0..Capacity
  BY <1>1, <1>2, CapacityAssumption
<1> HIDE DEF k
<1>7. [i \in 1..k |-> ByteAt(file, from + i - 1)] \in Data
  BY <1>5, <1>6, LenData
<1> QED BY <1>2, <1>4, <1>7 DEF k

\* The bytes acknowledged are those the data are put into.
LEMMA AcknowledgedType ==
  ASSUME TypeOK
  PROVE  Acknowledged \in [Address -> Byte]
<1>1. Len(data) \in Nat /\ data \in [1..Len(data) -> Byte]
  BY DataLen DEF TypeOK
<1>2. \A a \in Address : a \in start..(start + Len(data) - 1) => a - start + 1 \in 1..Len(data)
  BY <1>1, CapacityAssumption DEF TypeOK, Address
<1> QED BY <1>1, <1>2 DEF Acknowledged, TypeOK

LEMMA AnswerType ==
  ASSUME TypeOK, start + Len(data) <= Capacity
  PROVE  Len(data) \in 0..(Width - 1) /\ Width - 1 - start \in 0..(Width - 1)
BY DataLen, CapacityAssumption, WidthAssumption DEF TypeOK, Address

LEMMA NextInv == Inv /\ [Next]_vars => Inv'
<1> SUFFICES ASSUME Inv, [Next]_vars PROVE Inv'
  OBVIOUS
<1> USE EmptyType DEF Inv, Writing, AckedIsStored
<1>1. CASE InitNvm
  <2>1. Content(file) \in [Address -> Byte]
    BY ContentType DEF TypeOK
  <2> QED BY <1>1, <2>1 DEF InitNvm, diskVars, argVars, TypeOK
<1>2. CASE NotReady
  BY <1>2 DEF NotReady, diskVars, argVars, TypeOK, Answer
<1>3. ASSUME NEW from \in Address, NEW size \in 0..Capacity, from + size <= Capacity,
             Read(from, size)
      PROVE  Inv'
  <2>1. GCount(from, size) \in 0..(Width - 1)
    <3>1. GCount(from, size) \in 0..size
      BY <1>3, ReadType
    <3> QED BY <3>1, CapacityAssumption, WidthAssumption
  <2>2. fail' \in BOOLEAN
    BY <1>3 DEF Read
  <2>3. answer'.count \in 0..(Width - 1) /\ answer'.bytes \in Data
    BY <1>3, <2>1, ReadType DEF Read, StreamGood, Answer
  <2> QED BY <1>3, <2>2, <2>3 DEF Read, StreamGood, diskVars, argVars, TypeOK
<1>4. ASSUME NEW to \in Address, NEW bytes \in Data, to + Len(bytes) <= Capacity,
             WriteCall(to, bytes)
      PROVE  Inv'
  <2>1. Len(file) \in Nat /\ to \in Nat
    BY DataLen, CapacityAssumption DEF TypeOK, Address
  <2> QED BY <1>4, <2>1 DEF WriteCall, StreamGood, diskVars, TypeOK
<1>5. CASE WriteFill
  <2>1. Len(file) \in Nat /\ Len(data) \in Nat /\ start \in Nat
    BY DataLen, CapacityAssumption DEF TypeOK, Address
  <2>2. start - Len(file) \in Nat /\ Len(file) + (start - Len(file)) <= Capacity
    BY <1>5, <2>1, CapacityAssumption DEF WriteFill
  <2>3. file' \in Data /\ Len(file') = start /\ Content(file') = Content(file)
    BY <1>5, <2>1, <2>2, FillKeeps DEF WriteFill
  <2>4. start <= Len(file')
    BY <2>1, <2>3
  <2> QED BY <1>5, <2>3, <2>4 DEF WriteFill, argVars, TypeOK
<1>6. CASE WriteFillFails
  <2>1. Len(file) \in Nat /\ Len(data) \in Nat /\ start \in Nat
    BY DataLen, CapacityAssumption DEF TypeOK, Address
  <2>2. PICK k \in 0..(start - Len(file) - 1) : file' = FillEnd(k)
    BY <1>6 DEF WriteFillFails
  <2>3. k \in Nat /\ Len(file) + k <= Capacity
    BY <1>6, <2>1, CapacityAssumption DEF WriteFillFails
  <2>4. file' \in Data
    BY <2>2, <2>3, FillKeeps
  <2> QED BY <1>6, <2>4 DEF WriteFillFails, TypeOK, Answer
<1>7. CASE WriteData
  <2>1. pc = "data" /\ start <= Len(file) /\ start + Len(data) <= Capacity
    BY <1>7 DEF WriteData
  <2>2. Len(data) \in 0..Len(data)
    BY DataLen DEF TypeOK
  <2>3. file' \in Data /\ Content(file') = Store!Put(start, data, Len(data))
    BY <1>7, <2>1, <2>2, OverwrittenPuts DEF WriteData
  <2>4. Content(file) = acked
    BY <1>7 DEF WriteData
  <2>5. acked' = Store!Put(start, data, Len(data))
    BY <1>7, <2>4 DEF WriteData, Acknowledged, Store!Put, Store!Address, Address
  <2>6. acked' \in [Address -> Byte]
    BY <1>7, AcknowledgedType DEF WriteData
  <2> QED BY <1>7, <2>1, <2>3, <2>5, <2>6, AnswerType DEF WriteData, TypeOK, Answer
<1>8. CASE WriteDataFails
  <2>1. pc = "data" /\ start <= Len(file) /\ start + Len(data) <= Capacity
    BY <1>8 DEF WriteDataFails
  <2>2. file' \in Data
    BY <1>8, <2>1, OverwrittenPuts DEF WriteDataFails
  <2>3. acked' \in [Address -> Byte]
    BY <1>8, AcknowledgedType DEF WriteDataFails, TypeOK
  <2> QED BY <1>8, <2>1, <2>2, <2>3, AnswerType DEF WriteDataFails, TypeOK, Answer
<1>9. CASE Kill
  BY <1>9 DEF Kill, diskVars, TypeOK
<1>10. CASE UNCHANGED vars
  BY <1>10 DEF vars, diskVars, argVars, TypeOK
<1> QED BY <1>1, <1>2, <1>3, <1>4, <1>5, <1>6, <1>7, <1>8, <1>9, <1>10 DEF Next

LEMMA Invariance == Spec => []Inv
BY InitInv, NextInv, PTL DEF Spec

\* The file never outgrows the requests, and every answer fits an uint32_t.
THEOREM TypeCorrect == Spec => []TypeOK
<1>1. Inv => TypeOK
  BY DEF Inv
<1> QED BY <1>1, Invariance, PTL

\* As long as the stream is good the file holds all that Write() acknowledged since
\* Init(), whatever failed or was killed before.
THEOREM AcknowledgedKept == Spec => []AckedIsStored
<1>1. Inv => AckedIsStored
  BY DEF Inv
<1> QED BY <1>1, Invariance, PTL

-----------------------------------------------------------------------------
(* The refinement.                                                         *)

LEMMA StoreInit == Init => Store!Init
BY ContentType DEF Init, Store!Init, Store!Address, Store!Answer, Address, Answer

LEMMA StoreNext == Inv /\ [Next]_vars => [Store!Next]_(Store!vars)
<1> SUFFICES ASSUME Inv, [Next]_vars PROVE [Store!Next]_(Store!vars)
  OBVIOUS
<1> USE DEF Inv, Writing, Store!vars
<1>1. CASE InitNvm
  BY <1>1 DEF InitNvm, diskVars, Store!Next, Store!Open
<1>2. CASE NotReady
  BY <1>2 DEF NotReady, StreamGood, diskVars, Store!Next, Store!Refuse, Store!Answer, Answer
<1>3. ASSUME NEW from \in Address, NEW size \in 0..Capacity, from + size <= Capacity,
             Read(from, size)
      PROVE  Store!Next
  <2>1. Store!Load(from, size)
    <3>1. GCount(from, size) \in 0..size
      BY <1>3, ReadType
    <3> QED BY <1>3, <3>1, ReadType
            DEF Read, StreamGood, diskVars, Store!Load, Store!Answer, Answer
  <2>2. from \in Store!Address /\ size \in 0..(Capacity - from)
    BY <1>3, CapacityAssumption DEF Store!Address, Address
  <2> QED BY <2>1, <2>2 DEF Store!Next
<1>4. ASSUME NEW to \in Address, NEW bytes \in Data, WriteCall(to, bytes)
      PROVE  UNCHANGED Store!vars
  BY <1>4 DEF WriteCall, diskVars
<1>5. CASE WriteFill
  <2>1. Len(file) \in Nat /\ Len(data) \in Nat /\ start \in Nat
    BY DataLen, CapacityAssumption DEF TypeOK, Address
  <2>2. start - Len(file) \in Nat /\ Len(file) + (start - Len(file)) <= Capacity
    BY <1>5, <2>1, CapacityAssumption DEF WriteFill
  <2>3. Content(file') = Content(file)
    BY <1>5, <2>1, <2>2, FillKeeps DEF WriteFill
  <2> QED BY <1>5, <2>3 DEF WriteFill
<1>6. ASSUME pc = "data", NEW k \in 0..Len(data), file' = Overwritten(k)
      PROVE  /\ Content(file') = Store!Put(start, data, k)
             /\ start \in Store!Address
             /\ data \in Store!Data
             /\ Len(data) <= Capacity - start
  <2>1. Len(data) \in Nat /\ start \in Nat /\ start <= Len(file) /\ start + Len(data) <= Capacity
    BY <1>6, DataLen, CapacityAssumption DEF TypeOK, Address
  <2>2. Content(file') = Store!Put(start, data, k)
    BY <1>6, <2>1, OverwrittenPuts
  <2> QED BY <2>1, <2>2, CapacityAssumption DEF TypeOK, Store!Address, Address, Store!Data, Data
<1>7. CASE WriteFillFails
  <2>1. Len(file) \in Nat /\ Len(data) \in Nat /\ start \in Nat
    BY DataLen, CapacityAssumption DEF TypeOK, Address
  <2>2. PICK k \in 0..(start - Len(file) - 1) : file' = FillEnd(k)
    BY <1>7 DEF WriteFillFails
  <2>3. k \in Nat /\ Len(file) + k <= Capacity
    BY <1>7, <2>1, CapacityAssumption DEF WriteFillFails
  <2>4. Content(file') = Content(file)
    BY <2>2, <2>3, FillKeeps
  <2>5. Store!Put(start, data, 0) = Content(file)
    BY <2>1 DEF Store!Put, Content, Store!Address, Address
  <2>6. 0 \in 0..Len(data) /\ 0 \in 0..(Width - 1) /\ start \in Store!Address
        /\ data \in Store!Data /\ Len(data) <= Capacity - start
    BY <1>7, <2>1, WidthAssumption, CapacityAssumption
       DEF WriteFillFails, TypeOK, Store!Address, Address, Store!Data, Data
  <2>7. Store!SaveTorn(start, data)
    BY <1>7, <2>4, <2>5, <2>6 DEF WriteFillFails, Store!SaveTorn, Store!Answer, Answer
  <2> QED BY <2>6, <2>7 DEF Store!Next
<1>8. CASE WriteData
  <2>1. Len(data) \in 0..Len(data)
    BY DataLen DEF TypeOK
  <2>2. Store!Save(start, data)
    BY <1>6, <1>8, <2>1 DEF WriteData, Store!Save, Store!Answer, Answer
  <2> QED BY <1>6, <1>8, <2>1, <2>2 DEF WriteData, Store!Next
<1>9. CASE WriteDataFails
  <2>1. PICK k \in 0..Len(data) : file' = Overwritten(k)
    BY <1>9 DEF WriteDataFails
  <2>2. pc = "data" /\ ~fail /\ fail' = TRUE
    BY <1>9 DEF WriteDataFails
  <2>3. \E n \in 0..(Width - 1) : answer' = Answer(n, <<>>)
    BY <1>9, <2>2, AnswerType DEF WriteDataFails
  <2>4. Store!SaveTorn(start, data)
    BY <1>6, <2>1, <2>2, <2>3 DEF Store!SaveTorn, Store!Answer, Answer
  <2> QED BY <1>6, <2>1, <2>2, <2>4 DEF Store!Next
<1>10. CASE Kill
  BY <1>10 DEF Kill, diskVars, Store!Next, Store!Open
<1>11. CASE UNCHANGED vars
  BY <1>11 DEF vars, diskVars
<1> QED BY <1>1, <1>2, <1>3, <1>4, <1>5, <1>7, <1>8, <1>9, <1>10, <1>11 DEF Next

\* The driver is an array of bytes whose Write() is one step, although it fills and
\* writes in two and may be killed in between: the filler reads as what was there.
THEOREM StoreRefined == Spec => ImplementsStore
<1>1. Spec => Store!Spec
  BY Invariance, StoreInit, StoreNext, PTL DEF Spec, Store!Spec
<1> QED BY <1>1 DEF ImplementsStore

=============================================================================
