--------------------------- MODULE StartupProofs ---------------------------
(***************************************************************************)
(* What holds of the start for every command line, and of the object       *)
(* dictionary for every pair of lists of objects the TPDOs may be defined  *)
(* with.  Mapped is about the mapping under way, Whole about everything    *)
(* that was entered so far, and Line about what was read so far.           *)
(***************************************************************************)
EXTENDS Startup, ObjDictProofs

-----------------------------------------------------------------------------
(* The mapping under way.                                                  *)

Underway == todo # <<>> /\ Head(todo).do = "mapping"

\* A TPDO is never packed beyond its 64 bits, by no more objects than that.
Packed ==
  /\ todo \in Seq(AnyCall)
  /\ bits \in 0..64 /\ count \in 0..bits
  /\ ~Underway => bits = 0 /\ count = 0
  /\ iface = <<>> => todo = <<>>

\* Its objects so far have an entry each.
Entered ==
  Underway =>
    \A i \in 1..count :
      \E d \in dict : d.addr = ObjectAddress(Std_TPDOMappingSize(Head(todo).num).index, i)

Mapped == Packed /\ Entered /\ MappingComplete

LEMMA InitMapped == Init => Mapped
<1>1. <<>> \in Seq(AnyCall)
  OBVIOUS
<1> QED
  BY <1>1 DEF Init, DictInit, Mapped, Packed, Entered, Underway, MappingComplete

LEMMA ParseMapped == Mapped /\ Parse => Mapped'
BY DEF Mapped, Packed, Entered, Underway, MappingComplete, Parse, dictVars

LEMMA ConstructMapped == Mapped /\ Construct => Mapped'
<1> SUFFICES ASSUME Mapped, Construct PROVE Mapped'
  OBVIOUS
<1>1. todo' \in Seq(AnyCall) /\ iface' # <<>> /\ UNCHANGED <<dict, bits, count>>
  BY CallsLaidOut DEF Construct, Layout
<1>2. bits = 0 /\ count = 0
  BY DEF Construct, Mapped, Packed, Underway
<1> QED
  BY <1>1, <1>2 DEF Mapped, Packed, Entered, Underway, MappingComplete

\* Entries are never removed, so a mapping stays complete; a new one may be its size.
LEMMA Added ==
  ASSUME NEW e, dict' = dict \cup {e}, MappingComplete,
         e.direct /\ e.addr.sub = 0 /\ e.addr.index >= \h1A00 =>
           \A i \in 1..e.data : \E d \in dict : d.addr = ObjectAddress(e.addr.index, i)
  PROVE  MappingComplete'
<1>1. dict \subseteq dict'
  OBVIOUS
<1>2. ASSUME NEW x \in dict', x.direct, x.addr.sub = 0, x.addr.index >= \h1A00
      PROVE  \A i \in 1..x.data : \E d \in dict' : d.addr = ObjectAddress(x.addr.index, i)
  <2>1. CASE x \in dict
    BY <1>1, <1>2, <2>1 DEF MappingComplete
  <2>2. CASE x = e
    BY <1>1, <1>2, <2>2
  <2> QED BY <2>1, <2>2
<1> QED
  BY <1>2 DEF MappingComplete

LEMMA DefineMapped == Mapped /\ Build /\ DefineObject => Mapped'
<1> SUFFICES ASSUME Mapped, Build, DefineObject PROVE Mapped'
  OBVIOUS
<1> DEFINE c == Head(todo)
<1>1. /\ todo # <<>> /\ c.do = "object" /\ AddObject(c.addr, c.direct, c.pdo, c.data)
      /\ todo' = Tail(todo) /\ UNCHANGED <<bits, count>> /\ iface # <<>> /\ iface' = iface
  BY DEF Build, DefineObject
<1>2. c \in AnyCall /\ Tail(todo) \in Seq(AnyCall)
  BY <1>1 DEF Mapped, Packed
<1>3. c.addr \in Address /\ (c.direct => c.addr.sub # 0 \/ c.addr.index < \h1A00)
  BY <1>1, <1>2 DEF AnyCall, ObjectCall, MappingCall
<1>4. ~(c.direct /\ c.addr.sub = 0 /\ c.addr.index >= \h1A00)
  BY <1>3 DEF Address
<1>5. MappingComplete'
  <2> DEFINE e == [addr |-> c.addr, direct |-> c.direct, pdo |-> c.pdo, nr |-> added',
                   data |-> IF c.direct THEN c.data ELSE added']
  <2>1. dict' = dict \cup {e} /\ ~(e.direct /\ e.addr.sub = 0 /\ e.addr.index >= \h1A00)
    BY <1>1, <1>4 DEF AddObject
  <2> HIDE DEF e
  <2> QED BY <2>1, Added DEF Mapped
<1>6. bits = 0 /\ count = 0
  BY <1>1 DEF Mapped, Packed, Underway
<1> QED
  BY <1>1, <1>2, <1>5, <1>6 DEF Mapped, Packed, Entered, Underway

LEMMA MapMapped == Mapped /\ Build /\ MapObject => Mapped'
<1> SUFFICES ASSUME Mapped, Build, MapObject PROVE Mapped'
  OBVIOUS
<1> DEFINE m == Head(todo)
           size == Std_TPDOMappingSize(m.num)
           object == Head(m.objects)
<1>1. /\ todo # <<>> /\ m.do = "mapping" /\ m.objects # <<>>
      /\ todo' = <<[m EXCEPT !.objects = Tail(m.objects)]>> \o Tail(todo)
      /\ iface # <<>> /\ iface' = iface
  BY DEF Build, MapObject, Mapping
<1>2. m \in MappingCall /\ Tail(todo) \in Seq(AnyCall)
  <2>1. m \in AnyCall /\ Tail(todo) \in Seq(AnyCall)
    BY <1>1 DEF Mapped, Packed
  <2> QED BY <1>1, <2>1 DEF AnyCall, ObjectCall
<1>3. /\ m.objects \in Seq(Mappable) /\ m.num \in Nat /\ object \in Mappable
      /\ Tail(m.objects) \in Seq(Mappable)
  BY <1>1, <1>2 DEF MappingCall
<1>4. /\ [m EXCEPT !.objects = Tail(m.objects)] \in AnyCall
      /\ [m EXCEPT !.objects = Tail(m.objects)].do = "mapping"
      /\ [m EXCEPT !.objects = Tail(m.objects)].num = m.num
  BY <1>2, <1>3 DEF AnyCall, MappingCall
<1>5. /\ todo' \in Seq(AnyCall) /\ todo' # <<>>
      /\ Head(todo') = [m EXCEPT !.objects = Tail(m.objects)]
  <2> DEFINE h == [m EXCEPT !.objects = Tail(m.objects)]
  <2>1. h \in AnyCall /\ Tail(todo) \in Seq(AnyCall) /\ todo' = <<h>> \o Tail(todo)
    BY <1>1, <1>2, <1>4
  <2> HIDE DEF h
  <2>2. <<h>> \in Seq(AnyCall) /\ Len(<<h>>) = 1 /\ <<h>>[1] = h
    BY <2>1
  <2>3. /\ todo' \in Seq(AnyCall) /\ Len(todo') = 1 + Len(Tail(todo)) /\ todo'[1] = h
    BY <2>1, <2>2
  <2>4. todo' # <<>> /\ Head(todo') = todo'[1]
    BY <2>3
  <2> QED BY <2>3, <2>4 DEF h
<1>6. Underway /\ Underway'
  BY <1>1, <1>4, <1>5 DEF Underway
<1>7. CASE Fits(object.width)
  <2>1. /\ bits' = bits + object.width /\ count' = (count + 1) % Byte
        /\ AddObject(Plus(size, count'), TRUE, FALSE, TPDOMappedObject(object))
    BY <1>7 DEF MapObject, Mapping
  <2>2. object.width \in 1..255 /\ bits \in 0..64 /\ count \in 0..bits
    <3>1. object.width \in 1..(Byte - 1)
      BY <1>3 DEF Mappable
    <3>2. object.width \in 1..255
      BY ONLY <3>1 DEF Byte
    <3> QED BY <3>2 DEF Mapped, Packed
  <2> HIDE DEF object
  <2>3. bits' \in 0..64 /\ count + 1 \in 1..64 /\ count + 1 <= bits'
    <3>1. bits' = bits + object.width /\ bits + object.width <= 64
      BY <1>7, <2>1 DEF Fits
    <3>2. object.width \in Nat /\ object.width >= 1 /\ bits \in Nat /\ count \in Nat /\ count <= bits
      BY <2>2
    <3> QED BY <3>1, <3>2
  <2>4. count + 1 \in 1..64 /\ count + 1 <= bits'
    BY <2>3
  <2>5. count' = count + 1
    BY <2>1, <2>4 DEF Byte
  <2>6. Plus(size, count') = ObjectAddress(size.index, count') /\ Plus(size, count').sub = count'
    BY <2>4, <2>5 DEF Plus, Std_TPDOMappingSize, ObjectAddress, Byte
  <2>7. MappingComplete' /\ dict \subseteq dict' /\ \E d \in dict' : d.addr = Plus(size, count')
    <3>1. Plus(size, count').sub # 0
      BY <2>4, <2>5, <2>6
    <3> DEFINE e == [addr |-> Plus(size, count'), direct |-> TRUE, pdo |-> FALSE, nr |-> added',
                     data |-> TPDOMappedObject(object)]
    <3>2. dict' = dict \cup {e} /\ e.addr = Plus(size, count') /\ e.addr.sub # 0
      BY <2>1, <3>1 DEF AddObject
    <3> HIDE DEF e
    <3> QED BY <3>2, Added DEF Mapped
  <2>8. \A i \in 1..count' : \E d \in dict' : d.addr = ObjectAddress(size.index, i)
    <3> SUFFICES ASSUME NEW i \in 1..count' PROVE \E d \in dict' : d.addr = ObjectAddress(size.index, i)
      OBVIOUS
    <3>1. CASE i = count'
      BY <2>6, <2>7, <3>1
    <3>2. CASE i # count'
      <4>1. i \in 1..count
        BY <2>2, <2>5, <3>2
      <4> QED BY <1>6, <2>7, <4>1 DEF Mapped, Entered
    <3> QED BY <3>1, <3>2
  <2>9. Packed'
    <3>1. count' \in 0..bits'
      BY <2>3, <2>5
    <3> QED BY <1>1, <1>5, <1>6, <2>3, <3>1 DEF Packed
  <2>10. Entered'
    BY <1>4, <1>5, <2>8 DEF Entered
  <2> QED BY <2>7, <2>9, <2>10 DEF Mapped
<1>8. CASE ~Fits(object.width)
  <2>1. UNCHANGED <<bits, count, dict>>
    BY <1>8 DEF MapObject, Mapping
  <2>2. Packed'
    BY <1>1, <1>5, <1>6, <2>1 DEF Mapped, Packed
  <2>3. Entered'
    BY <1>4, <1>5, <1>6, <2>1 DEF Mapped, Entered
  <2> QED BY <2>1, <2>2, <2>3 DEF Mapped, MappingComplete
<1> QED
  BY <1>7, <1>8

LEMMA SizeMapped == Mapped /\ Build /\ MapSize => Mapped'
<1> SUFFICES ASSUME Mapped, Build, MapSize PROVE Mapped'
  OBVIOUS
<1> DEFINE size == Std_TPDOMappingSize(Head(todo).num)
<1>1. /\ todo # <<>> /\ Head(todo).do = "mapping" /\ AddObject(size, TRUE, FALSE, count)
      /\ bits' = 0 /\ count' = 0 /\ todo' = Tail(todo) /\ iface # <<>> /\ iface' = iface
  BY DEF Build, MapSize, Mapping
<1>2. Tail(todo) \in Seq(AnyCall)
  BY <1>1 DEF Mapped, Packed
<1>3. \A i \in 1..count : \E d \in dict : d.addr = ObjectAddress(size.index, i)
  BY <1>1 DEF Mapped, Entered, Underway
<1>4. MappingComplete'
  <2> DEFINE e == [addr |-> size, direct |-> TRUE, pdo |-> FALSE, nr |-> added', data |-> count]
  <2>1. dict' = dict \cup {e} /\ e.addr = size /\ e.data = count
    BY <1>1 DEF AddObject
  <2> HIDE DEF e, size
  <2> QED BY <1>3, <2>1, Added DEF Mapped
<1> QED
  BY <1>1, <1>2, <1>4 DEF Mapped, Packed, Entered, Underway

LEMMA NextMapped == Mapped /\ [Next]_vars => Mapped'
<1> SUFFICES ASSUME Mapped, [Next]_vars PROVE Mapped'
  OBVIOUS
<1>1. CASE UNCHANGED vars \/ (Build /\ Sort)
  <2>1. UNCHANGED <<todo, dict, bits, count, iface>>
    BY <1>1 DEF vars, dictVars, Build, Sort
  <2> QED
    BY <2>1 DEF Mapped, Packed, Entered, Underway, MappingComplete
<1> QED
  BY <1>1, ParseMapped, ConstructMapped, DefineMapped, MapMapped, SizeMapped
     DEF Next, Build, BuildStep

\* Whatever a TPDO is defined with, the subindices its mapping counts are there.
THEOREM MappingsComplete == Spec => []MappingComplete
<1>1. Mapped => MappingComplete
  BY DEF Mapped
<1> QED
  BY <1>1, InitMapped, NextMapped, PTL DEF Spec
-----------------------------------------------------------------------------
(* How far AllocateObjects() has got, and what is in the dictionary by then. *)

Calls == AllocateObjects(table)
Done == IF iface = <<>> THEN 0 ELSE 26 - Len(todo)

\* A mapping that is under way has lost the objects that were looked at.
Resumes(c, d) ==
  IF d.do = "mapping"
    THEN /\ c.do = "mapping" /\ c.num = d.num /\ Len(c.objects) <= Len(d.objects)
         /\ \A i \in 1..Len(c.objects) :
              c.objects[i] = d.objects[Len(d.objects) - Len(c.objects) + i]
    ELSE c = d

Progress ==
  /\ iface = <<>> => todo = <<>> /\ dict = {} /\ sorted = <<>>
  /\ iface # <<>> =>
       /\ table \in Tables /\ Len(todo) <= 26
       /\ \A i \in 2..Len(todo) : todo[i] = Calls[Done + i]
       /\ todo # <<>> => Resumes(todo[1], Calls[Done + 1])

\* The entries have their type, and each has an address of its own.
Shaped ==
  /\ IsFiniteSet(dict) /\ added \in Nat /\ dict \subseteq Entry
  /\ \A d, e \in dict : d.addr = e.addr => d = e

Live == \A e \in dict : ~e.direct => e.addr \in DOMAIN objStorage /\ objStorage[e.addr] = e.data

\* Every entry has an address that was claimed by a call.
Index == MappingIndex(Head(todo).num)
Claimed ==
  \A e \in dict : \/ \E j \in 1..Done : e.addr \in Claims(Calls[j])
                  \/ Underway /\ \E k \in 1..count : e.addr = At(Index, k)

\* Every call that is done has left what it was to make.
MadeOf(D, c) == \E e \in D : /\ e.addr = c.addr /\ e.direct = c.direct /\ e.pdo = c.pdo
                             /\ e.direct => e.data = c.data
Made == \A j \in 1..Done : Calls[j].do = "object" => MadeOf(dict, Calls[j])

\* The chosen objects are mapped one after the other.
Carried(D, index, o, S) ==
  \A i \in S : \E e \in D : /\ e.addr = At(index, Cardinality(S \cap 1..i))
                            /\ e.data = TPDOMappedObject(o[i])

FilledBy(D, c) ==
  \E S \in SUBSET (1..Len(c.objects)) :
    /\ Chosen(c.objects, S, Len(c.objects))
    /\ Carried(D, MappingIndex(c.num), c.objects, S)
    /\ \E z \in D : z.addr = At(MappingIndex(c.num), 0) /\ z.direct /\ z.data = Cardinality(S)
    /\ \A e \in D : e.addr.index = MappingIndex(c.num) => e.addr.sub <= Cardinality(S)
Filled == \A j \in 1..Done : Calls[j].do = "mapping" => FilledBy(dict, Calls[j])

\* So are, while a mapping is under way, those of the objects that were looked at.
Objects == Calls[Done + 1].objects
Reached == Len(Objects) - Len(Head(todo).objects)
Packing ==
  Underway => \E S \in SUBSET (1..Reached) :
                /\ Chosen(Objects, S, Reached)
                /\ Total(Objects, S) = bits /\ Cardinality(S) = count
                /\ Carried(dict, Index, Objects, S)

SortedWhole ==
  sorted # <<>> =>
    /\ iface # <<>> /\ todo = <<>>
    /\ sorted = SortOf(dict)

Whole ==
  /\ Mapped /\ Progress /\ Shaped /\ Live /\ Claimed /\ Made /\ Packing /\ Filled
  /\ SortedWhole

LEMMA InitWhole == Init => Whole
<1> SUFFICES ASSUME Init PROVE Whole
  OBVIOUS
<1>1. /\ iface = <<>> /\ todo = <<>> /\ dict = {} /\ sorted = <<>> /\ added = 0
  BY DEF Init, DictInit
<1>2. Mapped
  BY InitMapped
<1>3. Shaped /\ Live /\ Progress /\ SortedWhole /\ Claimed /\ Packing
  BY <1>1, FS_EmptySet DEF Shaped, Live, Progress, SortedWhole, Claimed, Packing, Underway
<1>4. Done = 0
  BY <1>1 DEF Done
<1>5. Made /\ Filled
  BY <1>4 DEF Made, Filled
<1> QED BY <1>2, <1>3, <1>5 DEF Whole

LEMMA ParseWhole == Whole /\ (Parse \/ UNCHANGED vars) => Whole'
<1> SUFFICES ASSUME Whole, Parse \/ UNCHANGED vars PROVE Whole'
  OBVIOUS
<1>1. UNCHANGED <<todo, dict, sorted, objStorage, added, bits, count, iface, table>>
  BY DEF Parse, vars, dictVars
<1>2. Mapped'
  BY <1>1 DEF Whole, Mapped, Packed, Entered, Underway, MappingComplete
<1>3. /\ Done' = Done /\ Calls' = Calls /\ (Underway <=> Underway') /\ Index' = Index
      /\ Entry' = Entry
  BY <1>1 DEF Done, Calls, Underway, Index, Entry
<1>4. Objects' = Objects /\ Reached' = Reached
  BY <1>1, <1>3 DEF Objects, Reached
<1>5. Progress' /\ Shaped' /\ Live' /\ SortedWhole'
  BY <1>1, <1>3 DEF Whole, Progress, Shaped, Live, SortedWhole
<1>6. Claimed' /\ Made' /\ Filled'
  BY <1>1, <1>3 DEF Whole, Claimed, Made, Filled
<1>7. Packing'
  BY <1>1, <1>3, <1>4 DEF Whole, Packing
<1> QED BY <1>2, <1>5, <1>6, <1>7 DEF Whole

LEMMA CallFacts ==
  ASSUME table \in Tables
  PROVE  /\ Calls \in Seq(AnyCall) /\ Len(Calls) = 26
         /\ \A i, j \in 1..26 : \A x \in Claims(Calls[i]) : x \in Claims(Calls[j]) => i = j
         /\ \A i, j \in 1..26 : \A x \in Claims(Calls[i]) :
              Calls[j].do = "mapping" /\ x.index = MappingIndex(Calls[j].num) => i = j
BY ClaimedOnce DEF Calls

LEMMA ResumesItself == \A d : Resumes(d, d)
BY DEF Resumes

LEMMA ConstructWhole == Whole /\ Construct => Whole'
<1> SUFFICES ASSUME Whole, Construct PROVE Whole'
  OBVIOUS
<1>1. /\ iface = <<>> /\ iface' # <<>> /\ table' \in Tables /\ todo' = Calls'
      /\ UNCHANGED <<dict, sorted, objStorage, added, bits, count>>
  BY DEF Construct, Calls
<1>2. Mapped'
  BY ConstructMapped DEF Whole
<1>3. dict = {} /\ sorted = <<>> /\ dict' = {} /\ sorted' = <<>>
  BY <1>1 DEF Whole, Progress
<1>4. /\ todo' \in Seq(AnyCall) /\ Len(todo') = 26
  BY <1>1, ClaimedOnce DEF Calls
<1>5. Done' = 0
  BY <1>1, <1>4 DEF Done
<1>6. Progress'
  <2>1. \A i \in 2..Len(todo') : todo'[i] = Calls'[Done' + i]
    BY <1>1, <1>4, <1>5
  <2>2. Resumes(todo'[1], Calls'[Done' + 1])
    BY <1>1, <1>5, ResumesItself
  <2> QED BY <1>1, <1>3, <1>4, <2>1, <2>2 DEF Progress
<1>7. Shaped' /\ Live' /\ Claimed' /\ SortedWhole'
  BY <1>1, <1>3 DEF Whole, Shaped, Live, Claimed, SortedWhole, Entry
<1>8. Made' /\ Filled'
  BY <1>5 DEF Made, Filled
<1>9. Packing'
  <2> SUFFICES ASSUME Underway' PROVE Packing'
    BY DEF Packing
  <2>1. Head(todo') = Calls'[Done' + 1]
    BY <1>1, <1>4, <1>5
  <2>2. Reached' = 0
    <3>1. Head(todo') \in MappingCall
      BY <1>4 DEF Underway, AnyCall, ObjectCall
    <3>2. Len(Head(todo').objects) \in Nat
      BY <3>1 DEF MappingCall
    <3> QED BY <2>1, <3>2 DEF Reached, Objects
  <2>3. bits' = 0 /\ count' = 0
    BY <1>1 DEF Whole, Mapped, Packed, Underway
  <2>4. /\ {} \in SUBSET (1..0) /\ Chosen(Objects', {}, 0) /\ Total(Objects', {}) = 0
        /\ Cardinality({}) = 0 /\ Carried(dict', Index', Objects', {})
    BY ChosenNone DEF Carried
  <2> QED BY <2>2, <2>3, <2>4 DEF Packing
<1> QED BY <1>2, <1>6, <1>7, <1>8, <1>9 DEF Whole

\* What can be said before any step of the construction.
LEMMA Going ==
  ASSUME Whole, Build, todo # <<>>
  PROVE  /\ iface # <<>> /\ iface' = iface /\ table \in Tables /\ Calls' = Calls
         /\ todo \in Seq(AnyCall) /\ Len(todo) \in 1..26
         /\ Done = 26 - Len(todo) /\ Done \in 0..25 /\ Done + 1 \in 1..26
         /\ Head(todo) = todo[1] /\ Head(todo) \in AnyCall
         /\ Resumes(Head(todo), Calls[Done + 1])
         /\ sorted = <<>>
<1>1. iface # <<>> /\ iface' = iface /\ table' = table
  BY DEF Build
<1>2. todo \in Seq(AnyCall) /\ Len(todo) \in 1..26 /\ Head(todo) = todo[1] /\ Head(todo) \in AnyCall
  <2>1. todo \in Seq(AnyCall)
    BY DEF Whole, Mapped, Packed
  <2>2. Len(todo) <= 26
    BY <1>1 DEF Whole, Progress
  <2>3. Len(todo) \in Nat /\ Len(todo) # 0 /\ Head(todo) = todo[1] /\ Head(todo) \in AnyCall
    BY <2>1
  <2>4. \A n \in Nat : n # 0 /\ n <= 26 => n \in 1..26
    OBVIOUS
  <2> QED BY <2>1, <2>2, <2>3, <2>4
<1>3. Done = 26 - Len(todo)
  BY <1>1 DEF Done
<1>4. Done \in 0..25 /\ Done + 1 \in 1..26
  <2>1. \A n \in 1..26 : 26 - n \in 0..25 /\ (26 - n) + 1 \in 1..26
    OBVIOUS
  <2> QED BY <1>2, <1>3, <2>1
<1>5. Resumes(Head(todo), Calls[Done + 1]) /\ table \in Tables
  BY <1>1, <1>2 DEF Whole, Progress
<1>6. sorted = <<>> /\ Calls' = Calls
  BY <1>1 DEF Whole, SortedWhole, Calls
<1> QED BY <1>1, <1>2, <1>3, <1>4, <1>5, <1>6

\* A call is done, and the next one has not begun.
LEMMA Advances ==
  ASSUME Whole, Build, todo # <<>>, todo' = Tail(todo), bits' = 0, count' = 0, sorted' = sorted
  PROVE  /\ Done' = Done + 1 /\ Progress' /\ Packing' /\ SortedWhole'
<1>1. /\ iface # <<>> /\ iface' = iface /\ table \in Tables /\ Calls' = Calls
      /\ todo \in Seq(AnyCall) /\ Len(todo) \in 1..26
      /\ Done = 26 - Len(todo) /\ sorted = <<>>
  BY Going
<1>2. table' = table
  BY DEF Build
<1>3. /\ todo' \in Seq(AnyCall) /\ Len(todo') = Len(todo) - 1
      /\ \A i \in 1..Len(todo') : todo'[i] = todo[i + 1]
  BY <1>1
<1>4. Done' = 26 - Len(todo')
  BY <1>1 DEF Done
<1>5. Done' = Done + 1
  BY <1>1, <1>3, <1>4
<1>6. \A i \in 1..Len(todo') : todo'[i] = Calls[Done' + i]
  <2>1. \A i \in 2..Len(todo) : todo[i] = Calls[Done + i]
    BY <1>1 DEF Whole, Progress
  <2> TAKE i \in 1..Len(todo')
  <2>2. i + 1 \in 2..Len(todo) /\ Done + (i + 1) = Done' + i
    BY <1>1, <1>3, <1>4
  <2> QED BY <1>3, <2>1, <2>2
<1>7. Progress'
  <2>1. \A i \in 2..Len(todo') : todo'[i] = Calls'[Done' + i]
    BY <1>1, <1>3, <1>6
  <2>2. todo' # <<>> => Resumes(todo'[1], Calls'[Done' + 1])
    <3> SUFFICES ASSUME todo' # <<>> PROVE Resumes(todo'[1], Calls'[Done' + 1])
      OBVIOUS
    <3>1. 1 \in 1..Len(todo')
      BY <1>3
    <3> QED BY <1>1, <1>6, <3>1, ResumesItself
  <2>3. Len(todo') <= 26
    <3>1. \A n \in 1..26 : n - 1 <= 26
      OBVIOUS
    <3> QED BY <1>1, <1>3, <3>1
  <2> QED BY <1>1, <1>2, <2>1, <2>2, <2>3 DEF Progress
<1>8. Packing'
  <2> SUFFICES ASSUME Underway' PROVE Packing'
    BY DEF Packing
  <2>1. Head(todo') = Calls'[Done' + 1] /\ Head(todo') \in AnyCall
    <3>1. todo' # <<>>
      BY DEF Underway
    <3>2. 1 \in 1..Len(todo') /\ Head(todo') = todo'[1] /\ Head(todo') \in AnyCall
      BY <1>3, <3>1
    <3> QED BY <1>1, <1>6, <3>2
  <2>2. Reached' = 0
    <3>1. Head(todo') \in MappingCall
      BY <2>1 DEF Underway, AnyCall, ObjectCall
    <3>2. Len(Head(todo').objects) \in Nat
      BY <3>1 DEF MappingCall
    <3>3. Reached' = Len(Calls'[Done' + 1].objects) - Len(Head(todo').objects)
      BY DEF Reached, Objects
    <3>4. Reached' = Len(Head(todo').objects) - Len(Head(todo').objects)
      BY <2>1, <3>3
    <3> QED BY ONLY <3>2, <3>4
  <2>3. /\ {} \in SUBSET (1..0) /\ Chosen(Objects', {}, 0) /\ Total(Objects', {}) = 0
        /\ Cardinality({}) = 0 /\ Carried(dict', Index', Objects', {})
    BY ChosenNone DEF Carried
  <2> QED BY <2>2, <2>3 DEF Packing
<1>9. SortedWhole'
  BY <1>1 DEF SortedWhole
<1> QED BY <1>5, <1>7, <1>8, <1>9

EntryOf(e, addr, direct, pdo, data) ==
  /\ e.addr = addr /\ e.direct = direct /\ e.pdo = pdo
  /\ direct => e.data = data

\* A new entry has the next number, and storage of that number unless it is direct.
LEMMA EntryAdded ==
  ASSUME Shaped, Live, NEW a \in Address, NEW direct \in BOOLEAN, NEW pdo \in BOOLEAN,
         NEW data \in Nat, AddObject(a, direct, pdo, data), \A e \in dict : e.addr # a
  PROVE  /\ Shaped' /\ Live'
         /\ \E e : dict' = dict \cup {e} /\ EntryOf(e, a, direct, pdo, data)
<1> DEFINE n == added + 1
           e == [addr |-> a, direct |-> direct, pdo |-> pdo, nr |-> n,
                 data |-> IF direct THEN data ELSE n]
<1>1. added' = n /\ n \in Nat /\ n >= 1 /\ dict' = dict \cup {e}
  BY DEF AddObject, Shaped
<1>2. /\ e.addr = a /\ e.direct = direct /\ e.pdo = pdo /\ (direct => e.data = data)
      /\ (~direct => e.data = n)
  OBVIOUS
<1>3. e \in Entry'
  BY <1>1 DEF Entry, Address
<1> HIDE DEF e
<1>4. dict \subseteq Entry'
  <2>1. 1..added \subseteq 1..added'
    BY <1>1 DEF Shaped
  <2> QED BY <2>1 DEF Shaped, Entry
<1>5. Shaped'
  <2>1. IsFiniteSet(dict')
    BY <1>1, FS_AddElement DEF Shaped
  <2>2. \A d, f \in dict' : d.addr = f.addr => d = f
    BY <1>1, <1>2 DEF Shaped
  <2> QED BY <1>1, <1>3, <1>4, <2>1, <2>2 DEF Shaped
<1>6. Live'
  <2>1. objStorage' = IF direct THEN objStorage ELSE Allocate(objStorage, a, n)
    BY <1>1 DEF AddObject
  <2> HIDE DEF n
  <2>2. /\ \A x \in DOMAIN objStorage : x # a => /\ x \in DOMAIN objStorage'
                                              /\ objStorage'[x] = objStorage[x]
        /\ ~direct => a \in DOMAIN objStorage' /\ objStorage'[a] = n
    BY <2>1 DEF Allocate
  <2>3. ASSUME NEW d \in dict', ~d.direct
        PROVE  d.addr \in DOMAIN objStorage' /\ objStorage'[d.addr] = d.data
    <3>1. CASE d = e
      BY <1>2, <2>2, <2>3, <3>1
    <3>2. CASE d \in dict
      BY <2>2, <2>3, <3>2 DEF Live
    <3> QED BY <1>1, <3>1, <3>2
  <2> QED BY <2>3 DEF Live
<1>7. EntryOf(e, a, direct, pdo, data)
  BY <1>2 DEF EntryOf
<1> QED BY <1>1, <1>5, <1>6, <1>7

LEMMA MadeStays ==
  ASSUME NEW c, NEW D, NEW e, MadeOf(D, c)
  PROVE  MadeOf(D \cup {e}, c)
BY DEF MadeOf

LEMMA CarriedStays ==
  ASSUME NEW D, NEW e, NEW index, NEW o, NEW S, Carried(D, index, o, S)
  PROVE  Carried(D \cup {e}, index, o, S)
BY DEF Carried

LEMMA FilledStays ==
  ASSUME NEW c, NEW D, NEW e, FilledBy(D, c), e.addr.index # MappingIndex(c.num)
  PROVE  FilledBy(D \cup {e}, c)
<1>1. PICK S \in SUBSET (1..Len(c.objects)) :
        /\ Chosen(c.objects, S, Len(c.objects))
        /\ Carried(D, MappingIndex(c.num), c.objects, S)
        /\ \E z \in D : z.addr = At(MappingIndex(c.num), 0) /\ z.direct /\ z.data = Cardinality(S)
        /\ \A d \in D : d.addr.index = MappingIndex(c.num) => d.addr.sub <= Cardinality(S)
  BY DEF FilledBy
<1>2. Carried(D \cup {e}, MappingIndex(c.num), c.objects, S)
  BY <1>1, CarriedStays
<1>3. \E z \in D \cup {e} :
        z.addr = At(MappingIndex(c.num), 0) /\ z.direct /\ z.data = Cardinality(S)
  BY <1>1
<1>4. \A d \in D \cup {e} : d.addr.index = MappingIndex(c.num) => d.addr.sub <= Cardinality(S)
  BY <1>1
<1> QED BY <1>1, <1>2, <1>3, <1>4 DEF FilledBy

\* A call that is done leaves what it was to make, and what was there before.
LEMMA Finishes ==
  ASSUME Whole, Build, todo # <<>>, Done' = Done + 1,
         NEW e, dict' = dict \cup {e}, e.addr \in Claims(Calls[Done + 1]),
         \A d \in dict : \E j \in 1..(Done + 1) : d.addr \in Claims(Calls[j]),
         Calls[Done + 1].do = "object" => MadeOf(dict', Calls[Done + 1]),
         Calls[Done + 1].do = "mapping" => FilledBy(dict', Calls[Done + 1])
  PROVE  Claimed' /\ Made' /\ Filled'
<1>1. table \in Tables /\ Calls' = Calls /\ Done \in 0..25 /\ Done + 1 \in 1..26
  BY Going
<1>2. /\ \A i, j \in 1..26 : \A x \in Claims(Calls[i]) :
           Calls[j].do = "mapping" /\ x.index = MappingIndex(Calls[j].num) => i = j
  BY <1>1, CallFacts
<1>3. \A j \in 1..Done' : j \in 1..26 /\ (j \in 1..Done \/ j = Done + 1)
  BY <1>1
<1>4. Done + 1 \notin 1..Done /\ Done + 1 \in 1..(Done + 1)
  BY <1>1
<1>5. Claimed'
  BY <1>1, <1>4 DEF Claimed
<1>6. Made'
  <2>1. \A j \in 1..Done : Calls[j].do = "object" => MadeOf(dict', Calls[j])
    BY MadeStays DEF Whole, Made
  <2> QED BY <1>1, <1>3, <2>1 DEF Made
<1>7. Filled'
  <2>1. ASSUME NEW j \in 1..Done, Calls[j].do = "mapping" PROVE FilledBy(dict', Calls[j])
    <3>1. j \in 1..26 /\ j # Done + 1
      BY <1>1
    <3>2. e.addr.index # MappingIndex(Calls[j].num)
      BY <1>1, <1>2, <2>1, <3>1
    <3>3. FilledBy(dict, Calls[j])
      BY <2>1 DEF Whole, Filled
    <3> QED BY <3>2, <3>3, FilledStays
  <2> QED BY <1>1, <1>3, <2>1 DEF Filled
<1> QED BY <1>5, <1>6, <1>7

LEMMA DefineWhole == Whole /\ Build /\ DefineObject => Whole'
<1> SUFFICES ASSUME Whole, Build, DefineObject PROVE Whole'
  OBVIOUS
<1> DEFINE c == Head(todo)
<1>1. /\ todo # <<>> /\ c.do = "object" /\ AddObject(c.addr, c.direct, c.pdo, c.data)
      /\ todo' = Tail(todo) /\ UNCHANGED <<sorted, bits, count>>
  BY DEF DefineObject
<1>2. /\ table \in Tables /\ Calls' = Calls /\ Done \in 0..25 /\ Done + 1 \in 1..26
      /\ c \in AnyCall /\ Resumes(c, Calls[Done + 1])
  BY <1>1, Going
<1>3. c = Calls[Done + 1] /\ Claims(c) = {c.addr}
  BY <1>1, <1>2 DEF Resumes, Claims
<1>4. c.addr \in Address /\ c.direct \in BOOLEAN /\ c.pdo \in BOOLEAN /\ c.data \in Nat
  BY <1>1, <1>2 DEF AnyCall, ObjectCall, MappingCall
<1>5. ~Underway /\ bits' = 0 /\ count' = 0
  BY <1>1 DEF Underway, Whole, Mapped, Packed
<1>6. \A d \in dict : \E j \in 1..Done : d.addr \in Claims(Calls[j])
  BY <1>5 DEF Whole, Claimed
<1>7. \A d \in dict : d.addr # c.addr
  <2>1. \A i, j \in 1..26 : \A x \in Claims(Calls[i]) : x \in Claims(Calls[j]) => i = j
    BY <1>2, CallFacts
  <2>2. \A j \in 1..Done : j \in 1..26 /\ j # Done + 1
    BY <1>2
  <2> QED BY <1>2, <1>3, <1>6, <2>1, <2>2
<1>8. Done' = Done + 1 /\ Progress' /\ Packing' /\ SortedWhole'
  BY <1>1, <1>5, Advances
<1> HIDE DEF c
<1>9. Shaped' /\ Live'
  BY <1>1, <1>4, <1>7, EntryAdded DEF Whole
<1>10. PICK e : dict' = dict \cup {e} /\ EntryOf(e, c.addr, c.direct, c.pdo, c.data)
  BY <1>1, <1>4, <1>7, EntryAdded DEF Whole
<1>11. Claimed' /\ Made' /\ Filled'
  <2>1. e.addr \in Claims(Calls[Done + 1])
    BY <1>3, <1>10 DEF EntryOf
  <2>2. \A d \in dict : \E j \in 1..(Done + 1) : d.addr \in Claims(Calls[j])
    <3>1. \A j \in 1..Done : j \in 1..(Done + 1)
      BY <1>2
    <3> QED BY <1>6, <3>1
  <2>3. MadeOf(dict', Calls[Done + 1])
    BY <1>3, <1>10 DEF MadeOf, EntryOf
  <2>4. Calls[Done + 1].do # "mapping"
    BY <1>1, <1>3
  <2> QED BY <1>1, <1>8, <1>10, <2>1, <2>2, <2>3, <2>4, Finishes
<1>12. Mapped'
  BY DefineMapped DEF Whole
<1> QED BY <1>8, <1>9, <1>11, <1>12 DEF Whole

\* The addresses of a mapping.
LEMMA MappingAddresses ==
  ASSUME NEW num \in Nat
  PROVE  /\ MappingIndex(num) \in Nat
         /\ Std_TPDOMappingSize(num) = At(MappingIndex(num), 0)
         /\ Std_TPDOMappingSize(num).index = MappingIndex(num)
         /\ \A n \in 0..255 : /\ At(MappingIndex(num), n) \in Address
                             /\ Plus(Std_TPDOMappingSize(num), n) = At(MappingIndex(num), n)
                             /\ ObjectAddress(MappingIndex(num), n) = At(MappingIndex(num), n)
<1> DEFINE c == Clamp(num, 511)
<1>1. c \in Nat
  BY DEF Clamp
<1>2. MappingIndex(num) = \h1A00 + c /\ Std_TPDOMappingSize(num) = ObjectAddress(\h1A00 + c, 0)
  BY DEF MappingIndex, Std_TPDOMappingSize
<1> HIDE DEF c
<1>3. \h1A00 + c \in Nat
  BY <1>1
<1>4. \A n \in 0..255 : n % 256 = n /\ 0 + n = n
  OBVIOUS
<1> DEFINE x == \h1A00 + c
<1> HIDE DEF x
<1>5. x \in Nat
  BY <1>3 DEF x
<1>6. \A n \in 0..255 : ObjectAddress(x, n) = At(x, n) /\ At(x, n) \in Address
  BY <1>4, <1>5 DEF ObjectAddress, At, Address, Byte
<1>7. ObjectAddress(x, 0) = At(x, 0) /\ At(x, 0).index = x /\ At(x, 0).sub = 0
  BY <1>6 DEF At
<1>8. \A n \in 0..255 : Plus(At(x, 0), n) = At(x, n)
  BY <1>4, <1>6, <1>7 DEF Plus
<1>9. MappingIndex(num) = x /\ Std_TPDOMappingSize(num) = At(x, 0)
  BY <1>2, <1>7 DEF x
<1> QED BY <1>5, <1>6, <1>7, <1>8, <1>9

\* While a mapping is under way its entries are those of the objects it has got.
LEMMA MappingGoing ==
  ASSUME Whole, Build, todo # <<>>, Head(todo).do = "mapping"
  PROVE  /\ Underway /\ Calls[Done + 1].do = "mapping" /\ Calls[Done + 1] \in MappingCall
         /\ Head(todo) \in MappingCall /\ Head(todo).num = Calls[Done + 1].num
         /\ Index = MappingIndex(Calls[Done + 1].num)
         /\ bits \in 0..64 /\ count \in 0..64
         /\ \A k \in 0..64 : At(Index, k) \in Claims(Calls[Done + 1])
         /\ \A d \in dict : \/ \E j \in 1..Done : d.addr \in Claims(Calls[j])
                          \/ \E k \in 1..count : d.addr = At(Index, k)
         /\ \A d \in dict : d.addr.index = Index => d.addr.sub \in 1..count
<1>1. /\ table \in Tables /\ Done \in 0..25 /\ Done + 1 \in 1..26
      /\ Head(todo) \in AnyCall /\ Resumes(Head(todo), Calls[Done + 1])
  BY Going
<1>2. /\ Calls \in Seq(AnyCall) /\ Len(Calls) = 26
      /\ \A i, j \in 1..26 : \A x \in Claims(Calls[i]) :
           Calls[j].do = "mapping" /\ x.index = MappingIndex(Calls[j].num) => i = j
  BY <1>1, CallFacts
<1>3. Calls[Done + 1].do = "mapping" /\ Head(todo).num = Calls[Done + 1].num
  BY <1>1 DEF Resumes
<1>4. Calls[Done + 1] \in MappingCall /\ Head(todo) \in MappingCall
  <2>1. Calls[Done + 1] \in AnyCall
    <3>1. Calls \in Seq(AnyCall) /\ Len(Calls) = 26
      BY <1>2
    <3>2. Calls \in Seq(AnyCall) => \A i \in 1..Len(Calls) : Calls[i] \in AnyCall
      OBVIOUS
    <3> QED BY <1>1, <3>1, <3>2
  <2> QED BY <1>1, <1>3, <2>1 DEF AnyCall, ObjectCall
<1>5. Index = MappingIndex(Calls[Done + 1].num)
  BY <1>3 DEF Index
<1>6. bits \in 0..64 /\ count \in 0..64
  BY DEF Whole, Mapped, Packed
<1>7. \A k \in 0..64 : At(Index, k) \in Claims(Calls[Done + 1])
  BY <1>3, <1>5 DEF Claims
<1>8. \A d \in dict : \/ \E j \in 1..Done : d.addr \in Claims(Calls[j])
                    \/ \E k \in 1..count : d.addr = At(Index, k)
  BY DEF Whole, Claimed
<1>9. ASSUME NEW d \in dict, d.addr.index = Index PROVE d.addr.sub \in 1..count
  <2>1. ASSUME NEW j \in 1..Done, d.addr \in Claims(Calls[j]) PROVE FALSE
    <3>1. j \in 1..26 /\ j # Done + 1
      BY <1>1
    <3> QED BY <1>1, <1>2, <1>3, <1>5, <1>9, <2>1, <3>1
  <2>2. \A k : At(Index, k).sub = k
    BY DEF At
  <2> QED BY <1>8, <2>1, <2>2
<1> QED BY <1>3, <1>4, <1>5, <1>6, <1>7, <1>8, <1>9 DEF Underway

\* What a mapping under way looks at next.
LEMMA MappingReached ==
  ASSUME Whole, Build, todo # <<>>, Head(todo).do = "mapping"
  PROVE  /\ Objects \in Seq(Mappable) /\ Reached \in 0..Len(Objects)
         /\ Head(todo).objects \in Seq(Mappable)
         /\ Head(todo).objects = <<>> => Reached = Len(Objects)
         /\ Head(todo).objects # <<>> => /\ Reached + 1 \in 1..Len(Objects)
                                        /\ Head(Head(todo).objects) = Objects[Reached + 1]
<1> DEFINE o == Objects
           r == Head(todo).objects
           n == Len(o)
           m == Len(r)
<1>1. o \in Seq(Mappable) /\ r \in Seq(Mappable)
  BY MappingGoing DEF Objects, MappingCall
<1>2. /\ m <= n /\ \A i \in 1..m : r[i] = o[n - m + i]
      /\ Reached = n - m
  BY Going, MappingGoing DEF Resumes, Objects, Reached
<1> HIDE DEF o, r
<1>3. n \in Nat /\ m \in Nat /\ (r = <<>> => m = 0) /\ (r # <<>> => m # 0 /\ Head(r) = r[1])
  BY <1>1
<1> HIDE DEF n, m
<1>4. n - m \in 0..n /\ (m = 0 => n - m = n) /\ (m # 0 => (n - m) + 1 \in 1..n)
  BY <1>2, <1>3
<1>5. r # <<>> => Head(r) = o[Reached + 1]
  BY <1>2, <1>3
<1>6. Reached \in 0..n /\ (r = <<>> => Reached = n) /\ (r # <<>> => Reached + 1 \in 1..n)
  BY <1>2, <1>3, <1>4
<1> QED BY <1>1, <1>5, <1>6 DEF o, r, n

\* The size, and the next object, go to addresses that are free.
LEMMA MappingFresh ==
  ASSUME Whole, Build, todo # <<>>, Head(todo).do = "mapping", NEW k \in {0, count + 1}
  PROVE  \A d \in dict : d.addr # At(Index, k)
<1>1. count \in 0..64 /\ \A d \in dict : d.addr.index = Index => d.addr.sub \in 1..count
  BY MappingGoing
<1>2. At(Index, k).index = Index /\ At(Index, k).sub = k
  BY DEF At
<1>3. k \notin 1..count
  BY <1>1
<1> QED BY <1>1, <1>2, <1>3

\* The widths of objects.
LEMMA ObjectWidths ==
  ASSUME NEW o \in Seq(Mappable)
  PROVE  \A i \in 1..Len(o) : o[i].width \in Nat /\ o[i].width >= 1
<1>1. \A i \in 1..Len(o) : o[i] \in Mappable
  OBVIOUS
<1>2. \A x \in Mappable : x.width \in 1..255
  <2>1. Byte - 1 = 255
    BY DEF Byte
  <2> QED BY <2>1 DEF Mappable
<1>3. \A w \in 1..255 : w \in Nat /\ w >= 1
  OBVIOUS
<1> QED BY <1>1, <1>2, <1>3

LEMMA SizeWhole == Whole /\ Build /\ MapSize => Whole'
<1> SUFFICES ASSUME Whole, Build, MapSize PROVE Whole'
  OBVIOUS
<1> DEFINE c == Calls[Done + 1]
           size == Std_TPDOMappingSize(Head(todo).num)
<1>1. /\ todo # <<>> /\ Head(todo).do = "mapping" /\ (bits >= 64 \/ Head(todo).objects = <<>>)
  BY DEF MapSize, Mapping
<1>2. /\ AddObject(size, TRUE, FALSE, count)
      /\ todo' = Tail(todo) /\ bits' = 0 /\ count' = 0 /\ sorted' = sorted
  BY DEF MapSize, Mapping
<1>3. todo # <<>> /\ Head(todo).do = "mapping"
  BY DEF MapSize, Mapping
<1>4. /\ Underway /\ c.do = "mapping" /\ c \in MappingCall
      /\ Head(todo) \in MappingCall /\ Head(todo).num = c.num
      /\ Index = MappingIndex(c.num)
      /\ bits \in 0..64 /\ count \in 0..64
      /\ \A k \in 0..64 : At(Index, k) \in Claims(c)
      /\ \A d \in dict : \/ \E j \in 1..Done : d.addr \in Claims(Calls[j])
                       \/ \E k \in 1..count : d.addr = At(Index, k)
      /\ \A d \in dict : d.addr.index = Index => d.addr.sub \in 1..count
  BY <1>3, MappingGoing
<1>5. Done \in 0..25
  BY <1>3, Going
<1>6. size = At(Index, 0) /\ size \in Address
  <2>1. c.num \in Nat
    BY <1>4 DEF MappingCall
  <2>2. Std_TPDOMappingSize(c.num) = At(MappingIndex(c.num), 0)
    BY <2>1, MappingAddresses
  <2>3. \A n \in 0..255 : At(MappingIndex(c.num), n) \in Address
    BY <2>1, MappingAddresses
  <2>4. At(MappingIndex(c.num), 0) \in Address
    <3>1. 0 \in 0..255
      OBVIOUS
    <3> QED BY <2>3, <3>1
  <2> QED BY <1>4, <2>2, <2>4
<1>7. \A d \in dict : d.addr # size
  BY <1>3, <1>6, MappingFresh
<1>8. Done' = Done + 1 /\ Progress' /\ Packing' /\ SortedWhole'
  BY <1>2, <1>3, Advances
<1> HIDE DEF size
<1>9. Shaped' /\ Live' /\ \E e : dict' = dict \cup {e} /\ EntryOf(e, size, TRUE, FALSE, count)
  <2>1. count \in Nat
    BY <1>4
  <2> QED BY <1>2, <1>6, <1>7, <2>1, EntryAdded DEF Whole
<1>10. PICK e : dict' = dict \cup {e} /\ e.addr = At(Index, 0) /\ e.direct /\ e.data = count
  BY <1>6, <1>9 DEF EntryOf
<1>11. FilledBy(dict', c)
  <2>1. PICK S \in SUBSET (1..Reached) :
          /\ Chosen(Objects, S, Reached)
          /\ Total(Objects, S) = bits /\ Cardinality(S) = count
          /\ Carried(dict, Index, Objects, S)
    BY <1>4 DEF Whole, Packing
  <2>2. /\ Objects \in Seq(Mappable) /\ Reached \in 0..Len(Objects)
        /\ Head(todo).objects = <<>> => Reached = Len(Objects)
    BY <1>3, MappingReached
  <2>3. Len(Objects) \in Nat /\ Reached \in Nat /\ Reached <= Len(Objects)
    BY <2>2
  <2>4. Chosen(Objects, S, Len(Objects))
    <3>1. CASE Head(todo).objects = <<>>
      BY <2>1, <2>2, <3>1
    <3>2. CASE bits >= 64
      <4>1. Total(Objects, S) = 64
        BY <1>4, <2>1, <3>2
      <4>2. \A i \in 1..Len(Objects) : Objects[i].width \in Nat /\ Objects[i].width >= 1
        BY <2>2, ObjectWidths
      <4> QED BY <2>1, <2>3, <4>1, <4>2, ChosenFull
    <3> QED BY <1>1, <3>1, <3>2
  <2>5. Carried(dict', Index, Objects, S)
    BY <1>10, <2>1, CarriedStays
  <2>6. S \in SUBSET (1..Len(Objects))
    BY <2>3
  <2>7. \E z \in dict' : z.addr = At(Index, 0) /\ z.direct /\ z.data = Cardinality(S)
    BY <1>10, <2>1
  <2>8. \A d \in dict' : d.addr.index = Index => d.addr.sub <= Cardinality(S)
    <3>1. At(Index, 0).sub = 0
      BY DEF At
    <3>2. e.addr.sub <= count
      BY <1>4, <1>10, <3>1
    <3>3. \A d \in dict : d.addr.index = Index => d.addr.sub <= count
      BY <1>4
    <3> QED BY <1>10, <2>1, <3>2, <3>3
  <2>9. Objects = c.objects
    BY DEF Objects
  <2> HIDE DEF c
  <2> QED BY <1>4, <2>4, <2>5, <2>6, <2>7, <2>8, <2>9 DEF FilledBy
<1>12. Claimed' /\ Made' /\ Filled'
  <2>1. e.addr \in Claims(c)
    BY <1>4, <1>10
  <2>2. \A d \in dict : \E j \in 1..(Done + 1) : d.addr \in Claims(Calls[j])
    <3>1. \A j \in 1..Done : j \in 1..(Done + 1)
      BY <1>5
    <3>2. Done + 1 \in 1..(Done + 1)
      BY <1>5
    <3>3. \A k \in 1..count : At(Index, k) \in Claims(Calls[Done + 1])
      BY <1>4
    <3> QED BY <1>4, <3>1, <3>2, <3>3
  <2> QED BY <1>3, <1>4, <1>8, <1>10, <1>11, <2>1, <2>2, Finishes
<1>13. Mapped'
  BY SizeMapped DEF Whole
<1> QED BY <1>8, <1>9, <1>12, <1>13 DEF Whole

\* Looking at an object takes it off the list and changes nothing else of the calls.
LEMMA MapMoves ==
  ASSUME Whole, Build, MapObject
  PROVE  /\ Done' = Done /\ Calls' = Calls /\ Underway' /\ Index' = Index /\ Objects' = Objects
         /\ Reached' = Reached + 1 /\ Progress' /\ SortedWhole'
<1> DEFINE m == Head(todo)
           h == [m EXCEPT !.objects = Tail(m.objects)]
           c == Calls[Done + 1]
<1>1. /\ todo # <<>> /\ m.do = "mapping" /\ m.objects # <<>>
      /\ todo' = <<h>> \o Tail(todo) /\ sorted' = sorted
  BY DEF MapObject, Mapping
<1>2. /\ iface # <<>> /\ iface' = iface /\ table \in Tables /\ Calls' = Calls /\ table' = table
      /\ todo \in Seq(AnyCall) /\ Len(todo) \in 1..26
      /\ m = todo[1] /\ Resumes(m, c) /\ sorted = <<>> /\ Done = 26 - Len(todo)
  BY <1>1, Going DEF Build
<1>3. /\ c.do = "mapping" /\ m \in MappingCall /\ m.num = c.num
  BY <1>1, MappingGoing
<1>4. h.do = "mapping" /\ h.num = m.num /\ h.objects = Tail(m.objects)
  BY <1>1, <1>3 DEF MappingCall
<1>5. /\ m.objects \in Seq(Mappable)
  BY <1>3 DEF MappingCall
<1>6. /\ Len(h.objects) = Len(m.objects) - 1 /\ Len(m.objects) \in Nat /\ Len(m.objects) # 0
      /\ \A i \in 1..Len(h.objects) : h.objects[i] = m.objects[i + 1]
  <2> DEFINE r == m.objects
             t == Tail(r)
  <2>1. r \in Seq(Mappable) /\ r # <<>> /\ h.objects = t
    BY <1>1, <1>4, <1>5
  <2> HIDE DEF r, h
  <2>2. /\ Len(t) = Len(r) - 1 /\ Len(r) \in Nat /\ Len(r) # 0
        /\ \A i \in 1..Len(t) : t[i] = r[i + 1]
    BY <2>1
  <2> QED BY <2>1, <2>2 DEF r
<1> HIDE DEF h
<1>7. /\ Len(todo') = Len(todo) /\ todo'[1] = h /\ todo' # <<>> /\ Head(todo') = h
      /\ \A i \in 2..Len(todo) : todo'[i] = todo[i]
  <2> DEFINE t == Tail(todo)
  <2>1. /\ Len(t) = Len(todo) - 1 /\ Len(todo) \in Nat /\ t \in Seq(AnyCall)
        /\ \A i \in 2..Len(todo) : todo[i] = t[i - 1]
    BY <1>1, <1>2
  <2>2. todo' = <<h>> \o t
    BY <1>1
  <2> HIDE DEF t
  <2>3. /\ Len(<<h>> \o t) = 1 + Len(t) /\ (<<h>> \o t)[1] = h
        /\ \A i \in 2..(1 + Len(t)) : (<<h>> \o t)[i] = t[i - 1]
    BY <2>1
  <2>4. Len(todo') = Len(todo) /\ todo'[1] = h
    BY <2>1, <2>2, <2>3
  <2>5. \A i \in 2..Len(todo) : todo'[i] = todo[i]
    <3>1. 1 + Len(t) = Len(todo)
      BY <2>1
    <3> QED BY <2>1, <2>2, <2>3, <3>1
  <2>6. todo' # <<>> /\ Head(todo') = todo'[1]
    BY <2>1, <2>2, <2>4
  <2> QED BY <2>4, <2>5, <2>6
<1> HIDE DEF m
<1>8. Done' = Done
  BY <1>2, <1>7 DEF Done
<1>9. Underway' /\ Index' = Index /\ Objects' = Objects
  BY <1>2, <1>4, <1>7, <1>8 DEF Underway, Index, Objects, m
<1> DEFINE k == Len(m.objects)
           o == c.objects
           n == Len(o)
<1>10. /\ m.num = c.num /\ k <= n /\ \A i \in 1..k : m.objects[i] = o[n - k + i]
       /\ n \in Nat /\ k \in Nat /\ k # 0
  <2>1. c \in MappingCall
    BY <1>1, MappingGoing DEF m
  <2>2. n \in Nat
    BY <2>1 DEF MappingCall
  <2> QED BY <1>2, <1>3, <1>6, <2>2 DEF Resumes
<1>11. Reached' = Reached + 1
  <2>1. Reached = n - k /\ Reached' = n - Len(h.objects)
    BY <1>2, <1>7, <1>8 DEF Reached, Objects, m
  <2>2. Len(h.objects) = k - 1
    BY <1>6
  <2> HIDE DEF n, k
  <2>3. n - (k - 1) = (n - k) + 1
    BY <1>10
  <2> QED BY <2>1, <2>2, <2>3
<1>12. Resumes(h, c)
  <2>1. Len(h.objects) = k - 1
    BY <1>6
  <2>2. \A i \in 1..(k - 1) : h.objects[i] = m.objects[i + 1]
    BY <1>6, <2>1
  <2>3. \A i \in 1..(k - 1) : h.objects[i] = o[n - (k - 1) + i]
    <3>1. \A i \in 1..k : m.objects[i] = o[n - k + i]
      BY <1>10
    <3> HIDE DEF k, n, o
    <3>2. \A i \in 1..(k - 1) : i + 1 \in 1..k /\ n - k + (i + 1) = n - (k - 1) + i
      BY <1>10
    <3> QED BY <2>2, <3>1, <3>2
  <2>4. k - 1 <= n
    <3> HIDE DEF k, n
    <3> QED BY <1>10
  <2> HIDE DEF c
  <2> QED BY <1>3, <1>4, <2>1, <2>3, <2>4 DEF Resumes
<1>13. Progress'
  <2>1. \A i \in 2..Len(todo') : todo'[i] = Calls'[Done' + i]
    BY <1>2, <1>7, <1>8 DEF Whole, Progress
  <2>2. Resumes(todo'[1], Calls'[Done' + 1])
    BY <1>2, <1>7, <1>8, <1>12
  <2>3. Len(todo') <= 26
    <3>1. \A l \in 1..26 : l <= 26
      OBVIOUS
    <3> QED BY <1>2, <1>7, <3>1
  <2> QED BY <1>2, <2>1, <2>2, <2>3 DEF Progress
<1>14. SortedWhole'
  BY <1>1, <1>2 DEF SortedWhole
<1> QED BY <1>2, <1>8, <1>9, <1>11, <1>13, <1>14

\* An object there is no room for is passed over.
LEMMA MapPasses ==
  ASSUME Whole, Build, MapObject, ~Fits(Head(Head(todo).objects).width)
  PROVE  Whole'
<1>1. /\ Done' = Done /\ Calls' = Calls /\ Underway' /\ Index' = Index /\ Objects' = Objects
      /\ Reached' = Reached + 1 /\ Progress' /\ SortedWhole'
  BY MapMoves
<1>2. /\ todo # <<>> /\ Head(todo).do = "mapping" /\ Head(todo).objects # <<>>
      /\ UNCHANGED <<bits, count, dict, objStorage, added>>
  BY DEF MapObject, Mapping
<1>3. Underway
  BY <1>2 DEF Underway
<1>4. Shaped' /\ Live' /\ Claimed' /\ Made' /\ Filled'
  BY <1>1, <1>2, <1>3 DEF Whole, Shaped, Live, Claimed, Made, Filled, Entry
<1>5. Packing'
  <2>1. PICK S \in SUBSET (1..Reached) :
          /\ Chosen(Objects, S, Reached)
          /\ Total(Objects, S) = bits /\ Cardinality(S) = count
          /\ Carried(dict, Index, Objects, S)
    BY <1>3 DEF Whole, Packing
  <2>2. /\ Objects \in Seq(Mappable) /\ Reached \in 0..Len(Objects)
        /\ Reached + 1 \in 1..Len(Objects)
        /\ Head(Head(todo).objects) = Objects[Reached + 1]
    BY <1>2, MappingReached
  <2>3. Reached \in Nat /\ \A i \in 1..(Reached + 1) : i \in 1..Len(Objects)
    BY <2>2
  <2>4. \A i \in 1..(Reached + 1) : Objects[i].width \in Nat
    BY <2>2, <2>3, ObjectWidths
  <2>5. ~(Total(Objects, S) + Objects[Reached + 1].width <= 64)
    BY <2>1, <2>2 DEF Fits
  <2>6. Chosen(Objects, S, Reached + 1)
    BY <2>1, <2>3, <2>4, <2>5, ChosenNext
  <2>7. S \in SUBSET (1..(Reached + 1))
    BY <2>3
  <2> QED BY <1>1, <1>2, <2>1, <2>6, <2>7 DEF Packing
<1>6. Mapped'
  BY MapMapped DEF Whole
<1> QED BY <1>1, <1>4, <1>5, <1>6 DEF Whole

LEMMA DataType == \A x \in Mappable : TPDOMappedObject(x) \in Nat
<1> SUFFICES ASSUME NEW x \in Mappable PROVE TPDOMappedObject(x) \in Nat
  OBVIOUS
<1>1. x.addr \in Address
  BY AddressType DEF Mappable, App_Data1, App_Data2, App_Data3
<1>2. x.width \in Nat
  <2>1. Byte - 1 = 255
    BY DEF Byte
  <2>2. x.width \in 1..255
    BY <2>1 DEF Mappable
  <2> QED BY <2>2
<1>3. FullRef(x.addr) \in Nat
  BY <1>1, KeyType
<1> QED BY <1>2, <1>3 DEF TPDOMappedObject, Byte

\* An object that fits gets the next subindex.
LEMMA MapFits ==
  ASSUME Whole, Build, MapObject, Fits(Head(Head(todo).objects).width)
  PROVE  Whole'
<1> DEFINE p == Reached + 1
           object == Head(Head(todo).objects)
           c == Calls[Done + 1]
<1>1. /\ Done' = Done /\ Calls' = Calls /\ Underway' /\ Index' = Index /\ Objects' = Objects
      /\ Reached' = Reached + 1 /\ Progress' /\ SortedWhole'
  BY MapMoves
<1>2. /\ todo # <<>> /\ Head(todo).do = "mapping" /\ Head(todo).objects # <<>>
  BY DEF MapObject, Mapping
<1>3. /\ bits' = bits + object.width /\ count' = (count + 1) % Byte
      /\ AddObject(Plus(Std_TPDOMappingSize(Head(todo).num), count'), TRUE, FALSE,
                   TPDOMappedObject(object))
  BY DEF MapObject, Mapping
<1>4. /\ Underway /\ c.do = "mapping" /\ c \in MappingCall
      /\ Head(todo) \in MappingCall /\ Head(todo).num = c.num
      /\ Index = MappingIndex(c.num)
      /\ bits \in 0..64 /\ count \in 0..64
      /\ \A k \in 0..64 : At(Index, k) \in Claims(c)
      /\ \A d \in dict : \/ \E j \in 1..Done : d.addr \in Claims(Calls[j])
                       \/ \E k \in 1..count : d.addr = At(Index, k)
      /\ \A d \in dict : d.addr.index = Index => d.addr.sub \in 1..count
  BY <1>2, MappingGoing
<1>5. table \in Tables /\ Done \in 0..25 /\ Done + 1 \in 1..26
  BY <1>2, Going
<1>6. /\ Objects \in Seq(Mappable) /\ Reached \in 0..Len(Objects) /\ p \in 1..Len(Objects)
      /\ object = Objects[p] /\ object \in Mappable
  <2>1. /\ Objects \in Seq(Mappable) /\ Reached \in 0..Len(Objects) /\ p \in 1..Len(Objects)
        /\ object = Objects[p]
    BY <1>2, MappingReached
  <2> HIDE DEF p, object
  <2> QED BY <2>1
<1>7. Mapped'
  BY MapMapped DEF Whole
<1>8. count' = count + 1 /\ count' \in 1..64
  <2>1. \A k \in 0..64 : (k + 1) % 256 = k + 1 /\ k + 1 \in 1..65
    OBVIOUS
  <2>2. count' = count + 1 /\ count' \in 1..65
    BY <1>3, <1>4, <2>1 DEF Byte
  <2>3. bits' \in 0..64 /\ count' \in 0..bits'
    BY <1>7 DEF Mapped, Packed
  <2> QED BY <2>2, <2>3
<1> DEFINE a == At(Index, count')
<1>9. Plus(Std_TPDOMappingSize(Head(todo).num), count') = a /\ a \in Address
  <2>1. c.num \in Nat
    BY <1>4 DEF MappingCall
  <2>2. \A n \in 0..255 : /\ At(MappingIndex(c.num), n) \in Address
                        /\ Plus(Std_TPDOMappingSize(c.num), n) = At(MappingIndex(c.num), n)
    BY <2>1, MappingAddresses
  <2>3. count' \in 0..255
    BY <1>8
  <2> QED BY <1>4, <2>2, <2>3
<1>10. \A d \in dict : d.addr # a
  BY <1>2, <1>8, MappingFresh
<1>11. TPDOMappedObject(object) \in Nat
  BY <1>6, DataType
<1> HIDE DEF a, object, c, p
<1>12. /\ Shaped' /\ Live'
       /\ \E e : dict' = dict \cup {e} /\ EntryOf(e, a, TRUE, FALSE, TPDOMappedObject(object))
  BY <1>3, <1>9, <1>10, <1>11, EntryAdded DEF Whole
<1>13. PICK e : dict' = dict \cup {e} /\ e.addr = a /\ e.data = TPDOMappedObject(object)
  BY <1>12 DEF EntryOf
<1>14. Claimed'
  <2>1. \A k \in 1..count : k \in 1..count'
    BY <1>4, <1>8
  <2>2. count' \in 1..count'
    BY <1>8
  <2>3. ASSUME NEW d \in dict'
        PROVE  \/ \E j \in 1..Done : d.addr \in Claims(Calls[j])
               \/ \E k \in 1..count' : d.addr = At(Index, k)
    BY <1>4, <1>13, <2>1, <2>2 DEF a
  <2> QED BY <1>1, <2>3 DEF Claimed
<1>15. Made'
  BY <1>1, <1>13, MadeStays DEF Whole, Made
<1>16. Filled'
  <2>1. ASSUME NEW j \in 1..Done, Calls[j].do = "mapping" PROVE FilledBy(dict', Calls[j])
    <3>1. j \in 1..26 /\ j # Done + 1
      BY <1>5
    <3>2. \A i, k \in 1..26 : \A x \in Claims(Calls[i]) :
            Calls[k].do = "mapping" /\ x.index = MappingIndex(Calls[k].num) => i = k
      BY <1>5, CallFacts
    <3>3. e.addr \in Claims(Calls[Done + 1])
      <4>1. count' \in 0..64
        BY <1>8
      <4> QED BY <1>4, <1>13, <4>1 DEF a, c
    <3>4. e.addr.index # MappingIndex(Calls[j].num)
      BY <1>5, <2>1, <3>1, <3>2, <3>3
    <3>5. FilledBy(dict, Calls[j])
      BY <2>1 DEF Whole, Filled
    <3> QED BY <1>13, <3>4, <3>5, FilledStays
  <2> QED BY <1>1, <2>1 DEF Filled
<1>17. Packing'
  <2>1. PICK S \in SUBSET (1..Reached) :
          /\ Chosen(Objects, S, Reached)
          /\ Total(Objects, S) = bits /\ Cardinality(S) = count
          /\ Carried(dict, Index, Objects, S)
    BY <1>4 DEF Whole, Packing
  <2> DEFINE R == S \cup {Reached + 1}
  <2>2. Reached \in Nat /\ \A i \in 1..(Reached + 1) : i \in 1..Len(Objects)
    BY <1>6 DEF p
  <2>3. \A i \in 1..(Reached + 1) : Objects[i].width \in Nat
    BY <1>6, <2>2, ObjectWidths
  <2>4. Total(Objects, S) + Objects[Reached + 1].width <= 64
    BY <1>6, <2>1 DEF Fits, p, object
  <2>5. /\ Chosen(Objects, R, Reached + 1)
        /\ Total(Objects, R) = Total(Objects, S) + Objects[Reached + 1].width
        /\ Cardinality(R) = Cardinality(S) + 1
        /\ R \cap 1..(Reached + 1) = R
        /\ \A i \in S : R \cap 1..i = S \cap 1..i
    BY <2>1, <2>2, <2>3, <2>4, ChosenNext
  <2>6. R \in SUBSET (1..(Reached + 1))
    BY <2>2
  <2> HIDE DEF R
  <2>7. Total(Objects', R) = bits' /\ Cardinality(R) = count'
    BY <1>1, <1>3, <1>6, <1>8, <2>1, <2>5 DEF p
  <2>8. Carried(dict', Index', Objects', R)
    <3>1. ASSUME NEW i \in S
          PROVE  \E d \in dict' : /\ d.addr = At(Index, Cardinality(R \cap 1..i))
                                /\ d.data = TPDOMappedObject(Objects[i])
      BY <1>13, <2>1, <2>5 DEF Carried
    <3>2. \E d \in dict' : /\ d.addr = At(Index, Cardinality(R \cap 1..(Reached + 1)))
                         /\ d.data = TPDOMappedObject(Objects[Reached + 1])
      BY <1>6, <1>8, <1>13, <2>1, <2>5 DEF a, p
    <3>3. \A i \in R : i \in S \/ i = Reached + 1
      BY DEF R
    <3> QED BY <1>1, <3>1, <3>2, <3>3 DEF Carried
  <2> QED BY <1>1, <2>5, <2>6, <2>7, <2>8 DEF Packing
<1> QED BY <1>1, <1>7, <1>12, <1>14, <1>15, <1>16, <1>17 DEF Whole

LEMMA SortWhole == Whole /\ Build /\ Sort => Whole'
<1> SUFFICES ASSUME Whole, Build, Sort PROVE Whole'
  OBVIOUS
<1>1. /\ todo = <<>> /\ iface # <<>> /\ sorted' = SortOf(dict)
      /\ UNCHANGED <<todo, dict, objStorage, added, bits, count, iface, table>>
  BY DEF Build, Sort, SortOf
<1>2. Mapped'
  BY <1>1 DEF Whole, Mapped, Packed, Entered, Underway, MappingComplete
<1>3. Done' = Done /\ Calls' = Calls /\ ~Underway /\ ~Underway' /\ Entry' = Entry
  BY <1>1 DEF Done, Calls, Underway, Entry
<1>4. Progress' /\ Shaped' /\ Live' /\ Packing'
  BY <1>1, <1>3 DEF Whole, Progress, Shaped, Live, Packing
<1>5. Claimed' /\ Made' /\ Filled'
  BY <1>1, <1>3 DEF Whole, Claimed, Made, Filled
<1>6. SortedWhole'
  BY <1>1 DEF SortedWhole
<1> QED BY <1>2, <1>4, <1>5, <1>6 DEF Whole

LEMMA MapWhole == Whole /\ Build /\ MapObject => Whole'
BY MapPasses, MapFits

LEMMA NextWhole == Whole /\ [Next]_vars => Whole'
BY ParseWhole, ConstructWhole, DefineWhole, MapWhole, SizeWhole, SortWhole
   DEF Next, Build, BuildStep

LEMMA AlwaysWhole == Spec => []Whole
BY InitWhole, NextWhole, PTL DEF Spec

\* What an entry points to is never freed: no second entry takes its address.
THEOREM StorageStaysLive == Spec => []StorageLive
<1>1. Whole => StorageLive
  BY DEF Whole, Live, StorageLive
<1> QED BY <1>1, AlwaysWhole, PTL

-----------------------------------------------------------------------------
(* The dictionary when it is built.                                        *)

LEMMA EntriesFound ==
  ASSUME Whole, Built
  PROVE  /\ Dictionary(dict)
         /\ \A e \in dict : CODictFind(e.addr) = {e}
<1>1. Dictionary(dict)
  BY DEF Whole, Shaped, Dictionary, Entry, Address
<1>2. sorted = SortOf(dict)
  BY DEF Whole, SortedWhole, Built
<1>3. /\ Ordered(dict, sorted)
      /\ \A e \in dict : \E i \in 1..Len(sorted) : sorted[i] = e
  BY <1>1, <1>2, SortOrders
<1>4. ASSUME NEW e \in dict PROVE CODictFind(e.addr) = {e}
  <2>1. CODictFind(e.addr) = Hits(e.addr, 1, Len(sorted))
    BY <1>1, <1>3, BisectionFinds DEF Dictionary
  <2>2. \A i \in 1..Len(sorted) : sorted[i] \in dict
    BY <1>3 DEF Ordered
  <2>3. \A i \in 1..Len(sorted) : sorted[i].addr = e.addr => sorted[i] = e
    BY <1>1, <2>2 DEF Dictionary
  <2>4. PICK i \in 1..Len(sorted) : sorted[i] = e
    BY <1>3
  <2> QED BY <2>1, <2>3, <2>4 DEF Hits
<1> QED BY <1>1, <1>4

\* The bisection finds every entry of the sorted dictionary, and no other in its place.
THEOREM EveryEntryFound == Spec => []SearchFinds
<1>1. Whole => SearchFinds
  BY EntriesFound DEF SearchFinds
<1> QED BY <1>1, AlwaysWhole, PTL

Places == 1..26
Counts == {\h1018, \h1200, Comm1, Comm2}

LEMMA BuiltFacts ==
  ASSUME Whole, Built
  PROVE  /\ table \in Tables /\ Layout(Calls, table) /\ Len(Calls) = 26
         /\ Calls \in Seq(AnyCall)
         /\ \A e \in dict : \E j \in Places : e.addr \in Claims(Calls[j])
         /\ \A j \in Places : Calls[j].do = "object" => MadeOf(dict, Calls[j])
         /\ \A j \in Places : Calls[j].do = "mapping" => FilledBy(dict, Calls[j])
         /\ \A d, e \in dict : d.addr = e.addr => d = e
         /\ dict \subseteq Entry
         /\ \A j \in Places : \A a \in Claims(Calls[j]) : Proper(a, j)
         /\ \A index \in Counts : Counted(Calls, index)
<1>1. iface # <<>> /\ todo = <<>>
  BY DEF Whole, SortedWhole, Built
<1>2. table \in Tables /\ Done = 26 /\ ~Underway
  BY <1>1 DEF Whole, Progress, Done, Underway
<1>3. Layout(Calls, table)
  BY <1>2, CallsLaidOut DEF Calls
<1>4. Len(Calls) = 26 /\ Calls \in Seq(AnyCall)
  BY <1>2, CallFacts
<1>5. /\ \A e \in dict : \E j \in Places : e.addr \in Claims(Calls[j])
      /\ \A j \in Places : Calls[j].do = "object" => MadeOf(dict, Calls[j])
      /\ \A j \in Places : Calls[j].do = "mapping" => FilledBy(dict, Calls[j])
  BY <1>2 DEF Whole, Claimed, Made, Filled, Places
<1>6. \A j \in Places : \A a \in Claims(Calls[j]) : Proper(a, j)
  BY <1>3, ClaimsProper DEF Places
<1>7. \A index \in Counts : Counted(Calls, index)
  BY <1>3, CallsCounted DEF Counts
<1> QED BY <1>2, <1>3, <1>4, <1>5, <1>6, <1>7 DEF Whole, Shaped

Subs(x) == {d.addr.sub : d \in {d \in dict : d.addr.index = x}}

LEMMA CountFound ==
  ASSUME Whole, Built, NEW x, NEW h \in Nat,
         NEW z \in dict, z.addr = At(x, 0), z.direct, z.data = h,
         NEW last \in dict, last.addr = At(x, h),
         \A d \in dict : d.addr.index = x => d.addr.sub <= h
  PROVE  \E y \in CODictFind(ObjectAddress(x, 0)) : y.direct /\ y.data = Max(Subs(x))
<1>1. z.addr \in Address /\ \A d \in dict : d.addr.sub \in Nat
  <2>1. dict \subseteq Entry
    BY BuiltFacts
  <2>2. \A d \in dict : d.addr \in Address
    BY <2>1 DEF Entry, Address
  <2>3. \A n \in 0..255 : n \in Nat
    OBVIOUS
  <2> QED BY <2>2, <2>3 DEF Address, Byte
<1>2. x \in Nat
  BY <1>1 DEF At, Address
<1>3. ObjectAddress(x, 0) = z.addr
  <2>1. 0 \in 0..5
    OBVIOUS
  <2> QED BY <1>2, <2>1, Smalls
<1>4. CODictFind(z.addr) = {z}
  BY EntriesFound
<1>5. h \in Subs(x) /\ \A y \in Subs(x) : y \in Nat /\ h >= y
  <2>1. last.addr.index = x /\ last.addr.sub = h
    BY DEF At
  <2> QED BY <1>1, <2>1 DEF Subs
<1>6. Max(Subs(x)) = h
  <2> DEFINE T == Subs(x)
  <2>1. h \in T /\ \A y \in T : y \in Nat /\ h >= y
    BY <1>5
  <2> HIDE DEF T
  <2>2. \A y \in T : (\A w \in T : y >= w) => y = h
    BY <2>1
  <2>3. Max(T) \in T /\ \A w \in T : Max(T) >= w
    BY <2>1 DEF Max
  <2> QED BY <2>2, <2>3 DEF T
<1> QED BY <1>3, <1>4, <1>6

\* The claims of the mappings.
LEMMA MappingClaims ==
  ASSUME Whole, Built
  PROVE  /\ Calls[17].do = "mapping" /\ Calls[17].num = Numbers[1] /\ Calls[17].objects = table[1]
         /\ Calls[23].do = "mapping" /\ Calls[23].num = Numbers[2] /\ Calls[23].objects = table[2]
         /\ MappingIndex(Numbers[1]) = Map1 /\ MappingIndex(Numbers[2]) = Map2
         /\ \A a \in Claims(Calls[17]) : a.index = Map1
         /\ \A a \in Claims(Calls[23]) : a.index = Map2
<1>1. /\ Calls[17] = MappingOf(Numbers[1], table[1])
      /\ Calls[23] = MappingOf(Numbers[2], table[2])
  BY BuiltFacts, CallKinds
<1>2. MappingIndex(Numbers[1]) = Map1 /\ MappingIndex(Numbers[2]) = Map2
  BY DEF MappingIndex, Map1, Map2, First, Second
<1> QED BY <1>1, <1>2 DEF MappingOf, Claims, At

LEMMA MappingCounted ==
  ASSUME Whole, Built, NEW c, c.do = "mapping", Len(c.objects) \in Nat, FilledBy(dict, c)
  PROVE  LET x == MappingIndex(c.num) IN
         \E y \in CODictFind(ObjectAddress(x, 0)) : y.direct /\ y.data = Max(Subs(x))
<1> DEFINE x == MappingIndex(c.num)
<1>1. PICK S \in SUBSET (1..Len(c.objects)) :
        /\ Carried(dict, x, c.objects, S)
        /\ \E z \in dict : z.addr = At(x, 0) /\ z.direct /\ z.data = Cardinality(S)
        /\ \A e \in dict : e.addr.index = x => e.addr.sub <= Cardinality(S)
  BY DEF FilledBy
<1> DEFINE h == Cardinality(S)
<1> HIDE DEF x
<1>2. /\ h \in Nat
      /\ \A n \in 1..h : \E i \in S : Cardinality(S \cap 1..i) = n
  BY Nth
<1>3. \E last \in dict : last.addr = At(x, h)
  <2>1. CASE h = 0
    BY <1>1, <2>1
  <2>2. CASE h # 0
    <3>1. h \in 1..h
      BY <1>2, <2>2
    <3>2. PICK i \in S : Cardinality(S \cap 1..i) = h
      BY <1>2, <3>1
    <3> QED BY <1>1, <3>2 DEF Carried
  <2> QED BY <2>1, <2>2
<1> HIDE DEF h
<1>4. \E y \in CODictFind(ObjectAddress(x, 0)) : y.direct /\ y.data = Max(Subs(x))
  BY <1>1, <1>2, <1>3, CountFound DEF h
<1> QED BY <1>4 DEF x

LEMMA ObjectsCounted ==
  ASSUME Whole, Built, NEW x \in Counts
  PROVE  \E y \in CODictFind(ObjectAddress(x, 0)) : y.direct /\ y.data = Max(Subs(x))
<1>1. Counted(Calls, x)
  BY BuiltFacts
<1>2. PICK j \in Places, k \in Places :
        /\ Calls[j].do = "object" /\ Calls[j].addr = At(x, 0) /\ Calls[j].direct
        /\ Calls[j].data = Highest(x)
        /\ Calls[k].do = "object" /\ Calls[k].addr = At(x, Highest(x))
  BY <1>1 DEF Counted, Places
<1>3. MadeOf(dict, Calls[j]) /\ MadeOf(dict, Calls[k])
  BY <1>2, BuiltFacts
<1>4. PICK z \in dict : z.addr = At(x, 0) /\ z.direct /\ z.data = Highest(x)
  BY <1>2, <1>3 DEF MadeOf
<1>5. PICK last \in dict : last.addr = At(x, Highest(x))
  BY <1>2, <1>3 DEF MadeOf
<1>6. x # Map1 /\ x # Map2
  BY IndicesDiffer DEF Counts
<1>7. \A d \in dict : d.addr.index = x => d.addr.sub <= Highest(x)
  <2> SUFFICES ASSUME NEW d \in dict, d.addr.index = x PROVE d.addr.sub <= Highest(x)
    OBVIOUS
  <2>1. PICK i \in Places : d.addr \in Claims(Calls[i])
    BY BuiltFacts
  <2>2. Proper(d.addr, i)
    BY <2>1, BuiltFacts
  <2>3. i # 17 /\ i # 23
    BY <1>6, <2>1, MappingClaims
  <2> QED BY <2>2, <2>3 DEF Proper
<1>8. Highest(x) \in Nat
  BY DEF Highest
<1> QED BY <1>4, <1>5, <1>7, <1>8, CountFound

\* An object without a count has no subindices.
LEMMA OthersSingle ==
  ASSUME Whole, Built, NEW e \in dict,
         e.addr.index \notin Counts, e.addr.index \notin {Map1, Map2}
  PROVE  Subs(e.addr.index) = {0}
<1> DEFINE x == e.addr.index
<1>1. ASSUME NEW d \in dict, d.addr.index = x PROVE d.addr.sub = 0
  <2>1. PICK i \in Places : d.addr \in Claims(Calls[i])
    BY BuiltFacts
  <2>2. Proper(d.addr, i)
    BY <2>1, BuiltFacts
  <2>3. i # 17 /\ i # 23
    BY <1>1, <2>1, MappingClaims
  <2>4. d.addr.sub <= Highest(x)
    BY <1>1, <2>2, <2>3 DEF Proper
  <2>5. Highest(x) = 0
    BY DEF Highest, Counts
  <2>6. d.addr.sub \in Nat
    <3>1. d \in Entry
      BY BuiltFacts
    <3>2. d.addr.sub \in 0..(Byte - 1)
      BY <3>1 DEF Entry
    <3>3. \A n \in 0..255 : n \in Nat
      OBVIOUS
    <3> QED BY <3>2, <3>3 DEF Byte
  <2> QED BY <2>4, <2>5, <2>6
<1> QED BY <1>1 DEF Subs

LEMMA AllCounted == Whole => SubindicesCounted
<1> SUFFICES ASSUME Whole, Built, NEW e \in dict, Subs(e.addr.index) # {0}
             PROVE  \E z \in CODictFind(ObjectAddress(e.addr.index, 0)) :
                      z.direct /\ z.data = Max(Subs(e.addr.index))
  BY DEF SubindicesCounted, Subs
<1> DEFINE x == e.addr.index
<1>1. CASE x \in Counts
  BY <1>1, ObjectsCounted
<1>2. ASSUME NEW j \in {17, 23}, x = MappingIndex(Calls[j].num)
      PROVE  \E z \in CODictFind(ObjectAddress(x, 0)) : z.direct /\ z.data = Max(Subs(x))
  <2>1. j \in Places /\ Calls[j].do = "mapping"
    BY <1>2, MappingClaims DEF Places
  <2>2. FilledBy(dict, Calls[j])
    BY <2>1, BuiltFacts
  <2>3. Len(Calls[j].objects) \in Nat
    <3>1. table[1] \in Seq(Mappable) /\ table[2] \in Seq(Mappable)
      BY BuiltFacts, TableAssumption
    <3>2. Len(table[1]) \in Nat /\ Len(table[2]) \in Nat
      BY <3>1
    <3> QED BY <1>2, <3>2, MappingClaims
  <2> QED BY <1>2, <2>1, <2>2, <2>3, MappingCounted
<1>3. CASE x \in {Map1, Map2}
  BY <1>2, <1>3, MappingClaims
<1>4. x \in Counts \/ x \in {Map1, Map2}
  BY OthersSingle
<1> QED BY <1>1, <1>3, <1>4

\* Subindex 0 of an object, as the stack finds it, says which is its highest: also for
\* the mapping of a TPDO, whose size becomes known only while it is packed.
THEOREM SubindicesStayCounted == Spec => []SubindicesCounted
BY AllCounted, AlwaysWhole, PTL

\* The entry the stack finds behind the size of a mapping.
LEMMA MappedEntry ==
  ASSUME Whole, Built, NEW num \in Nat, NEW n \in 0..255,
         NEW e \in dict, e.addr = At(MappingIndex(num), n)
  PROVE  (CHOOSE d \in CODictFind(Plus(Std_TPDOMappingSize(num), n)) : TRUE) = e
<1>1. Plus(Std_TPDOMappingSize(num), n) = e.addr
  BY MappingAddresses
<1>2. CODictFind(e.addr) = {e}
  BY EntriesFound
<1> QED BY <1>1, <1>2

\* The objects the TPDOs are made of may be mapped.
LEMMA DataFound ==
  ASSUME Whole, Built, NEW object \in Mappable
  PROVE  \E e \in CODictFind(object.addr) : e.pdo
<1>1. /\ \A i \in 24..26 : Calls[i].pdo
      /\ Calls[24].addr = App_Data1 /\ Calls[25].addr = App_Data2 /\ Calls[26].addr = App_Data3
      /\ \A i \in 1..26 : Calls[i].do = "mapping" <=> i \in {17, 23}
  BY BuiltFacts, CallKinds
<1>2. PICK j \in Places : Calls[j].addr = object.addr /\ Calls[j].pdo /\ j \notin {17, 23}
  <2>1. object.addr \in {App_Data1, App_Data2, App_Data3}
    BY DEF Mappable
  <2>2. 24 \in Places /\ 25 \in Places /\ 26 \in Places
    BY DEF Places
  <2>3. Calls[24].pdo /\ Calls[25].pdo /\ Calls[26].pdo
    <3>1. 24 \in 24..26 /\ 25 \in 24..26 /\ 26 \in 24..26
      OBVIOUS
    <3> QED BY <1>1, <3>1
  <2> QED BY <1>1, <2>1, <2>2, <2>3
<1>3. Calls[j].do = "object"
  <2>1. Calls[j].do # "mapping"
    BY <1>1, <1>2 DEF Places
  <2>2. Calls[j] \in AnyCall
    <3>1. Calls \in Seq(AnyCall) /\ Len(Calls) = 26
      BY BuiltFacts
    <3>2. Calls \in Seq(AnyCall) => \A i \in 1..Len(Calls) : Calls[i] \in AnyCall
      OBVIOUS
    <3> QED BY <3>1, <3>2 DEF Places
  <2> QED BY <2>1, <2>2 DEF AnyCall, ObjectCall, MappingCall
<1>4. MadeOf(dict, Calls[j])
  BY <1>3, BuiltFacts
<1>5. PICK e \in dict : e.addr = object.addr /\ e.pdo
  BY <1>2, <1>4 DEF MadeOf
<1>6. CODictFind(e.addr) = {e}
  BY EntriesFound
<1> QED BY <1>5, <1>6

\* What a mapping is filled with is what the stack reads of it.
Reads(num, o, S) ==
  MappedTo(num) = [n \in 1..Cardinality(S) |->
                     TPDOMappedObject(o[CHOOSE i \in S : Cardinality(S \cap 1..i) = n])]

LEMMA FilledReads ==
  ASSUME Whole, Built, NEW num \in Nat, NEW o \in Seq(Mappable), FilledBy(dict, MappingOf(num, o))
  PROVE  \E S \in SUBSET (1..Len(o)) :
           Chosen(o, S, Len(o)) /\ Reads(num, o, S)
           /\ \A i \in S : \E e \in CODictFind(o[i].addr) : e.pdo
<1> DEFINE x == MappingIndex(num)
<1>1. PICK S \in SUBSET (1..Len(o)) :
        /\ Chosen(o, S, Len(o))
        /\ Carried(dict, x, o, S)
        /\ \E z \in dict : z.addr = At(x, 0) /\ z.direct /\ z.data = Cardinality(S)
  BY DEF FilledBy, MappingOf
<1> DEFINE h == Cardinality(S)
<1>2. /\ h \in Nat
      /\ \A i \in S : Cardinality(S \cap 1..i) \in 1..h
      /\ \A n \in 1..h : \E i \in S : Cardinality(S \cap 1..i) = n
  <2>1. Len(o) \in Nat /\ S \subseteq 1..Len(o)
    OBVIOUS
  <2> QED BY <2>1, Nth
<1> HIDE DEF h
<1>3. \A n \in 1..h : n \in 0..255
  <2> SUFFICES ASSUME NEW n \in 1..h PROVE n \in 0..255
    OBVIOUS
  <2>1. PICK e \in dict : e.addr = At(x, n)
    BY <1>1, <1>2 DEF Carried
  <2>2. e \in Entry
    BY BuiltFacts
  <2>3. e.addr.sub \in 0..(Byte - 1)
    BY <2>2 DEF Entry
  <2>4. e.addr.sub = n
    BY <2>1 DEF At
  <2> QED BY <2>3, <2>4 DEF Byte
<1> DEFINE at(n) == CHOOSE e \in CODictFind(Plus(Std_TPDOMappingSize(num), n)) : TRUE
<1>4. at(0).data = h
  <2>1. PICK z \in dict : z.addr = At(x, 0) /\ z.data = h
    BY <1>1 DEF h
  <2>2. 0 \in 0..255
    OBVIOUS
  <2>3. at(0) = z
    BY <2>1, <2>2, MappedEntry
  <2> QED BY <2>1, <2>3
<1>5. ASSUME NEW n \in 1..h
      PROVE  at(n).data = TPDOMappedObject(o[CHOOSE i \in S : Cardinality(S \cap 1..i) = n])
  <2> DEFINE i == CHOOSE i \in S : Cardinality(S \cap 1..i) = n
  <2>1. i \in S /\ Cardinality(S \cap 1..i) = n
    BY <1>2
  <2> HIDE DEF i
  <2>2. PICK e \in dict : e.addr = At(x, n) /\ e.data = TPDOMappedObject(o[i])
    BY <1>1, <2>1 DEF Carried
  <2>3. at(n) = e
    BY <1>3, <2>2, MappedEntry
  <2>4. at(n).data = TPDOMappedObject(o[i])
    BY <2>2, <2>3
  <2> QED BY <2>4 DEF i
<1>6. MappedTo(num) = [n \in 1..(at(0).data) |-> at(n).data]
  BY DEF MappedTo
<1> HIDE DEF at
<1>7. MappedTo(num) = [n \in 1..h |->
                         TPDOMappedObject(o[CHOOSE i \in S : Cardinality(S \cap 1..i) = n])]
  BY <1>4, <1>5, <1>6
<1>8. Reads(num, o, S)
  BY <1>7 DEF Reads, h
<1>9. \A i \in S : \E e \in CODictFind(o[i].addr) : e.pdo
  <2> TAKE i \in S
  <2>1. o[i] \in Mappable
    <3>1. \A j \in 1..Len(o) : o[j] \in Mappable
      OBVIOUS
    <3> QED BY <3>1
  <2> QED BY <2>1, DataFound
<1> QED BY <1>1, <1>8, <1>9

LEMMA AllFit == Whole => FirstFit
<1> SUFFICES ASSUME Whole, Built, NEW k \in 1..2
             PROVE  LET objects == table[k]
                        before(S, i) ==
                          MapThenSumSet(LAMBDA j : objects[j].width, S \cap 1..(i - 1))
                    IN  \E S \in SUBSET DOMAIN objects :
                          /\ \A i \in DOMAIN objects :
                               i \in S <=> before(S, i) + objects[i].width <= 64
                          /\ MappedTo(Numbers[k]) =
                               [n \in 1..Cardinality(S) |->
                                  TPDOMappedObject(
                                    objects[CHOOSE i \in S : Cardinality(S \cap 1..i) = n])]
                          /\ \A i \in S : \E e \in CODictFind(objects[i].addr) : e.pdo
  BY DEF FirstFit
<1> DEFINE o == table[k]
           num == Numbers[k]
<1>1. o \in Seq(Mappable) /\ num \in Nat
  <2>1. table \in Seq(Mappable) \X Seq(Mappable) /\ Numbers \in Nat \X Nat
    BY BuiltFacts, TableAssumption, NumberAssumption
  <2>2. k = 1 \/ k = 2
    OBVIOUS
  <2> QED BY <2>1, <2>2
<1>2. FilledBy(dict, MappingOf(num, o))
  <2>1. /\ Calls[17] = MappingOf(Numbers[1], table[1])
        /\ Calls[23] = MappingOf(Numbers[2], table[2])
    BY BuiltFacts, CallKinds
  <2>2. 17 \in Places /\ 23 \in Places
    BY DEF Places
  <2>3. FilledBy(dict, Calls[17]) /\ FilledBy(dict, Calls[23])
    BY <2>2, BuiltFacts, MappingClaims
  <2>4. k = 1 \/ k = 2
    OBVIOUS
  <2> QED BY <2>1, <2>3, <2>4
<1> HIDE DEF o, num
<1>3. PICK S \in SUBSET (1..Len(o)) :
        /\ Chosen(o, S, Len(o)) /\ Reads(num, o, S)
        /\ \A i \in S : \E e \in CODictFind(o[i].addr) : e.pdo
  BY <1>1, <1>2, FilledReads
<1>4. DOMAIN o = 1..Len(o)
  BY <1>1
<1>5. \A i \in DOMAIN o :
        i \in S <=> MapThenSumSet(LAMBDA j : o[j].width, S \cap 1..(i - 1)) + o[i].width <= 64
  BY <1>3, <1>4 DEF Chosen, Total
<1>6. MappedTo(num) = [n \in 1..Cardinality(S) |->
                         TPDOMappedObject(o[CHOOSE i \in S : Cardinality(S \cap 1..i) = n])]
  BY <1>3 DEF Reads
<1> QED BY <1>3, <1>4, <1>5, <1>6 DEF o, num

\* A TPDO carries each object for which there is room behind those before it, and no
\* other, in the order of the list, whatever their number and widths.
THEOREM MappingsFitFirst == Spec => []FirstFit
BY AllFit, AlwaysWhole, PTL

-----------------------------------------------------------------------------
(* What is kept of an argument.                                            *)

\* Who can go down from the top reaches every number.
LEMMA Downward ==
  ASSUME NEW n \in Nat, NEW T, n \in T, \A m \in 1..n : m \in T /\ m > 1 => m - 1 \in T
  PROVE  \A m \in 1..n : m \in T
<1> DEFINE R == {k \in 0..(n - 1) : n - k \notin T}
<1> SUFFICES ASSUME NEW m \in 1..n, m \notin T PROVE FALSE
  OBVIOUS
<1>1. R \in SUBSET Nat /\ R # {}
  <2>1. n - m \in 0..(n - 1) /\ n - (n - m) = m
    OBVIOUS
  <2>2. n - m \in R /\ \A k \in 0..(n - 1) : k \in Nat
    BY <2>1
  <2> QED BY <2>2
<1>2. PICK k \in R : \A r \in R : k <= r
  <2> HIDE DEF R
  <2> QED BY <1>1, LeastNumber
<1>3. k \in Nat /\ k # 0 /\ k <= n - 1
  <2>1. k \in 0..(n - 1) /\ n - k \notin T
    BY <1>2
  <2> QED BY <2>1
<1>4. k - 1 \in 0..(n - 1) /\ k - 1 \notin R
  <2>1. k - 1 \in 0..(n - 1) /\ ~(k <= k - 1)
    BY <1>3
  <2> HIDE DEF R
  <2> QED BY <1>2, <2>1
<1>5. n - (k - 1) \in T /\ n - (k - 1) \in 1..n /\ n - (k - 1) > 1
  BY <1>3, <1>4
<1>6. (n - (k - 1)) - 1 \in T
  BY <1>5
<1>7. (n - (k - 1)) - 1 = n - k
  BY <1>3
<1> QED BY <1>2, <1>6, <1>7

\* What the recursion of Kept makes of a function.
KeptFrom(f, arg, n) ==
  IF n > Len(arg) THEN <<>>
  ELSE IF arg[n].text = "" THEN f[n + 1] ELSE <<arg[n]>> \o f[n + 1]

LEMMA KeptRecurs ==
  ASSUME NEW arg, Len(arg) \in Nat
  PROVE  \A n \in 1..(Len(arg) + 1) : Kept(arg)[n] = KeptFrom(Kept(arg), arg, n)
<1> DEFINE L == Len(arg) + 1
           Solves(f, m) == f = [n \in m..L |-> KeptFrom(f, arg, n)]
           T == {m \in 1..L : \E f : Solves(f, m)}
<1>0. L \in Nat /\ L >= 1
  OBVIOUS
<1>1. L \in T
  <2> DEFINE f == [n \in L..L |-> <<>>]
  <2>1. L \in 1..L /\ \A n \in L..L : n > Len(arg)
    BY <1>0
  <2>2. \A n \in L..L : KeptFrom(f, arg, n) = <<>>
    <3> HIDE DEF L
    <3> QED BY <2>1 DEF KeptFrom
  <2>3. Solves(f, L)
    <3> HIDE DEF L
    <3> QED BY <2>2
  <2> HIDE DEF Solves, f, L
  <2> QED BY <2>1, <2>3
<1>2. ASSUME NEW m \in 1..L, m \in T, m > 1 PROVE m - 1 \in T
  <2>1. PICK f : Solves(f, m)
    BY <1>2
  <2> DEFINE g == [n \in (m - 1)..L |-> IF n = m - 1 THEN KeptFrom(f, arg, n) ELSE f[n]]
  <2> HIDE DEF L
  <2>2. \A n \in m..L : n \in (m - 1)..L /\ n # m - 1
    BY <1>0
  <2>3. \A n \in (m - 1)..L : n # m - 1 => n \in m..L
    BY <1>0
  <2>4. \A n \in (m - 1)..L : n <= Len(arg) => n + 1 \in m..L
    BY <1>0, <1>2 DEF L
  <2>5. \A n \in m..L : f[n] = KeptFrom(f, arg, n) /\ g[n] = f[n]
    BY <2>1, <2>2
  <2>6. \A n \in (m - 1)..L : ~(n > Len(arg)) => n <= Len(arg)
    BY <1>0 DEF L
  <2> HIDE DEF g
  <2>7. \A n \in (m - 1)..L : KeptFrom(g, arg, n) = KeptFrom(f, arg, n)
    BY <2>4, <2>5, <2>6 DEF KeptFrom
  <2>8. Solves(g, m - 1)
    BY <2>1, <2>3, <2>5, <2>7 DEF g
  <2>9. m - 1 \in 1..L
    BY <1>0, <1>2
  <2> HIDE DEF Solves
  <2> QED BY <2>8, <2>9
<1>3. 1 \in T
  <2> HIDE DEF L, T
  <2>1. 1 \in 1..L
    BY <1>0
  <2> QED BY <1>0, <1>1, <1>2, <2>1, Downward
<1>4. \E f : Solves(f, 1)
  BY <1>3
<1>5. Kept(arg) = CHOOSE f : Solves(f, 1)
  BY DEF Kept, KeptFrom
<1>6. Solves(Kept(arg), 1)
  <2> HIDE DEF Solves
  <2> QED BY <1>4, <1>5
<1> QED BY <1>6

\* What is kept from a token on: nothing if only blanks follow, otherwise the first that
\* is not blank and what is kept behind it.
Blank(arg, m, n) == \A j \in Nat : m <= j /\ j < n => arg[j].text = ""
KeptAre(arg, n) ==
  /\ Kept(arg)[n] \in Seq(Tokens)
  /\ Kept(arg)[n] = <<>> => Blank(arg, n, Len(arg) + 1)
  /\ Kept(arg)[n] # <<>> =>
       \E r \in n..Len(arg) :
         /\ Blank(arg, n, r)
         /\ Head(Kept(arg)[n]) = arg[r] /\ Tail(Kept(arg)[n]) = Kept(arg)[r + 1]

LEMMA NothingBlank == \A arg : \A k \in Nat : Blank(arg, k, k)
<1>1. \A k, j \in Nat : ~(k <= j /\ j < k)
  OBVIOUS
<1> QED BY <1>1 DEF Blank

LEMMA KeptTokens ==
  ASSUME NEW arg \in Seq(Tokens)
  PROVE  \A n \in 1..(Len(arg) + 1) : KeptAre(arg, n)
<1> DEFINE L == Len(arg) + 1
           kept == Kept(arg)
           T == {m \in 1..L : KeptAre(arg, m)}
<1>0. Len(arg) \in Nat /\ L \in Nat /\ L >= 1 /\ \A n \in 1..Len(arg) : arg[n] \in Tokens
  OBVIOUS
<1>1. \A n \in 1..L : kept[n] = KeptFrom(kept, arg, n)
  BY <1>0, KeptRecurs
<1> HIDE DEF kept
<1>2. L \in T
  <2>1. L \in 1..L /\ L > Len(arg)
    BY <1>0
  <2>2. kept[L] = <<>>
    <3> HIDE DEF L
    <3> QED BY <1>1, <2>1 DEF KeptFrom
  <2>3. Blank(arg, L, Len(arg) + 1)
    BY <1>0, NothingBlank
  <2>4. <<>> \in Seq(Tokens)
    OBVIOUS
  <2>5. KeptAre(arg, L)
    <3> HIDE DEF L
    <3> QED BY <2>2, <2>3, <2>4 DEF KeptAre, kept, L
  <2> HIDE DEF L
  <2> QED BY <2>1, <2>5
<1>3. ASSUME NEW m \in 1..L, m \in T, m > 1 PROVE m - 1 \in T
  <2> DEFINE n == m - 1
             rest1 == kept[m]
  <2>1. n \in 1..L /\ n \in 1..Len(arg) /\ ~(n > Len(arg)) /\ n + 1 = m /\ n < m /\ n \in Nat
    BY <1>0, <1>3
  <2>2. kept[n] = IF arg[n].text = "" THEN rest1 ELSE <<arg[n]>> \o rest1
    <3> HIDE DEF L, n
    <3> QED BY <1>1, <2>1 DEF KeptFrom
  <2>3. /\ rest1 \in Seq(Tokens)
        /\ rest1 = <<>> => Blank(arg, m, L)
        /\ rest1 # <<>> =>
             \E r \in m..Len(arg) : /\ Blank(arg, m, r)
                                    /\ Head(rest1) = arg[r] /\ Tail(rest1) = kept[r + 1]
    BY <1>3 DEF KeptAre, kept
  <2> HIDE DEF n, rest1
  <2>4. CASE arg[n].text = ""
    <3>1. \A r : Blank(arg, m, r) => Blank(arg, n, r)
      <4> SUFFICES ASSUME NEW r, Blank(arg, m, r), NEW j \in Nat, n <= j, j < r
                   PROVE  arg[j].text = ""
        BY DEF Blank
      <4>1. j = n \/ m <= j
        BY <2>1
      <4> QED BY <2>4, <4>1 DEF Blank
    <3>2. \A r \in m..Len(arg) : r \in n..Len(arg)
      BY <2>1
    <3>3. kept[n] = rest1
      BY <2>2, <2>4
    <3>4. KeptAre(arg, n)
      BY <2>3, <3>1, <3>2, <3>3 DEF KeptAre, kept
    <3> HIDE DEF L
    <3> QED BY <2>1, <3>4 DEF n
  <2>5. CASE arg[n].text # ""
    <3>1. arg[n] \in Tokens
      BY <1>0, <2>1
    <3> DEFINE t == arg[n]
    <3>2. kept[n] = <<t>> \o rest1
      BY <2>2, <2>5
    <3> HIDE DEF t
    <3>3. /\ <<t>> \o rest1 \in Seq(Tokens) /\ <<t>> \o rest1 # <<>>
          /\ Head(<<t>> \o rest1) = t /\ Tail(<<t>> \o rest1) = rest1
      <4>1. t \in Tokens /\ rest1 \in Seq(Tokens)
        BY <2>3, <3>1 DEF t
      <4> QED BY ONLY <4>1
    <3>4. Blank(arg, n, n) /\ n \in n..Len(arg)
      BY <2>1, NothingBlank
    <3>5. KeptAre(arg, n)
      BY <2>1, <3>2, <3>3, <3>4 DEF KeptAre, kept, t, rest1
    <3> HIDE DEF L
    <3> QED BY <2>1, <3>5 DEF n
  <2> QED BY <2>4, <2>5
<1>4. \A m \in 1..L : m \in T
  <2> HIDE DEF L, T
  <2> QED BY <1>0, <1>2, <1>3, Downward
<1> QED BY <1>4

-----------------------------------------------------------------------------
(* How far the command line is read, and what it has said by then.         *)

LineTypes ==
  /\ argv \in CommandLines /\ argc \in 0..Len(argv) /\ rest \in Seq(Tokens)
  /\ DOMAIN output \subseteq validArgs
  /\ ended \in {"no", "exit", "failed"}

\* The option stands at token j of argument i of v, among those that were read when token q
\* of argument a + 1 is next.
Seen(option, v, a, q, i, j) ==
  /\ i \in DOMAIN v /\ j \in DOMAIN v[i]
  /\ i > a + 1 \/ (i = a + 1 /\ j < q)
  /\ IsOption(v[i][j], option)

\* What is left of the argument being read starts with its token q.
Remaining(q) ==
  IF argc = Len(argv) THEN rest = <<>> /\ q = 1
  ELSE q \in 1..(Len(argv[argc + 1]) + 1) /\ rest = Kept(argv[argc + 1])[q]

ValueOf(t) == IF Len(t.parts) > 1 THEN t.parts[2] ELSE ""

\* Of the interfaces seen, one is in the first argument and last in it.
Winner(value, v, a, q) ==
  \E i, j : /\ Seen("--iface", v, a, q, i, j) /\ value = ValueOf(v[i][j])
            /\ \A n, m : Seen("--iface", v, a, q, n, m) => i < n \/ (i = n /\ m <= j)

\* The options seen are the keys of launchArgs.
Told(out, v, a, q) ==
  /\ \A option \in validArgs : option \in DOMAIN out <=> \E i, j : Seen(option, v, a, q, i, j)
  /\ "--iface" \in DOMAIN out => Winner(out["--iface"], v, a, q)

Reading == \E q \in Nat : Remaining(q) /\ Told(output, argv, argc, q)

Ending ==
  /\ ended = "exit" <=> "--help" \in DOMAIN output \/ "--version" \in DOMAIN output
  /\ ended = "failed" => argc = 0 /\ rest = <<>> /\ "--iface" \notin DOMAIN output
  /\ iface # <<>> => Parsed /\ "--iface" \in DOMAIN output /\ iface = <<output["--iface"]>>

Line == LineTypes /\ Reading /\ Ending

LEMMA ArgumentTypes ==
  ASSUME argv \in CommandLines
  PROVE  /\ argv \in Seq(Seq(Tokens)) /\ Len(argv) \in Nat /\ DOMAIN argv = 1..Len(argv)
         /\ \A i \in 1..Len(argv) : /\ argv[i] \in Seq(Tokens) /\ Len(argv[i]) \in Nat
                                    /\ DOMAIN argv[i] = 1..Len(argv[i])
                                    /\ \A j \in 1..Len(argv[i]) : argv[i][j] \in Tokens
<1>1. argv \in Seq(Seq(Tokens))
  BY LineAssumption
<1>2. \A i \in 1..Len(argv) : argv[i] \in Seq(Tokens)
  BY <1>1
<1>3. \A s \in Seq(Tokens) : /\ Len(s) \in Nat /\ DOMAIN s = 1..Len(s)
                             /\ \A j \in 1..Len(s) : s[j] \in Tokens
  OBVIOUS
<1> QED BY <1>1, <1>2, <1>3

\* A token is an option if and only if that is what it is split into.
LEMMA KeysAreOptions ==
  ASSUME NEW t \in Tokens, NEW option \in validArgs
  PROVE  /\ IsOption(t, option) <=> SplitArgument(t).key = option
         /\ SplitArgument(t).val = ValueOf(t)
         /\ IsOption(t, option) => t.text # ""
<1>1. /\ t.parts \in Seq(STRING) /\ t.parts # <<>>
      /\ t.text \in {"", "--iface", "--help", "--version"} => t.parts = <<t.text>>
  BY TokenAssumption
<1>2. t.parts \in Seq(STRING)
  BY <1>1, Zenon
<1>3. SplitArgument(t).val = ValueOf(t)
  BY DEF SplitArgument, ValueOf
<1>4. CASE Len(t.parts) > 1
  <2>1. SplitArgument(t).key = t.parts[1]
    BY <1>4 DEF SplitArgument
  <2>2. t.text # ""
    <3> DEFINE n == Len(t.parts)
    <3>1. n \in Nat /\ n > 1
      BY <1>2, <1>4
    <3> HIDE DEF n
    <3>2. n # 1
      BY <3>1
    <3>3. Len(<<"">>) = 1
      OBVIOUS
    <3> QED BY <1>1, <3>3, <3>2, Zenon DEF n
  <2> QED BY <1>3, <1>4, <2>1, <2>2 DEF IsOption
<1>5. CASE ~(Len(t.parts) > 1)
  <2>1. SplitArgument(t).key = t.text
    BY <1>5 DEF SplitArgument
  <2>2. option \in {"", "--iface", "--help", "--version"} /\ option # ""
    BY DEF validArgs
  <2>3. t.text = option => t.parts[1] = option
    <3> SUFFICES ASSUME t.text = option PROVE t.parts[1] = option
      OBVIOUS
    <3>1. t.parts = <<option>>
      BY <1>1, <2>2
    <3> QED BY <3>1
  <2> QED BY <1>3, <1>5, <2>1, <2>2, <2>3 DEF IsOption
<1> QED BY <1>4, <1>5

LEMMA InitLine == Init => Line
<1> SUFFICES ASSUME Init PROVE Line
  OBVIOUS
<1>1. /\ argv \in CommandLines /\ argc = Len(argv) /\ rest = <<>> /\ ended = "no"
      /\ output = [k \in {} |-> ""] /\ iface = <<>>
  BY DEF Init, ArgsInit
<1>2. DOMAIN output = {}
  BY <1>1
<1>3. LineTypes
  <2>1. Len(argv) \in Nat
    BY <1>1, ArgumentTypes
  <2>2. <<>> \in Seq(Tokens)
    OBVIOUS
  <2> QED BY <1>1, <1>2, <2>1, <2>2 DEF LineTypes
<1>4. Told(output, argv, argc, 1)
  <2>1. \A option, i, j : ~Seen(option, argv, argc, 1, i, j)
    <3> SUFFICES ASSUME NEW option, NEW i, NEW j, Seen(option, argv, argc, 1, i, j) PROVE FALSE
      OBVIOUS
    <3>1. i \in 1..Len(argv) /\ Len(argv) \in Nat
      BY <1>1, ArgumentTypes DEF Seen
    <3>2. i > argc + 1 \/ i = argc + 1
      BY DEF Seen
    <3> QED BY <1>1, <3>1, <3>2
  <2> QED BY <1>2, <2>1 DEF Told
<1>5. Reading
  BY <1>1, <1>4 DEF Reading, Remaining
<1>6. Ending
  BY <1>1, <1>2 DEF Ending
<1> QED BY <1>3, <1>5, <1>6 DEF Line

\* When nothing is left of an argument, all of its options were seen.
LEMMA ArgumentRead ==
  ASSUME LineTypes, NEW q \in Nat, Remaining(q), rest = <<>>
  PROVE  \A option \in validArgs : \A i, j :
           Seen(option, argv, argc, q, i, j) <=> Seen(option, argv, argc - 1, 1, i, j)
<1> SUFFICES ASSUME NEW option \in validArgs, NEW i, NEW j
             PROVE  Seen(option, argv, argc, q, i, j) <=> Seen(option, argv, argc - 1, 1, i, j)
  OBVIOUS
<1>1. argv \in CommandLines /\ argc \in 0..Len(argv)
  BY DEF LineTypes
<1>2. Len(argv) \in Nat /\ argc \in Nat
  BY <1>1, ArgumentTypes
<1>3. CASE ~(i \in DOMAIN argv /\ j \in DOMAIN argv[i])
  BY <1>3 DEF Seen
<1>4. CASE i \in DOMAIN argv /\ j \in DOMAIN argv[i]
  <2>1. /\ i \in 1..Len(argv) /\ argv[i] \in Seq(Tokens) /\ Len(argv[i]) \in Nat
        /\ j \in 1..Len(argv[i]) /\ argv[i][j] \in Tokens
    BY <1>1, <1>4, ArgumentTypes
  <2>2. i \in Nat /\ j \in Nat /\ j >= 1 /\ i >= 1 /\ i <= Len(argv) /\ j <= Len(argv[i])
    BY <2>1
  <2>3. CASE i # argc + 1
    <3>1. i > argc + 1 <=> i > argc
      BY <1>2, <2>2, <2>3
    <3>2. i > (argc - 1) + 1 <=> i > argc
      BY <1>2
    <3>3. i = (argc - 1) + 1 => ~(j < 1)
      BY <2>2
    <3> QED BY <2>3, <3>1, <3>2, <3>3 DEF Seen
  <2>4. CASE i = argc + 1
    <3>1. argc # Len(argv)
      BY <1>2, <2>2, <2>4
    <3>2. q \in 1..(Len(argv[i]) + 1) /\ Kept(argv[i])[q] = <<>>
      BY <2>4, <3>1 DEF Remaining
    <3>3. Blank(argv[i], q, Len(argv[i]) + 1)
      <4>1. KeptAre(argv[i], q)
        BY <2>1, <3>2, KeptTokens
      <4> QED BY <3>2, <4>1 DEF KeptAre
    <3>4. ~(j < q) => argv[i][j].text = ""
      <4>1. ~(j < q) => q <= j /\ j < Len(argv[i]) + 1
        BY <2>1, <2>2, <3>2
      <4> QED BY <2>2, <3>3, <4>1 DEF Blank
    <3>5. IsOption(argv[i][j], option) => argv[i][j].text # ""
      BY <2>1, KeysAreOptions
    <3>6. i > (argc - 1) + 1 /\ ~(i > argc + 1)
      BY <1>2, <2>4
    <3> QED BY <2>4, <3>4, <3>5, <3>6 DEF Seen
  <2> QED BY <2>3, <2>4
<1> QED BY <1>3, <1>4

LEMMA ToldSame ==
  ASSUME NEW out, NEW v, NEW a, NEW p, NEW b, NEW q, Told(out, v, a, p),
         \A option \in validArgs : \A i, j :
           Seen(option, v, a, p, i, j) <=> Seen(option, v, b, q, i, j)
  PROVE  Told(out, v, b, q)
<1>1. "--iface" \in validArgs
  BY DEF validArgs
<1>2. ASSUME NEW x, Winner(x, v, a, p) PROVE Winner(x, v, b, q)
  BY <1>1, <1>2 DEF Winner
<1> QED BY <1>2 DEF Told

LEMMA ReadArgumentLine == Line /\ Parse /\ ReadArgument => Line'
<1> SUFFICES ASSUME Line, Parse, ReadArgument PROVE Line'
  OBVIOUS
<1>1. /\ ended = "no" /\ rest = <<>> /\ argc > 0 /\ argc' = argc - 1
      /\ rest' = Kept(argv[argc])[1]
      /\ argv' = argv /\ output' = output /\ ended' = ended /\ iface' = iface
  BY DEF ReadArgument, Parse, Split
<1>2. /\ argv \in CommandLines /\ argc \in 0..Len(argv) /\ DOMAIN output \subseteq validArgs
  BY DEF Line, LineTypes
<1>3. /\ Len(argv) \in Nat /\ argc \in 1..Len(argv) /\ argv[argc] \in Seq(Tokens)
      /\ Len(argv[argc]) \in Nat
  <2>1. Len(argv) \in Nat
    BY <1>2, ArgumentTypes
  <2>2. argc \in 1..Len(argv)
    BY <1>1, <1>2, <2>1
  <2> QED BY <1>2, <2>1, <2>2, ArgumentTypes
<1>4. 1 \in 1..(Len(argv[argc]) + 1)
  BY <1>3
<1>5. LineTypes'
  <2>1. rest' \in Seq(Tokens)
    BY <1>1, <1>3, <1>4, KeptTokens DEF KeptAre
  <2>2. argc' \in 0..Len(argv)
    BY <1>1, <1>3
  <2> QED BY <1>1, <1>2, <2>1, <2>2 DEF LineTypes
<1>6. Reading'
  <2>1. PICK q \in Nat : Remaining(q) /\ Told(output, argv, argc, q)
    BY DEF Line, Reading
  <2>2. \A option \in validArgs : \A i, j :
          Seen(option, argv, argc, q, i, j) <=> Seen(option, argv, argc - 1, 1, i, j)
    BY <1>1, <2>1, ArgumentRead DEF Line
  <2>3. Told(output, argv, argc - 1, 1)
    BY <2>1, <2>2, ToldSame
  <2>4. Told(output', argv', argc', 1)
    BY <1>1, <2>3
  <2>5. Remaining(1)'
    <3>1. argc' + 1 = argc /\ argc' # Len(argv)
      BY <1>1, <1>3
    <3> QED BY <1>1, <1>4, <3>1 DEF Remaining
  <2> QED BY <2>4, <2>5 DEF Reading
<1>7. iface = <<>>
  BY <1>1 DEF Line, Ending, Parsed
<1>8. Ending'
  BY <1>1, <1>7 DEF Line, Ending
<1> QED BY <1>5, <1>6, <1>8 DEF Line

\* The next token that is kept.
LEMMA NextToken ==
  ASSUME LineTypes, NEW q \in Nat, Remaining(q), rest # <<>>
  PROVE  /\ argc + 1 \in 1..Len(argv)
         /\ \E r \in q..Len(argv[argc + 1]) :
              /\ q >= 1
              /\ Blank(argv[argc + 1], q, r) /\ Head(rest) = argv[argc + 1][r]
              /\ Tail(rest) = Kept(argv[argc + 1])[r + 1]
<1>1. argc # Len(argv) /\ rest = Kept(argv[argc + 1])[q] /\ q \in 1..(Len(argv[argc + 1]) + 1)
  BY DEF Remaining
<1>2. argc + 1 \in 1..Len(argv) /\ argv[argc + 1] \in Seq(Tokens)
  <2>1. Len(argv) \in Nat /\ argc \in 0..Len(argv)
    BY ArgumentTypes DEF LineTypes
  <2>2. argc + 1 \in 1..Len(argv)
    BY <1>1, <2>1
  <2> QED BY <2>2, ArgumentTypes DEF LineTypes
<1>3. KeptAre(argv[argc + 1], q)
  BY <1>1, <1>2, KeptTokens
<1> QED BY <1>1, <1>2, <1>3 DEF KeptAre

\* Reading it adds the option that it is, if it is one.
LEMMA SeenNext ==
  ASSUME LineTypes, NEW q \in Nat, q >= 1, argc + 1 \in 1..Len(argv),
         NEW r \in q..Len(argv[argc + 1]), Blank(argv[argc + 1], q, r)
  PROVE  \A option \in validArgs : \A i, j :
           Seen(option, argv, argc, r + 1, i, j) <=>
             \/ Seen(option, argv, argc, q, i, j)
             \/ i = argc + 1 /\ j = r /\ IsOption(argv[argc + 1][r], option)
<1> SUFFICES ASSUME NEW option \in validArgs, NEW i, NEW j
             PROVE  Seen(option, argv, argc, r + 1, i, j) <=>
                      \/ Seen(option, argv, argc, q, i, j)
                      \/ i = argc + 1 /\ j = r /\ IsOption(argv[argc + 1][r], option)
  OBVIOUS
<1>1. argv \in CommandLines /\ argc \in Nat
  <2>1. Len(argv) \in Nat /\ argc \in 0..Len(argv)
    BY ArgumentTypes DEF LineTypes
  <2> QED BY <2>1 DEF LineTypes
<1>2. /\ argv[argc + 1] \in Seq(Tokens) /\ Len(argv[argc + 1]) \in Nat
      /\ DOMAIN argv[argc + 1] = 1..Len(argv[argc + 1])
      /\ \A k \in 1..Len(argv[argc + 1]) : argv[argc + 1][k] \in Tokens
      /\ argc + 1 \in DOMAIN argv
  BY <1>1, ArgumentTypes
<1>3. r \in Nat /\ r \in 1..Len(argv[argc + 1]) /\ q <= r
  BY <1>2
<1>4. CASE i # argc + 1
  BY <1>4 DEF Seen
<1>5. CASE i = argc + 1 /\ j \notin DOMAIN argv[i]
  BY <1>2, <1>3, <1>5 DEF Seen
<1>6. CASE i = argc + 1 /\ j \in DOMAIN argv[i]
  <2> DEFINE t == argv[i][j]
  <2>1. j \in Nat /\ t \in Tokens /\ ~(i > argc + 1) /\ i \in DOMAIN argv
    BY <1>1, <1>2, <1>6
  <2>2. j < r + 1 <=> j < q \/ (q <= j /\ j < r) \/ j = r
    BY <1>3, <2>1
  <2>3. q <= j /\ j < r => t.text = ""
    BY <1>6, <2>1 DEF Blank
  <2>4. IsOption(t, option) => t.text # ""
    BY <2>1, KeysAreOptions
  <2> QED BY <1>6, <2>1, <2>2, <2>3, <2>4 DEF Seen
<1> QED BY <1>4, <1>5, <1>6

\* The keys of launchArgs after a token that is no option, and after one that is.
LEMMA ToldNext ==
  ASSUME NEW out, NEW v, NEW a, NEW q, NEW p, NEW c, NEW r, NEW key, Told(out, v, a, q),
         key \in validArgs,
         \A option \in validArgs : \A i, j :
           Seen(option, v, a, p, i, j) <=>
             Seen(option, v, a, q, i, j) \/ (i = c /\ j = r /\ option = key),
         \A option \in validArgs : \A i, j :
           Seen(option, v, a, p, i, j) => c < i \/ (c = i /\ j <= r),
         c = a + 1
  PROVE  Told(Assign(out, key, ValueOf(v[c][r])), v, a, p)
<1> DEFINE new == Assign(out, key, ValueOf(v[c][r]))
<1>1. /\ DOMAIN new = DOMAIN out \cup {key} /\ new[key] = ValueOf(v[c][r])
      /\ \A k \in DOMAIN out : k # key => new[k] = out[k]
  BY DEF Assign
<1> HIDE DEF new
<1>2. \A option \in validArgs : option \in DOMAIN new <=> \E i, j : Seen(option, v, a, p, i, j)
  BY <1>1 DEF Told
<1>3. "--iface" \in validArgs
  BY DEF validArgs
<1>4. ASSUME "--iface" \in DOMAIN new PROVE Winner(new["--iface"], v, a, p)
  <2>1. CASE key = "--iface"
    <3>1. Seen("--iface", v, a, p, c, r)
      BY <2>1
    <3>2. \A n, m : Seen("--iface", v, a, p, n, m) => c < n \/ (c = n /\ m <= r)
      BY <1>3
    <3> QED BY <1>1, <2>1, <3>1, <3>2 DEF Winner
  <2>2. CASE key # "--iface"
    <3>1. Winner(out["--iface"], v, a, q) /\ new["--iface"] = out["--iface"]
      BY <1>1, <1>4, <2>2 DEF Told
    <3>2. \A i, j : Seen("--iface", v, a, p, i, j) <=> Seen("--iface", v, a, q, i, j)
      BY <1>3, <2>2
    <3> QED BY <3>1, <3>2 DEF Winner
  <2> QED BY <2>1, <2>2
<1> QED BY <1>2, <1>4 DEF Told, new

LEMMA ReadTokenLine == Line /\ Parse /\ ReadToken => Line'
<1> SUFFICES ASSUME Line, Parse, ReadToken PROVE Line'
  OBVIOUS
<1> DEFINE token == Head(rest)
           key == SplitArgument(token).key
           c == argc + 1
<1>1. /\ ended = "no" /\ rest # <<>> /\ rest' = Tail(rest)
      /\ key \in validArgs =>
           /\ output' = Assign(output, key, SplitArgument(token).val)
           /\ ended' = IF key \in {"--help", "--version"} THEN "exit" ELSE "no"
      /\ key \notin validArgs => output' = output /\ ended' = ended
      /\ argv' = argv /\ argc' = argc /\ iface' = iface
  BY DEF ReadToken, Parse
<1>2. LineTypes
  BY DEF Line
<1>3. PICK q \in Nat : Remaining(q) /\ Told(output, argv, argc, q)
  BY DEF Line, Reading
<1>4. /\ c \in 1..Len(argv)
      /\ \E r \in q..Len(argv[c]) : /\ q >= 1 /\ Blank(argv[c], q, r) /\ token = argv[c][r]
                                    /\ rest' = Kept(argv[c])[r + 1]
  BY <1>1, <1>2, <1>3, NextToken
<1>5. PICK r \in q..Len(argv[c]) : /\ q >= 1 /\ Blank(argv[c], q, r) /\ token = argv[c][r]
                                   /\ rest' = Kept(argv[c])[r + 1]
  BY <1>4
<1>6. /\ \A option \in validArgs : \A i, j :
           Seen(option, argv, argc, r + 1, i, j) <=>
             \/ Seen(option, argv, argc, q, i, j)
             \/ i = c /\ j = r /\ IsOption(token, option)
  BY <1>2, <1>4, <1>5, SeenNext
<1>7. token \in Tokens /\ Tail(rest) \in Seq(Tokens)
  BY <1>1, <1>2 DEF LineTypes
<1>8. /\ \A option \in validArgs : IsOption(token, option) <=> key = option
      /\ key \in validArgs => SplitArgument(token).val = ValueOf(token)
  BY <1>7, KeysAreOptions
<1> HIDE DEF key, token
<1>9. argv \in CommandLines /\ argc \in Nat /\ Len(argv) \in Nat /\ Len(argv[c]) \in Nat
  <2>1. argc \in 0..Len(argv) /\ argv \in CommandLines
    BY <1>2 DEF LineTypes
  <2> QED BY <1>4, <2>1, ArgumentTypes
<1>10. r \in Nat /\ r + 1 \in 1..(Len(argv[c]) + 1) /\ r + 1 \in Nat
  BY <1>5, <1>9
<1>11. Remaining(r + 1)'
  <2>1. argc # Len(argv)
    BY <1>4, <1>9
  <2> QED BY <1>1, <1>5, <1>10, <2>1 DEF Remaining
<1>12. Told(output', argv, argc, r + 1)
  <2>1. CASE key \in validArgs
    <3>1. \A option \in validArgs : \A i, j :
            Seen(option, argv, argc, r + 1, i, j) <=>
              Seen(option, argv, argc, q, i, j) \/ (i = c /\ j = r /\ option = key)
      BY <1>6, <1>8
    <3>2. \A option \in validArgs : \A i, j :
            Seen(option, argv, argc, r + 1, i, j) => c < i \/ (c = i /\ j <= r)
      <4> SUFFICES ASSUME NEW option \in validArgs, NEW i, NEW j,
                          Seen(option, argv, argc, r + 1, i, j)
                   PROVE  c < i \/ (c = i /\ j <= r)
        OBVIOUS
      <4>1. i > c \/ (i = c /\ j < r + 1)
        BY DEF Seen
      <4>2. i \in 1..Len(argv) /\ j \in 1..Len(argv[i]) /\ Len(argv[i]) \in Nat
        BY <1>9, ArgumentTypes DEF Seen
      <4>3. i \in Nat /\ j \in Nat /\ c \in Nat
        BY <1>9, <4>2
      <4> QED BY <1>10, <4>1, <4>3
    <3>3. output' = Assign(output, key, ValueOf(argv[c][r]))
      BY <1>1, <1>5, <1>8, <2>1 DEF key, token
    <3>4. Told(Assign(output, key, ValueOf(argv[c][r])), argv, argc, r + 1)
      BY <1>3, <2>1, <3>1, <3>2, ToldNext
    <3> QED BY <3>3, <3>4
  <2>2. CASE key \notin validArgs
    <3>1. \A option \in validArgs : \A i, j :
            Seen(option, argv, argc, q, i, j) <=> Seen(option, argv, argc, r + 1, i, j)
      BY <1>6, <1>8, <2>2
    <3>2. output' = output
      BY <1>1, <2>2 DEF key
    <3> QED BY <1>3, <3>1, <3>2, ToldSame
  <2> QED BY <2>1, <2>2
<1>13. Reading'
  <2>1. Told(output', argv', argc', r + 1)
    BY <1>1, <1>12
  <2> QED BY <1>10, <1>11, <2>1 DEF Reading
<1>14. /\ key \in validArgs => DOMAIN output' = DOMAIN output \cup {key}
       /\ key \notin validArgs => DOMAIN output' = DOMAIN output
  <2>1. key \in validArgs => output' = Assign(output, key, SplitArgument(token).val)
    BY <1>1 DEF key, token
  <2>2. key \notin validArgs => output' = output
    BY <1>1 DEF key
  <2> QED BY <2>1, <2>2 DEF Assign
<1>15. /\ key \in validArgs => ended' = IF key \in {"--help", "--version"} THEN "exit" ELSE "no"
       /\ key \notin validArgs => ended' = "no"
  BY <1>1 DEF key
<1>16. LineTypes'
  BY <1>1, <1>2, <1>7, <1>14, <1>15 DEF LineTypes
<1>17. Ending'
  <2>1. iface' = <<>> /\ "--help" \notin DOMAIN output /\ "--version" \notin DOMAIN output
    BY <1>1 DEF Line, Ending, Parsed
  <2>2. ended' = "exit" <=> key \in {"--help", "--version"}
    BY <1>15 DEF validArgs
  <2>3. "--help" \in DOMAIN output' \/ "--version" \in DOMAIN output'
        <=> key \in {"--help", "--version"}
    BY <1>14, <2>1 DEF validArgs
  <2>4. ended' # "failed"
    BY <1>15
  <2> QED BY <2>1, <2>2, <2>3, <2>4 DEF Ending
<1> QED BY <1>13, <1>16, <1>17 DEF Line

LEMMA NextLine == Line /\ [Next]_vars => Line'
<1> SUFFICES ASSUME Line, [Next]_vars PROVE Line'
  OBVIOUS
<1>1. ASSUME UNCHANGED argVars, Reading PROVE Reading'
  <2>1. UNCHANGED <<argv, argc, rest, output>>
    BY <1>1 DEF argVars
  <2>2. PICK q \in Nat : Remaining(q) /\ Told(output, argv, argc, q)
    BY <1>1 DEF Reading
  <2>3. Remaining(q)'
    BY <2>1, <2>2 DEF Remaining
  <2>4. Told(output', argv', argc', q)
    BY <2>1, <2>2
  <2> QED BY <2>3, <2>4 DEF Reading
<1>2. CASE Parse /\ MissingInterface
  <2>1. /\ Parsed /\ "--iface" \notin DOMAIN output /\ ended' = "failed"
        /\ UNCHANGED <<argv, argc, rest, output, iface>>
    BY <1>2 DEF Parse, MissingInterface
  <2>2. LineTypes'
    BY <2>1 DEF Line, LineTypes
  <2>3. Reading'
    <3>1. PICK q \in Nat : Remaining(q) /\ Told(output, argv, argc, q)
      BY DEF Line, Reading
    <3>2. Remaining(q)'
      BY <2>1, <3>1 DEF Remaining
    <3>3. Told(output', argv', argc', q)
      BY <2>1, <3>1
    <3> QED BY <3>2, <3>3 DEF Reading
  <2>4. Ending'
    BY <2>1 DEF Line, Ending, Parsed
  <2> QED BY <2>2, <2>3, <2>4 DEF Line
<1>3. CASE Construct
  <2>1. /\ Parsed /\ "--iface" \in DOMAIN output /\ iface' = <<output["--iface"]>>
        /\ UNCHANGED argVars
    BY <1>3 DEF Construct
  <2>2. LineTypes' /\ Ending'
    BY <2>1 DEF argVars, Line, LineTypes, Ending, Parsed
  <2> QED BY <1>1, <2>1, <2>2 DEF Line
<1>4. CASE Build \/ UNCHANGED vars
  <2>1. UNCHANGED argVars /\ UNCHANGED iface
    BY <1>4 DEF Build, vars
  <2>2. LineTypes' /\ Ending'
    BY <2>1 DEF argVars, Line, LineTypes, Ending, Parsed
  <2> QED BY <1>1, <2>1, <2>2 DEF Line
<1> QED BY <1>2, <1>3, <1>4, ReadArgumentLine, ReadTokenLine DEF Next, Parse

LEMMA AlwaysLine == Spec => []Line
BY InitLine, NextLine, PTL DEF Spec

\* When the command line is read, every option on it was seen.
LEMMA AllSeen ==
  ASSUME Line, argc = 0, rest = <<>>
  PROVE  \E q \in Nat :
           /\ Told(output, argv, argc, q)
           /\ \A option \in validArgs : \A i, j :
                Seen(option, argv, argc, q, i, j) <=>
                  i \in DOMAIN argv /\ j \in DOMAIN argv[i] /\ IsOption(argv[i][j], option)
<1>1. PICK q \in Nat : Remaining(q) /\ Told(output, argv, argc, q)
  BY DEF Line, Reading
<1>2. \A option \in validArgs : \A i, j :
        Seen(option, argv, argc, q, i, j) <=> Seen(option, argv, argc - 1, 1, i, j)
  BY <1>1, ArgumentRead DEF Line
<1>3. ASSUME NEW i \in DOMAIN argv PROVE i > (argc - 1) + 1
  <2>1. i \in 1..Len(argv) /\ Len(argv) \in Nat
    BY ArgumentTypes DEF Line, LineTypes
  <2> QED BY <2>1
<1>4. \A option \in validArgs : \A i, j :
        Seen(option, argv, argc - 1, 1, i, j) <=>
          i \in DOMAIN argv /\ j \in DOMAIN argv[i] /\ IsOption(argv[i][j], option)
  BY <1>3 DEF Seen
<1> QED BY <1>1, <1>2, <1>4

\* The keys of launchArgs are then the options that are given.
LEMMA KeysGiven ==
  ASSUME Line, argc = 0, rest = <<>>
  PROVE  \A option \in validArgs : option \in DOMAIN output <=> Given(option)
<1>1. PICK q \in Nat :
        /\ Told(output, argv, argc, q)
        /\ \A option \in validArgs : \A i, j :
             Seen(option, argv, argc, q, i, j) <=>
               i \in DOMAIN argv /\ j \in DOMAIN argv[i] /\ IsOption(argv[i][j], option)
  BY AllSeen
<1> QED BY <1>1 DEF Told, Given

\* Before that, they are given.
LEMMA KeysOnlyGiven == ASSUME Line PROVE \A option \in DOMAIN output : Given(option)
<1>1. PICK q \in Nat : Told(output, argv, argc, q)
  BY DEF Line, Reading
<1>2. DOMAIN output \subseteq validArgs
  BY DEF Line, LineTypes
<1> QED BY <1>1, <1>2 DEF Told, Seen, Given

\* A node is made, and main() ends, as the whole command line asks for it, although it is
\* read token by token from its last argument to its first and may end anywhere.
THEOREM NodeStartedAsAsked == Spec => []StartedAsAsked
<1>1. ASSUME Line PROVE StartedAsAsked
  <2>1. ASSUME iface # <<>> PROVE Given("--iface") /\ ~Given("--help") /\ ~Given("--version")
    <3>1. ended = "no" /\ argc = 0 /\ rest = <<>> /\ "--iface" \in DOMAIN output
      BY <1>1, <2>1 DEF Line, Ending, Parsed
    <3>2. "--help" \notin DOMAIN output /\ "--version" \notin DOMAIN output
      BY <1>1, <3>1 DEF Line, Ending
    <3> QED BY <1>1, <3>1, <3>2, KeysGiven DEF validArgs
  <2>2. ASSUME ended = "exit" PROVE Given("--help") \/ Given("--version")
    BY <1>1, <2>2, KeysOnlyGiven DEF Line, Ending
  <2>3. ASSUME ended = "failed"
        PROVE  ~(Given("--iface") \/ Given("--help") \/ Given("--version"))
    <3>1. argc = 0 /\ rest = <<>> /\ "--iface" \notin DOMAIN output
      BY <1>1, <2>3 DEF Line, Ending
    <3>2. "--help" \notin DOMAIN output /\ "--version" \notin DOMAIN output
      BY <1>1, <2>3 DEF Line, Ending
    <3> QED BY <1>1, <3>1, <3>2, KeysGiven DEF validArgs
  <2> QED BY <2>1, <2>2, <2>3 DEF StartedAsAsked
<1> QED BY <1>1, AlwaysLine, PTL

\* The interface of the node is the last one within the first argument that names one.
THEOREM NodeUsesFirstInterface == Spec => []FirstInterfaceWins
<1>1. ASSUME Line PROVE FirstInterfaceWins
  <2> SUFFICES ASSUME iface # <<>>
               PROVE  \E i \in DOMAIN argv : \E j \in DOMAIN argv[i] :
                        /\ IsOption(argv[i][j], "--iface")
                        /\ iface = <<ValueOf(argv[i][j])>>
                        /\ \A n \in DOMAIN argv : \A m \in DOMAIN argv[n] :
                             IsOption(argv[n][m], "--iface") => i < n \/ (i = n /\ m <= j)
    BY DEF FirstInterfaceWins, ValueOf
  <2>1. /\ argc = 0 /\ rest = <<>> /\ "--iface" \in DOMAIN output
        /\ iface = <<output["--iface"]>>
    BY <1>1 DEF Line, Ending, Parsed
  <2>2. PICK q \in Nat :
          /\ Told(output, argv, argc, q)
          /\ \A option \in validArgs : \A i, j :
               Seen(option, argv, argc, q, i, j) <=>
                 i \in DOMAIN argv /\ j \in DOMAIN argv[i] /\ IsOption(argv[i][j], option)
    BY <1>1, <2>1, AllSeen
  <2>3. "--iface" \in validArgs
    BY DEF validArgs
  <2>4. PICK i, j : /\ Seen("--iface", argv, argc, q, i, j)
                    /\ output["--iface"] = ValueOf(argv[i][j])
                    /\ \A n, m : Seen("--iface", argv, argc, q, n, m) =>
                                   i < n \/ (i = n /\ m <= j)
    BY <2>1, <2>2 DEF Told, Winner
  <2> QED BY <2>1, <2>2, <2>3, <2>4
<1> QED BY <1>1, AlwaysLine, PTL

\* Every variable keeps its type: a TPDO is never packed beyond its 64 bits, and its
\* objects never outnumber the subindices, whatever it is defined with.
THEOREM TypesKept == Spec => []TypeOK
<1>1. Whole /\ Line => TypeOK
  BY DEF Whole, Mapped, Packed, Shaped, Line, LineTypes, TypeOK
<1> QED BY <1>1, AlwaysWhole, AlwaysLine, PTL

=============================================================================
