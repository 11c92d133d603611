------------------------------ MODULE ObjDict ------------------------------
(***************************************************************************)
(* How the node's object dictionary comes about: AllocateObjects() of      *)
(* src/src/mystack.cpp, on the addresses of src/src/co_addr.hpp.           *)
(*                                                                         *)
(* m_dict is the set of its entries, each with the number of the call of   *)
(* AddObject() that made it; an entry holds a value (direct) or points to  *)
(* storage, which bears the number of the call that allocated it.  sorted  *)
(* is m_dict after std::sort.                                              *)
(***************************************************************************)
EXTENDS Naturals, Sequences, FiniteSets

CONSTANTS
  Numbers, \* the numbers of the two TPDOs
  Tables   \* the pairs of lists of objects they may be defined with

VARIABLES
  todo,       \* the calls AllocateObjects() has still to make
  dict,       \* m_dict while it is built
  sorted,     \* m_dict when it is done, empty before
  objStorage, \* m_objStorage: which storage each address has
  added,      \* how often AddObject() was called
  bits,       \* totBitWidth of the DefineTPDOMapping() under way
  count       \* totObjCount

dictVars == <<todo, dict, sorted, objStorage, added, bits, count>>

-----------------------------------------------------------------------------
(* Addresses.                                                              *)

Byte == 256

ObjectAddress(index, sub) == [index |-> index, sub |-> sub % Byte]

\* fullRef, and the part of the stack's key in front of the flags.
FullRef(addr) == addr.index * Byte + addr.sub

\* The subindex after the one that is meant.
PlusOneMore(addr, n) ==
  IF addr.sub # 0 THEN addr ELSE ObjectAddress(addr.index, addr.sub + n + 1)

\* operator+: an address with a subindex stays what it is.
Plus(addr, n) == IF addr.sub # 0 THEN addr ELSE ObjectAddress(addr.index, addr.sub + n)

Clamp(num, max) == IF num > max THEN max ELSE num

App_Data1 == ObjectAddress(\h2000, 0)
App_Data2 == ObjectAddress(\h2002, 0)
App_Data3 == ObjectAddress(\h2010, 0)
Std_SDOServer(num, sub) == ObjectAddress(\h1200 + Clamp(num, 127), sub)
Std_TPDOComm(num, sub) == ObjectAddress(\h1800 + Clamp(num, 511), sub)
Std_TPDOMappingSize(num) == ObjectAddress(\h1A00 + Clamp(num, 511), 0)

ASSUME NumberAssumption ==
  Numbers \in Nat \X Nat /\ Clamp(Numbers[1], 511) # Clamp(Numbers[2], 511)

\* At least a bit of an object is mapped, and its width is an uint8_t.
Mappable == [addr : {App_Data1, App_Data2, App_Data3}, width : 1..(Byte - 1)]
ASSUME TableAssumption == Tables \subseteq Seq(Mappable) \X Seq(Mappable)

-----------------------------------------------------------------------------
(* The calls AllocateObjects() makes.                                      *)

Call(addr, direct, pdo, data) ==
  [do |-> "object", addr |-> addr, direct |-> direct, pdo |-> pdo, data |-> data]
Stored(addr) == Call(addr, FALSE, FALSE, 0)
Direct(addr, data) == Call(addr, TRUE, FALSE, data)
Data(addr) == Call(addr, FALSE, TRUE, 0)

\* DefineTPDO() with DefineTPDOParameters(): transmission type 0xFE, and the COB-ID,
\* inhibit time and event time, which do not matter here.
DefineTPDO(num, objects) ==
  <<Direct(Std_TPDOComm(num, 0), 5), Direct(Std_TPDOComm(num, 1), 0),
    Direct(Std_TPDOComm(num, 2), \hFE), Direct(Std_TPDOComm(num, 3), 50),
    Direct(Std_TPDOComm(num, 5), 250),
    [do |-> "mapping", num |-> num, objects |-> objects]>>

AllocateObjects(table) ==
  <<Stored(ObjectAddress(\h1000, 0)), Stored(ObjectAddress(\h1001, 0)),
    Stored(ObjectAddress(\h1017, 0)), Direct(ObjectAddress(\h1018, 0), 4)>>
  \o [i \in 1..4 |-> Stored(ObjectAddress(\h1018, i))]
  \o <<Direct(Std_SDOServer(0, 0), 2), Stored(Std_SDOServer(0, 1)), Stored(Std_SDOServer(0, 2))>>
  \o DefineTPDO(Numbers[1], table[1]) \o DefineTPDO(Numbers[2], table[2])
  \o <<Data(App_Data1), Data(App_Data2), Data(App_Data3)>>

DictInit ==
  /\ todo = <<>> /\ dict = {} /\ sorted = <<>> /\ objStorage = [a \in {} |-> 0]
  /\ added = 0 /\ bits = 0 /\ count = 0

-----------------------------------------------------------------------------

\* Storage that is kept by index alone.
StorageByIndex(map, addr, nr) ==
  [a \in DOMAIN map \cup {addr} |-> IF a.index = addr.index THEN nr ELSE map[a]]

\* m_objStorage[addr] = make_shared(): what was stored there before is gone.
Allocate(map, addr, nr) ==
  [a \in DOMAIN map \cup {addr} |-> IF a = addr THEN nr ELSE map[a]]

AddObject(addr, direct, pdo, data) ==
  /\ added' = added + 1
  /\ dict' = dict \cup {[addr |-> addr, direct |-> direct, pdo |-> pdo, nr |-> added',
                         data |-> IF direct THEN data ELSE added']}
  /\ objStorage' = IF direct THEN objStorage ELSE Allocate(objStorage, addr, added')

DefineObject ==
  /\ todo # <<>> /\ Head(todo).do = "object"
  /\ LET c == Head(todo) IN AddObject(c.addr, c.direct, c.pdo, c.data)
  /\ todo' = Tail(todo)
  /\ UNCHANGED <<sorted, bits, count>>

\* CO_LINK() of an object and its width: what a mapping says of it.
TPDOMappedObject(object) == FullRef(object.addr) * Byte + object.width

\* Bits that are compared with one too many.
FitsLoosely(width) == bits + width <= 65

Fits(width) == bits + width <= 64

Mapping == Head(todo)

\* One turn of the loop of DefineTPDOMapping().
MapObject ==
  /\ todo # <<>> /\ Mapping.do = "mapping"
  /\ bits < 64 /\ Mapping.objects # <<>>
  /\ LET object == Head(Mapping.objects) IN
       IF Fits(object.width)
         THEN /\ bits' = bits + object.width
              /\ count' = (count + 1) % Byte
              /\ AddObject(Plus(Std_TPDOMappingSize(Mapping.num), count'), TRUE, FALSE,
                           TPDOMappedObject(object))
         ELSE UNCHANGED <<bits, count, dict, objStorage, added>>
  /\ todo' = <<[Mapping EXCEPT !.objects = Tail(@)]>> \o Tail(todo)
  /\ UNCHANGED sorted

\* The end of the loop: the number of objects that were mapped goes first.
MapSize ==
  /\ todo # <<>> /\ Mapping.do = "mapping"
  /\ bits >= 64 \/ Mapping.objects = <<>>
  /\ AddObject(Std_TPDOMappingSize(Mapping.num), TRUE, FALSE, count)
  /\ bits' = 0 /\ count' = 0
  /\ todo' = Tail(todo)
  /\ UNCHANGED sorted

\* The order the objects were added in.
ByNumber(d, e) == d.nr < e.nr

ByKey(d, e) == FullRef(d.addr) < FullRef(e.addr)

\* std::sort: an entry comes behind as many as are less than it.
Sort ==
  /\ todo = <<>> /\ sorted = <<>>
  /\ sorted' = [i \in 1..Cardinality(dict) |->
                  CHOOSE e \in dict : Cardinality({d \in dict : ByKey(d, e)}) = i - 1]
  /\ UNCHANGED <<todo, dict, objStorage, added, bits, count>>

BuildStep == DefineObject \/ MapObject \/ MapSize \/ Sort

\* One look of the bisection at the middle of lo..hi; find says what the search of
\* either half, a pair of bounds, returns.
Look(find, addr, lo, hi) ==
  LET mid == (lo + hi) \div 2 IN
  IF lo > hi THEN {}
  ELSE IF sorted[mid].addr = addr THEN {sorted[mid]}
  ELSE IF FullRef(sorted[mid].addr) < FullRef(addr) THEN find[<<mid + 1, hi>>]
  ELSE find[<<lo, mid - 1>>]

\* CODictFind(), the stack's: bisection, and a null pointer if that fails.
CODictFind(addr) ==
  LET find[range \in (1..(Len(sorted) + 1)) \X (0..Len(sorted))] ==
        Look(find, addr, range[1], range[2])
  IN  find[<<1, Len(sorted)>>]

=============================================================================
