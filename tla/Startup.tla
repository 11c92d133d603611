------------------------------ MODULE Startup ------------------------------
(***************************************************************************)
(* From the command line to a node that can be started: main() reads its   *)
(* arguments (Arguments) and constructs a mystack, which takes the name of *)
(* the interface and builds the object dictionary (ObjDict) that the stack *)
(* is given.                                                               *)
(***************************************************************************)
EXTENDS Arguments, ObjDict, FiniteSetsExt

VARIABLES
  iface, \* what SetCANInterface() was called with: <<>>, or a name
  table  \* history: what the TPDOs are defined with

vars == <<argVars, dictVars, iface, table>>

Init == ArgsInit /\ DictInit /\ iface = <<>> /\ table = <<>>

Parse ==
  /\ ReadArgument \/ ReadToken \/ MissingInterface
  /\ UNCHANGED <<dictVars, iface, table>>

\* The constructor of mystack, up to AllocateObjects().
Construct ==
  /\ Parsed /\ iface = <<>>
  /\ "--iface" \in DOMAIN output
  /\ iface' = <<output["--iface"]>>
  /\ table' \in Tables
  /\ todo' = AllocateObjects(table')
  /\ UNCHANGED <<argVars, dict, sorted, objStorage, added, bits, count>>

Build == iface # <<>> /\ BuildStep /\ UNCHANGED <<argVars, iface, table>>

Next == Parse \/ Construct \/ Build

Spec == Init /\ [][Next]_vars

\* The dictionary CONodeInit() gets.
Built == sorted # <<>>

-----------------------------------------------------------------------------
(* Properties.                                                             *)

Entry == [addr : [index : Nat, sub : 0..(Byte - 1)], direct : BOOLEAN, pdo : BOOLEAN,
          nr : 1..added, data : Nat]

\* Every variable has its type; in particular a TPDO is never packed beyond its
\* 64 bits, and so its objects never outnumber the subindices.
TypeOK ==
  /\ argv \in CommandLines /\ argc \in 0..Len(argv) /\ rest \in Seq(Tokens)
  /\ DOMAIN output \subseteq validArgs
  /\ ended \in {"no", "exit", "failed"}
  /\ added \in Nat /\ dict \subseteq Entry
  /\ bits \in 0..64 /\ count \in 0..bits

IsOption(t, option) == t.parts[1] = option /\ (Len(t.parts) > 1 \/ t.text = option)
Given(option) == \E i \in DOMAIN argv : \E j \in DOMAIN argv[i] : IsOption(argv[i][j], option)

\* A node is made only if an interface is given and nothing else is asked for;
\* otherwise main() ends, and with the code of what was asked for, wherever on the
\* command line that stands.
StartedAsAsked ==
  /\ iface # <<>> => Given("--iface") /\ ~Given("--help") /\ ~Given("--version")
  /\ ended = "exit" => Given("--help") \/ Given("--version")
  /\ ended = "failed" => ~(Given("--iface") \/ Given("--help") \/ Given("--version"))

\* Of several interfaces it is the first argument that counts, but within one
\* argument the last.
FirstInterfaceWins ==
  iface # <<>> =>
    \E i \in DOMAIN argv : \E j \in DOMAIN argv[i] :
      /\ IsOption(argv[i][j], "--iface")
      /\ iface = <<IF Len(argv[i][j].parts) > 1 THEN argv[i][j].parts[2] ELSE "">>
      /\ \A n \in DOMAIN argv : \A m \in DOMAIN argv[n] :
           IsOption(argv[n][m], "--iface") => i < n \/ (i = n /\ m <= j)

\* No two entries share an address, and the stack's bisection finds each of them:
\* SetObject() and TPDOs reach the objects they name.
SearchFinds == Built => \A e \in dict : CODictFind(e.addr) = {e}

\* An entry that points to storage points to storage that still exists.
StorageLive == \A e \in dict : ~e.direct => objStorage[e.addr] = e.data

\* A mapping of n objects has the subindices 1 to n, also while others are made.
MappingComplete ==
  \A e \in dict :
    e.direct /\ e.addr.sub = 0 /\ e.addr.index >= \h1A00 =>
      \A i \in 1..e.data : \E d \in dict : d.addr = ObjectAddress(e.addr.index, i)

\* Where an object has subindices, subindex 0 says which is the highest.
SubindicesCounted ==
  Built =>
    \A e \in dict :
      LET subs == {d.addr.sub : d \in {d \in dict : d.addr.index = e.addr.index}} IN
      subs # {0} => \E z \in CODictFind(ObjectAddress(e.addr.index, 0)) :
                      z.direct /\ z.data = Max(subs)

\* The mapping of a TPDO as the stack reads it.
MappedTo(num) ==
  LET at(n) == CHOOSE e \in CODictFind(Plus(Std_TPDOMappingSize(num), n)) : TRUE
  IN  [i \in 1..(at(0).data) |-> at(i).data]

\* A TPDO carries each of its objects, in their order, for which there is room behind
\* those before it that it carries; each is in the dictionary and may be mapped.
FirstFit ==
  Built =>
    \A k \in 1..2 :
      LET objects == table[k]
          before(S, i) == MapThenSumSet(LAMBDA j : objects[j].width, S \cap 1..(i - 1))
      IN  \E S \in SUBSET DOMAIN objects :
            /\ \A i \in DOMAIN objects : i \in S <=> before(S, i) + objects[i].width <= 64
            /\ MappedTo(Numbers[k]) =
                 [n \in 1..Cardinality(S) |->
                    TPDOMappedObject(objects[CHOOSE i \in S : Cardinality(S \cap 1..i) = n])]
            /\ \A i \in S : \E e \in CODictFind(objects[i].addr) : e.pdo

=============================================================================
