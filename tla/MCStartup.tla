----------------------------- MODULE MCStartup -----------------------------
\* Options with and without a value, a blank, an argument the program does not know;
\* several in one argument, and up to two arguments.  TPDOs with the objects of the
\* repository, and with lists that fill 64 bits, miss them by one, overflow and go on,
\* have more objects than fit, or none.  One TPDO number is beyond the last.
EXTENDS Startup

Token(text, parts) == [text |-> text, parts |-> parts]
prog == Token("canopen-timers", <<"canopen-timers">>)
can0 == Token("--iface=can0", <<"--iface", "can0">>)
can1 == Token("--iface=can1", <<"--iface", "can1">>)
bare == Token("--iface", <<"--iface">>)
cut == Token("--iface=", <<"--iface">>)
blank == Token("", <<"">>)
help == Token("--help", <<"--help">>)
version == Token("--version", <<"--version">>)

MCTokens == {prog, can0, can1, bare, cut, blank, help, version}
MCArguments ==
  {<<can0>>, <<can1>>, <<bare>>, <<cut>>, <<version>>, <<blank, can0, can1>>, <<can1, help>>}
MCCommandLines ==
  {<<<<prog>>>>}
    \cup {<<<<prog>>, a>> : a \in MCArguments}
    \cup {<<<<prog>>, a, b>> : a, b \in MCArguments}

Obj(addr, width) == [addr |-> addr, width |-> width]
Code1 == <<Obj(App_Data1, 32)>>
Code2 == <<Obj(App_Data2, 32), Obj(App_Data3, 32)>>
MCNumbers == <<0, 600>>
MCTables ==
  {<<Code1, Code2>>,
   <<<<>>, <<Obj(App_Data1, 64), Obj(App_Data2, 8)>>>>,
   <<<<Obj(App_Data1, 33), Obj(App_Data2, 32), Obj(App_Data3, 31)>>, Code1>>,
   <<<<Obj(App_Data1, 255), Obj(App_Data2, 16)>>, <<Obj(App_Data3, 65)>>>>,
   <<[i \in 1..9 |-> Obj(App_Data1, 8)], Code2>>}

=============================================================================
