----------------------------- MODULE Arguments -----------------------------
(***************************************************************************)
(* What main() makes of its command line (src/src/main.cpp, and Split() of *)
(* src/src/utils.hpp).  An argument is the sequence of its tokens, which   *)
(* spaces separate; a token is its text with the parts that `=' separates. *)
(* ParseArguments() goes through the arguments from the last to the first, *)
(* and through the tokens of each from left to right.                      *)
(***************************************************************************)
EXTENDS Naturals, Sequences

CONSTANTS
  Tokens,      \* the tokens that may be given
  CommandLines \* the sequences of arguments main() may be called with

\* A text without `=' is its own only part, the empty one, which is never split, too.
ASSUME TokenAssumption ==
  \A t \in Tokens :
    /\ t.parts \in Seq(STRING) /\ t.parts # <<>>
    /\ t.text \in {"", "--iface", "--help", "--version"} => t.parts = <<t.text>>
ASSUME LineAssumption == CommandLines \subseteq Seq(Seq(Tokens))

VARIABLES
  argv,    \* the arguments, the name of the program first
  argc,    \* how many of them are still to be read
  rest,    \* what is left of the tokens of the one being read
  output,  \* launchArgs, a map from options to values
  ended    \* how main() ended: "no", "exit" for exit(0) or "failed" for return 1

argVars == <<argv, argc, rest, output, ended>>

ArgsInit ==
  /\ argv \in CommandLines
  /\ argc = Len(argv)
  /\ rest = <<>>
  /\ output = [k \in {} |-> ""]
  /\ ended = "no"

validArgs == {"--iface", "--help", "--version"}

\* What is kept of the tokens of an argument from each of them on: Split() drops those
\* between two spaces.
Kept(arg) ==
  LET from[n \in 1..(Len(arg) + 1)] ==
        IF n > Len(arg) THEN <<>>
        ELSE IF arg[n].text = "" THEN from[n + 1] ELSE <<arg[n]>> \o from[n + 1]
  IN  from

Split(arg) == Kept(arg)[1]

\* The first part taken for the key whatever else there is.
SplitByParts(t) ==
  [key |-> t.parts[1], val |-> IF Len(t.parts) > 1 THEN t.parts[2] ELSE ""]

\* A text that ends in its only `=' has a single part, and is its own key.
SplitArgument(t) ==
  IF Len(t.parts) > 1 THEN [key |-> t.parts[1], val |-> t.parts[2]]
                      ELSE [key |-> t.text, val |-> ""]

\* A map that keeps what it has, as std::map::insert() does.
KeepFirst(map, key, val) ==
  [k \in DOMAIN map \cup {key} |-> IF k \in DOMAIN map THEN map[k] ELSE val]

\* output[key] = val
Assign(map, key, val) ==
  [k \in DOMAIN map \cup {key} |-> IF k = key THEN val ELSE map[k]]

ReadArgument ==
  /\ ended = "no" /\ rest = <<>> /\ argc > 0
  /\ argc' = argc - 1
  /\ rest' = Split(argv[argc])
  /\ UNCHANGED <<argv, output, ended>>

ReadToken ==
  /\ ended = "no" /\ rest # <<>>
  /\ rest' = Tail(rest)
  /\ LET arg == SplitArgument(Head(rest)) IN
       IF arg.key \in validArgs
         THEN /\ output' = Assign(output, arg.key, arg.val)
              /\ ended' = IF arg.key \in {"--help", "--version"} THEN "exit" ELSE "no"
         ELSE UNCHANGED <<output, ended>>
  /\ UNCHANGED <<argv, argc>>

Parsed == ended = "no" /\ rest = <<>> /\ argc = 0

\* main() gives up without an interface; an empty name will do.
MissingInterface ==
  /\ Parsed
  /\ "--iface" \notin DOMAIN output
  /\ ended' = "failed"
  /\ UNCHANGED <<argv, argc, rest, output>>

=============================================================================
