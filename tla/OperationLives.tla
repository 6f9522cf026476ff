--------------------------- MODULE OperationLives ---------------------------
(***************************************************************************)
(* What the runtime promises about an operation that needs an approval:    *)
(* it waits, is granted, spends its grant and runs, in this order and each *)
(* at most once; until it runs it can be lost at any moment, and what is   *)
(* lost never comes back.                                                  *)
(***************************************************************************)
CONSTANT Operation

VARIABLE life   \* operation -> the stage of its life

Open == {"waiting", "granted", "spent"}
Stage == Open \cup {"unborn", "run", "lost"}

Advance ==
  {<<"unborn", "waiting">>, <<"waiting", "granted">>, <<"granted", "spent">>,
   <<"spent", "run">>}

Born == life = [o \in Operation |-> "unborn"]

Advances(o) ==
  /\ <<life[o], life'[o]>> \in Advance
  /\ life' = [life EXCEPT ![o] = life'[o]]

\* One decision loses one operation; the end of a Task or of the process may
\* lose several.
Lose(S) ==
  /\ \A o \in S : life[o] \in Open
  /\ life' = [o \in Operation |-> IF o \in S THEN "lost" ELSE life[o]]

Step == (\E o \in Operation : Advances(o)) \/ (\E S \in SUBSET Operation : Lose(S))

LinearLives == Born /\ [][Step]_life

=============================================================================
