---------------------------- MODULE MCComponents ----------------------------
(* Components with the spans of one turn: its root, the agent under it, a   *)
(* model call of that agent and a request below the call; and with the      *)
(* turns of two sessions, in which a fact, the same again, another under    *)
(* its key and a correction of the first are distilled in two divisions.    *)
EXTENDS Components

CONSTANTS i1, i2

SomeSpans ==
  <<[trace |-> 1, kind |-> "root", parent |-> 0],
    [trace |-> 1, kind |-> "agent", parent |-> 1],
    [trace |-> 1, kind |-> "call_llm", parent |-> 2],
    [trace |-> 1, kind |-> "request", parent |-> 3]>>

Divided(one, two) == [i \in Ingestion |-> IF i = i1 THEN one ELSE two]
SomeSayings ==
  {Divided(<<F1, F2>>, <<F3, Corrects>>), Divided(<<F2, Corrects>>, <<F1>>)}
=============================================================================
