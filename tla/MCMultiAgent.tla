--------------------------- MODULE MCMultiAgent ----------------------------
(***************************************************************************)
(* Instances of MultiAgent: two agents and two utterances that name nobody,*)
(* each heard once, or only one of them where everything may fail.         *)
(***************************************************************************)
EXTENDS MultiAgent, TLC

CONSTANTS hello, bye

Utterances == {hello, bye}
NobodyAddressed == [r \in Utterances |-> {}]
ListedOrder == <<1, 2>>
NoBids == {NoBid}

Anything == {"loss", "timeout", "crash", "slowTurn", "fallback"}
FaultCombinations == {{}, {"loss", "crash"}, {"loss", "timeout", "crash"}, Anything}
HeardOnce ==
  [f \in FaultCombinations |->
     hello :> 1 @@ bye :> IF "slowTurn" \in f THEN 0 ELSE 1]

NoFaults == {{}}
HelloTwice == [f \in NoFaults |-> hello :> 2 @@ bye :> 0]
============================================================================
