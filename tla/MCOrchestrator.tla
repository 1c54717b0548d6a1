--------------------------- MODULE MCOrchestrator ---------------------------
(***************************************************************************)
(* Instances of Orchestrator for TLC: the configurations a deployment      *)
(* chooses between, each with what may fail in it.                         *)
(***************************************************************************)
EXTENDS Orchestrator

Pipeline(coordinated, adapter, proactive, faults) ==
  [backend |-> "asr-llm-tts", coordinated |-> coordinated, fallback |-> FALSE,
   adapter |-> adapter, proactive |-> proactive, faults |-> faults]

PersonaPlex(coordinated, faults) ==
  [backend |-> "personaplex", coordinated |-> coordinated, fallback |-> TRUE,
   adapter |-> {}, proactive |-> "none", faults |-> faults]

Deployments ==
  {Pipeline(FALSE, {}, "none", {"asr", "llm"}),
   Pipeline(TRUE, {}, "none", {"asr", "llm", "poll"}),
   Pipeline(TRUE, {}, "greeting", {"asr", "llm", "emptyReply", "tts"}),
   Pipeline(TRUE, {"sessions"}, "none", {"poll"}),
   Pipeline(FALSE, {"sessions", "turnEvents"}, "none", {"asr"}),
   Pipeline(FALSE, {"sessions", "turnEvents"}, "opener", {}),
   Pipeline(FALSE, {"sessions"}, "opener", {"asr"}),
   PersonaPlex(FALSE, {"asr", "llm", "personaplex"}),
   PersonaPlex(TRUE, {"asr", "llm", "personaplex", "poll"})}

\* Batch turns of an LLM that may answer with nothing.
EmptyReplies == {Pipeline(FALSE, {}, "none", {"emptyReply"})}
============================================================================
