----------------------------- MODULE MCWhisper -----------------------------
(***************************************************************************)
(* Instance of WhisperWorker: three calls, which are interchangeable for   *)
(* the invariants; no symmetry, as liveness is checked.                    *)
(***************************************************************************)
EXTENDS WhisperWorker

CONSTANTS c1, c2, c3
=============================================================================
