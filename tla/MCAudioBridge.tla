---------------------------- MODULE MCAudioBridge ----------------------------
(***************************************************************************)
(* Instance of AudioBridge for TLC: frames of two units, a callback that   *)
(* takes one and a half, a chunk that passes the cap, one reload.          *)
(***************************************************************************)
EXTENDS AudioBridge
============================================================================
