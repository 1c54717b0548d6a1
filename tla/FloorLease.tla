----------------------------- MODULE FloorLease -----------------------------
(***************************************************************************)
(* What the turn coordinator promises: a lock on the floor of the room     *)
(* with a lease.                                                           *)
(*                                                                         *)
(* Each grant has a number larger than all before it.  While the lease     *)
(* lasts, only its holder can give the floor back, and only by naming the  *)
(* grant; once it has lapsed the floor may be reclaimed, or be granted     *)
(* anew in the same step, but a holder that is late still gives it back.   *)
(* The dialogue gains an entry when the floor is given back and at no      *)
(* other time; old entries may be forgotten from its front.                *)
(***************************************************************************)
EXTENDS Integers, Sequences

CONSTANTS
  Agent,
  Nobody      \* holder of a free floor

VARIABLES
  holder,     \* the agent that has the floor, or Nobody
  turn,       \* number of the live grant, 0 when the floor is free
  lapsed,     \* the live grant's lease is over
  issued,     \* number of the newest grant
  dialogue    \* finished turns, oldest first

vars == <<holder, turn, lapsed, issued, dialogue>>

Init ==
  /\ holder = Nobody
  /\ turn = 0
  /\ lapsed = FALSE
  /\ issued = 0
  /\ dialogue = <<>>

Grant(a) ==
  /\ holder = Nobody \/ lapsed
  /\ holder' = a
  /\ issued' = issued + 1
  /\ turn' = issued'
  /\ lapsed' = FALSE
  /\ UNCHANGED dialogue

Lapse ==
  /\ holder # Nobody
  /\ ~lapsed
  /\ lapsed' = TRUE
  /\ UNCHANGED <<holder, turn, issued, dialogue>>

Free ==
  /\ holder' = Nobody
  /\ turn' = 0
  /\ lapsed' = FALSE
  /\ UNCHANGED issued

Reclaim ==
  /\ lapsed
  /\ Free
  /\ UNCHANGED dialogue

Finish ==
  /\ holder # Nobody
  /\ Free
  /\ LET all == Append(dialogue, [agentId |-> holder, turnId |-> turn])
     IN  \E k \in 1 .. Len(all) : dialogue' = SubSeq(all, k, Len(all))

Next ==
  \/ \E a \in Agent : Grant(a)
  \/ Lapse
  \/ Reclaim
  \/ Finish

Spec == Init /\ [][Next]_vars
============================================================================
