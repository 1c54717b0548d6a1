-------------------------- MODULE PersonaPlexRouter --------------------------
(***************************************************************************)
(* The pool router in front of PersonaPlex                                 *)
(* (scripts/personaplex-router.js).  A client's WebSocket upgrade is       *)
(* either refused with 429 or tied to one instance, to which the router    *)
(* opens a WebSocket of its own; whichever side ends first ends both.      *)
(*                                                                         *)
(* What passes through the two sockets is left out.  Their library emits   *)
(* `error` and then `close` on a socket closed while it connects.          *)
(***************************************************************************)
EXTENDS Integers, FiniteSets

CONSTANTS
  NumInstances,   \* length of PERSONAPLEX_POOL
  Key,            \* values of X-Session-Key
  Session,        \* upgrades that are accepted, in any order
  MaxInflight,    \* PERSONAPLEX_MAX_INFLIGHT_PER_INSTANCE
  StickyTtl,      \* PERSONAPLEX_STICKY_TTL_MS
  MaxTime         \* bound on the clock

Instance == 1 .. NumInstances

ASSUME RouterAssumption ==
  /\ NumInstances \in Nat \ {0}
  /\ MaxInflight \in Nat \ {0}
  /\ StickyTtl \in Nat \ {0}
  /\ MaxTime \in Nat
  /\ Key # {}
  /\ IsFiniteSet(Session)

VARIABLES
  clock,
  inflight,       \* instances[i].inflight
  lastUsedAt,     \* instances[i].lastUsedAt
  healthy,        \* instances[i].healthy
  sticky,         \* Key -> assignment
  session         \* Session -> the two sockets and __cleanedUp

vars == <<clock, inflight, lastUsedAt, healthy, sticky, session>>

NoInstance == 0

\* A key without an entry is as good as one whose entry has expired.
NoEntry == [idx |-> NoInstance, expiresAt |-> 0]
StickyEntry == [idx : Instance \cup {NoInstance}, expiresAt : 0 .. MaxTime + StickyTtl]

\* "aborted": close() was called while it was connecting; the error is due.
UpstreamState == {"none", "connecting", "aborted", "open", "closing", "closed"}

NoSession == [key |-> CHOOSE k \in Key : TRUE, inst |-> NoInstance, startedAt |-> 0, until |-> 0,
              client |-> FALSE, upstream |-> "none", cleanedUp |-> TRUE]

\* startedAt and until (the end of the assignment it was accepted under) are
\* history.
SessionRecord ==
  [key : Key, inst : Instance \cup {NoInstance}, startedAt : 0 .. MaxTime,
   until : 0 .. MaxTime + StickyTtl, client : BOOLEAN, upstream : UpstreamState,
   cleanedUp : BOOLEAN]

Init ==
  /\ clock = 0
  /\ inflight = [i \in Instance |-> 0]
  /\ lastUsedAt = [i \in Instance |-> 0]
  /\ healthy = [i \in Instance |-> TRUE]
  /\ sticky = [k \in Key |-> NoEntry]
  /\ session = [s \in Session |-> NoSession]

----------------------------------------------------------------------------
(* pickInstance *)

Available(i) == healthy[i] /\ inflight[i] < MaxInflight

Assigned(k) == sticky[k].expiresAt > clock

\* Of two instances the less loaded, or else the one not used for longer.
Undercuts(i, j) ==
  \/ inflight[i] < inflight[j]
  \/ inflight[i] = inflight[j] /\ lastUsedAt[i] < lastUsedAt[j]

\* The loop from the first to the last instance ends with the first available
\* one that no other undercuts, if any is available.
LeastLoaded ==
  {i \in Instance : Available(i) /\ \A j \in Instance : Available(j) =>
                       ~Undercuts(j, i) /\ (j < i => Undercuts(i, j))}

\* Faulty variant: a key whose instance is busy moves to another.
PickAnyFree(k) ==
  IF Assigned(k) /\ Available(sticky[k].idx) THEN {sticky[k].idx} ELSE LeastLoaded

\* An assignment that holds is followed or the upgrade is refused: a set of at
\* most one instance.
PickInstance(k) ==
  IF Assigned(k) THEN {i \in Instance : i = sticky[k].idx /\ Available(i)} ELSE LeastLoaded

StickyAfterPick(k, i) ==
  IF Assigned(k) THEN sticky
  ELSE [sticky EXCEPT ![k] = [idx |-> i, expiresAt |-> clock + StickyTtl]]

----------------------------------------------------------------------------
(* cleanup: once per session, whichever event comes first. *)

UpstreamAfterClose(up) ==
  CASE up = "connecting" -> "aborted"
    [] up = "open" -> "closing"
    [] OTHER -> up

\* The session ss[s] after cleanup, its upstream socket being in state up.
CleanedUp(ss, s, up) ==
  [ss EXCEPT ![s].cleanedUp = TRUE,
             ![s].client = FALSE,
             ![s].upstream = IF ss[s].cleanedUp THEN up ELSE UpstreamAfterClose(up)]

\* Faulty variant: does not look at __cleanedUp.
InflightAfterEachEvent(s) ==
  [inflight EXCEPT ![session[s].inst] = IF @ = 0 THEN 0 ELSE @ - 1]

InflightAfterCleanup(s) ==
  IF session[s].cleanedUp THEN inflight
  ELSE [inflight EXCEPT ![session[s].inst] = IF @ = 0 THEN 0 ELSE @ - 1]

Cleanup(s, up) ==
  /\ session' = CleanedUp(session, s, up)
  /\ inflight' = InflightAfterCleanup(s)

----------------------------------------------------------------------------
(* Handlers *)

\* An upgrade that pickInstance accepts; the upstream connection is begun.
Upgrade(s, k, i) ==
  /\ session[s].upstream = "none"
  /\ i \in PickInstance(k)
  /\ sticky' = StickyAfterPick(k, i)
  /\ inflight' = [inflight EXCEPT ![i] = @ + 1]
  /\ lastUsedAt' = [lastUsedAt EXCEPT ![i] = clock]
  /\ session' = [session EXCEPT ![s] =
       [key |-> k, inst |-> i, startedAt |-> clock, until |-> sticky'[k].expiresAt,
        client |-> TRUE, upstream |-> "connecting", cleanedUp |-> FALSE]]
  /\ UNCHANGED <<clock, healthy>>

\* handleUpgrade finds the handshake wrong after pickInstance has assigned the
\* key, and does not call back.
UpgradeMalformed(k, i) ==
  /\ ~Assigned(k) /\ i \in PickInstance(k)
  /\ sticky' = StickyAfterPick(k, i)
  /\ UNCHANGED <<clock, inflight, lastUsedAt, healthy, session>>

ClientClosed(s) ==
  /\ session[s].client
  /\ Cleanup(s, session[s].upstream)
  /\ UNCHANGED <<clock, lastUsedAt, healthy, sticky>>

UpstreamOpen(s) ==
  /\ session[s].upstream = "connecting"
  /\ session' = [session EXCEPT ![s].upstream = "open"]
  /\ healthy' = [healthy EXCEPT ![session[s].inst] = TRUE]
  /\ UNCHANGED <<clock, inflight, lastUsedAt, sticky>>

UpstreamClosed(s) ==
  /\ session[s].upstream \in {"open", "closing"}
  /\ Cleanup(s, "closed")
  /\ UNCHANGED <<clock, lastUsedAt, healthy, sticky>>

\* The connection breaks by itself, or close() came while it was connecting.
\* The `close` that follows finds nothing left to clean up.
UpstreamError(s) ==
  /\ session[s].upstream \in {"connecting", "aborted", "open", "closing"}
  /\ healthy' = [healthy EXCEPT ![session[s].inst] = FALSE]
  /\ Cleanup(s, "closed")
  /\ UNCHANGED <<clock, lastUsedAt, sticky>>

\* setInterval(cleanSticky)
CleanSticky ==
  /\ \E k \in Key : sticky[k] # NoEntry /\ ~Assigned(k)
  /\ sticky' = [k \in Key |-> IF Assigned(k) THEN sticky[k] ELSE NoEntry]
  /\ UNCHANGED <<clock, inflight, lastUsedAt, healthy, session>>

Tick ==
  /\ clock < MaxTime
  /\ clock' = clock + 1
  /\ UNCHANGED <<inflight, lastUsedAt, healthy, sticky, session>>

Next ==
  \/ \E k \in Key, i \in Instance :
       UpgradeMalformed(k, i) \/ \E s \in Session : Upgrade(s, k, i)
  \/ \E s \in Session : \/ ClientClosed(s)
                        \/ UpstreamOpen(s)
                        \/ UpstreamClosed(s)
                        \/ UpstreamError(s)
  \/ CleanSticky
  \/ Tick

Spec == Init /\ [][Next]_vars

----------------------------------------------------------------------------
(* Properties *)

\* The router's tables keep their types, and no instance is given more
\* sessions than it takes.
TypeOK ==
  /\ clock \in 0 .. MaxTime
  /\ inflight \in [Instance -> 0 .. MaxInflight]
  /\ lastUsedAt \in [Instance -> 0 .. MaxTime]
  /\ healthy \in [Instance -> BOOLEAN]
  /\ sticky \in [Key -> StickyEntry]
  /\ session \in [Session -> SessionRecord]

Live(s) == ~session[s].cleanedUp
On(i) == {s \in Session : Live(s) /\ session[s].inst = i}

\* A slot is taken exactly as long as its session lives, although the ends of
\* the two sockets, their errors and the closes that follow each call cleanup.
InflightCountsSessions == \A i \in Instance : inflight[i] = Cardinality(On(i))

\* Two sessions of a key run on different instances only if the assignment of
\* the earlier one had run out when the later one began: a busy or broken
\* instance makes pickInstance refuse, not move, the key.
KeyMovesOnlyAfterExpiry ==
  \A s, t \in Session :
    (/\ NoInstance \notin {session[s].inst, session[t].inst}
     /\ session[s].key = session[t].key
     /\ session[s].inst # session[t].inst) =>
        \/ session[s].until <= session[t].startedAt
        \/ session[t].until <= session[s].startedAt
=============================================================================
