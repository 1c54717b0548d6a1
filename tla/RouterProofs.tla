---------------------------- MODULE RouterProofs ----------------------------
(***************************************************************************)
(* The router's slots are counted right and never given twice, and a key   *)
(* stays with its instance while its assignment holds: for any pool,       *)
(* limit, keys and sessions.                                               *)
(***************************************************************************)
EXTENDS PersonaPlexRouter, FiniteSetTheorems, TLAPS

\* A session lives on an instance, from its upgrade on.
SessionsAreReal ==
  \A s \in Session :
    /\ Live(s) => session[s].inst \in Instance
    /\ session[s].upstream = "none" => ~Live(s) /\ ~session[s].client

\* The assignment a session was accepted under has expired or still stands:
\* what the next upgrade of its key reads.
AssignmentsStand ==
  \A s \in Session : session[s].inst # NoInstance =>
    /\ session[s].startedAt <= clock
    /\ \/ session[s].until <= clock
       \/ sticky[session[s].key] = [idx |-> session[s].inst, expiresAt |-> session[s].until]

\* The inductive invariant.
RInv ==
  /\ TypeOK
  /\ SessionsAreReal
  /\ InflightCountsSessions
  /\ AssignmentsStand
  /\ KeyMovesOnlyAfterExpiry

LEMMA ConstantTypes ==
  /\ StickyTtl \in Nat /\ MaxTime \in Nat /\ MaxInflight \in Nat /\ MaxInflight > 0
  /\ NumInstances \in Nat /\ NoInstance \notin Instance /\ Instance \subseteq Nat
  /\ (CHOOSE k \in Key : TRUE) \in Key
  BY RouterAssumption DEF Instance, NoInstance

LEMMA OnFinite ==
  ASSUME NEW i PROVE IsFiniteSet(On(i)) /\ Cardinality(On(i)) \in Nat
<1>1. IsFiniteSet(On(i))
  BY RouterAssumption, FS_Subset DEF On
<1> QED
  BY <1>1, FS_CardinalityType

LEMMA InitRInv == Init => RInv
<1> SUFFICES ASSUME Init PROVE RInv
  OBVIOUS
<1>1. NoSession \in SessionRecord /\ NoEntry \in StickyEntry
  BY ConstantTypes DEF NoSession, SessionRecord, UpstreamState, NoEntry, StickyEntry, NoInstance
<1>2. TypeOK
  BY <1>1, ConstantTypes DEF Init, TypeOK
<1>3. \A s \in Session : ~Live(s) /\ session[s].inst = NoInstance /\ ~session[s].client
  BY DEF Init, Live, NoSession
<1>4. \A i \in Instance : On(i) = {}
  BY <1>3 DEF On
<1>5. InflightCountsSessions
  BY <1>4, FS_EmptySet DEF InflightCountsSessions, Init
<1> QED
  BY <1>2, <1>3, <1>5 DEF RInv, SessionsAreReal, AssignmentsStand, KeyMovesOnlyAfterExpiry

\* pickInstance finds an instance with a free slot, and one that an assignment
\* which holds names.
LEMMA PickIsFree ==
  ASSUME NEW k \in Key, NEW i \in PickInstance(k)
  PROVE  i \in Instance /\ inflight[i] < MaxInflight /\ (Assigned(k) => i = sticky[k].idx)
  BY DEF PickInstance, LeastLoaded, Available

\* What pickInstance writes is of the right type, names the instance, and
\* disturbs only an assignment that has expired.
LEMMA StickyAfterPickType ==
  ASSUME TypeOK, NEW k \in Key, NEW i \in PickInstance(k)
  PROVE  /\ StickyAfterPick(k, i) \in [Key -> StickyEntry]
         /\ StickyAfterPick(k, i)[k].idx = i
         /\ \A m \in Key : Assigned(m) => StickyAfterPick(k, i)[m] = sticky[m]
<1>1. i \in Instance /\ (Assigned(k) => i = sticky[k].idx)
  BY PickIsFree
<1>2. [idx |-> i, expiresAt |-> clock + StickyTtl] \in StickyEntry
  BY <1>1, ConstantTypes DEF TypeOK, StickyEntry
<1> QED
  BY <1>1, <1>2 DEF StickyAfterPick, TypeOK

\* An assignment recorded by a session stands as long as nobody touches those
\* that hold.
LEMMA StandingSurvives ==
  ASSUME RInv, NEW s \in Session, session[s].inst # NoInstance,
         clock' = clock \/ clock' = clock + 1,
         \A m \in Key : Assigned(m) => sticky'[m] = sticky[m]
  PROVE  /\ session[s].startedAt <= clock'
         /\ \/ session[s].until <= clock'
            \/ sticky'[session[s].key] = [idx |-> session[s].inst, expiresAt |-> session[s].until]
<1>1. /\ session[s].key \in Key /\ session[s].until \in Nat /\ session[s].startedAt \in Nat
      /\ clock \in Nat
  BY ConstantTypes DEF RInv, TypeOK, SessionRecord
<1>2. /\ session[s].startedAt <= clock
      /\ \/ session[s].until <= clock
         \/ sticky[session[s].key] = [idx |-> session[s].inst, expiresAt |-> session[s].until]
  BY DEF RInv, AssignmentsStand
<1>3. CASE session[s].until <= clock
  BY <1>1, <1>2, <1>3
<1>4. CASE ~(session[s].until <= clock)
  BY <1>1, <1>2, <1>4 DEF Assigned
<1> QED
  BY <1>3, <1>4

\* A step that leaves the sessions and the slots alone.
LEMMA TableStepKeepsRInv ==
  ASSUME RInv, TypeOK', UNCHANGED <<inflight, session>>, clock' = clock \/ clock' = clock + 1,
         \A m \in Key : Assigned(m) => sticky'[m] = sticky[m]
  PROVE  RInv'
<1>1. SessionsAreReal' /\ InflightCountsSessions' /\ KeyMovesOnlyAfterExpiry'
  BY DEF RInv, SessionsAreReal, InflightCountsSessions, KeyMovesOnlyAfterExpiry, Live, On
<1>2. AssignmentsStand'
  BY StandingSurvives DEF AssignmentsStand
<1> QED
  BY <1>1, <1>2 DEF RInv

LEMMA UpgradeKeepsRInv ==
  ASSUME RInv, NEW s \in Session, NEW k \in Key, NEW i \in Instance, Upgrade(s, k, i)
  PROVE  RInv'
<1> DEFINE new == [key |-> k, inst |-> i, startedAt |-> clock, until |-> sticky'[k].expiresAt,
                   client |-> TRUE, upstream |-> "connecting", cleanedUp |-> FALSE]
<1>1. /\ i \in PickInstance(k) /\ sticky' = StickyAfterPick(k, i)
      /\ inflight' = [inflight EXCEPT ![i] = @ + 1]
      /\ lastUsedAt' = [lastUsedAt EXCEPT ![i] = clock]
      /\ session' = [session EXCEPT ![s] = new]
      /\ session[s].upstream = "none"
      /\ UNCHANGED <<clock, healthy>>
  BY DEF Upgrade
<1>2. /\ sticky' \in [Key -> StickyEntry] /\ sticky'[k].idx = i
      /\ \A m \in Key : Assigned(m) => sticky'[m] = sticky[m]
  BY <1>1, StickyAfterPickType DEF RInv
<1>3. /\ TypeOK /\ clock \in Nat /\ inflight[i] \in Nat /\ inflight[i] < MaxInflight
      /\ sticky'[k].expiresAt \in 0 .. MaxTime + StickyTtl
  BY <1>1, <1>2, PickIsFree, ConstantTypes DEF RInv, TypeOK, StickyEntry
<1> HIDE DEF new
<1>4. TypeOK'
  <2>1. new \in SessionRecord
    BY <1>3 DEF new, SessionRecord, UpstreamState, TypeOK
  <2>2. inflight' \in [Instance -> 0 .. MaxInflight]
    BY <1>1, <1>3, ConstantTypes DEF TypeOK
  <2> QED
    BY <1>1, <1>2, <1>3, <2>1, <2>2 DEF TypeOK
<1>5. session'[s] = new /\ \A t \in Session \ {s} : session'[t] = session[t]
  BY <1>1, <1>3 DEF TypeOK
<1>6. SessionsAreReal'
  BY <1>5 DEF RInv, SessionsAreReal, Live, new
<1>7. InflightCountsSessions'
  <2>1. ~Live(s)
    BY <1>1 DEF RInv, SessionsAreReal
  <2>2. On(i)' = On(i) \cup {s} /\ s \notin On(i)
    BY <1>5, <2>1 DEF On, Live, new
  <2>3. \A j \in Instance \ {i} : On(j)' = On(j)
    BY <1>5, <2>1 DEF On, Live, new
  <2>4. Cardinality(On(i)') = Cardinality(On(i)) + 1
    BY <2>2, OnFinite, FS_AddElement
  <2> QED
    BY <1>1, <1>3, <2>2, <2>3, <2>4 DEF RInv, InflightCountsSessions, TypeOK
<1>8. AssignmentsStand'
  <2> SUFFICES ASSUME NEW t \in Session, session'[t].inst # NoInstance
               PROVE  /\ session'[t].startedAt <= clock'
                      /\ \/ session'[t].until <= clock'
                         \/ sticky'[session'[t].key]
                              = [idx |-> session'[t].inst, expiresAt |-> session'[t].until]
    BY DEF AssignmentsStand
  <2>1. CASE t = s
    <3>1. sticky'[k] = [idx |-> i, expiresAt |-> sticky'[k].expiresAt]
      BY <1>2 DEF StickyEntry
    <3> QED
      BY <1>1, <1>3, <1>5, <2>1, <3>1 DEF new
  <2>2. CASE t # s
    BY <1>1, <1>2, <1>5, <2>2, StandingSurvives
  <2> QED
    BY <2>1, <2>2
<1>9. KeyMovesOnlyAfterExpiry'
  <2>1. ASSUME NEW t \in Session, t # s, session[t].inst # NoInstance, session[t].key = k,
               session[t].inst # i
        PROVE  session[t].until <= clock
    <3>1. \/ session[t].until <= clock
          \/ sticky[k] = [idx |-> session[t].inst, expiresAt |-> session[t].until]
      BY <2>1 DEF RInv, AssignmentsStand
    <3>2. Assigned(k) => i = sticky[k].idx
      BY <1>1, PickIsFree
    <3>3. session[t].until \in Nat
      BY <1>3, ConstantTypes DEF TypeOK, SessionRecord
    <3> QED
      BY <1>3, <2>1, <3>1, <3>2, <3>3 DEF Assigned
  <2>2. \A t \in Session : t # s /\ session[t].inst # NoInstance /\ session[t].key = k
                             /\ session[t].inst # i => session[t].until <= clock
    BY <2>1
  <2> QED
    BY <1>5, <2>2 DEF RInv, KeyMovesOnlyAfterExpiry, new
<1> QED
  BY <1>4, <1>6, <1>7, <1>8, <1>9 DEF RInv

\* cleanup frees the slot of a living session once.
LEMMA CleanupKeepsRInv ==
  ASSUME RInv, NEW s \in Session, session[s].upstream # "none",
         NEW up \in UpstreamState \ {"none"}, Cleanup(s, up),
         healthy' \in [Instance -> BOOLEAN], UNCHANGED <<clock, lastUsedAt, sticky>>
  PROVE  RInv'
<1>1. TypeOK /\ session[s] \in SessionRecord /\ session \in [Session -> SessionRecord]
  BY DEF RInv, TypeOK
<1>2. PICK us \in UpstreamState \ {"none"} :
        session' = [session EXCEPT ![s] = [session[s] EXCEPT !.cleanedUp = TRUE, !.client = FALSE,
                                                             !.upstream = us]]
  <2>1. UpstreamAfterClose(up) \in UpstreamState \ {"none"}
    BY DEF UpstreamAfterClose, UpstreamState
  <2> QED
    BY <1>1, <2>1 DEF Cleanup, CleanedUp, SessionRecord
<1>3. /\ session'[s].key = session[s].key /\ session'[s].inst = session[s].inst
      /\ session'[s].startedAt = session[s].startedAt /\ session'[s].until = session[s].until
      /\ session'[s].cleanedUp = TRUE /\ session'[s].client = FALSE
      /\ session'[s].upstream = us /\ session'[s] \in SessionRecord
      /\ session' \in [Session -> SessionRecord]
      /\ \A t \in Session \ {s} : session'[t] = session[t]
  BY <1>1, <1>2 DEF SessionRecord
<1>4. inflight' = IF Live(s) THEN [inflight EXCEPT ![session[s].inst] = IF @ = 0 THEN 0 ELSE @ - 1]
                  ELSE inflight
  BY <1>1 DEF Cleanup, InflightAfterCleanup, Live, SessionRecord
<1>5. TypeOK'
  <2>1. \A i \in Instance : inflight[i] \in 0 .. MaxInflight
                           /\ (IF inflight[i] = 0 THEN 0 ELSE inflight[i] - 1) \in 0 .. MaxInflight
    BY <1>1, ConstantTypes DEF TypeOK
  <2>2. inflight' \in [Instance -> 0 .. MaxInflight]
    BY <1>1, <1>4, <2>1 DEF TypeOK
  <2> QED
    BY <1>1, <1>3, <2>2 DEF TypeOK
<1>6. SessionsAreReal'
  BY <1>3 DEF RInv, SessionsAreReal, Live
<1>7. InflightCountsSessions'
  <2>1. CASE ~Live(s)
    <3>1. \A j \in Instance : On(j)' = On(j)
      BY <1>3, <2>1 DEF On, Live
    <3> QED
      BY <1>4, <2>1, <3>1 DEF RInv, InflightCountsSessions
  <2>2. CASE Live(s)
    <3> PICK i \in Instance : i = session[s].inst
      BY <2>2 DEF RInv, SessionsAreReal
    <3>1. s \in On(i) /\ inflight[i] = Cardinality(On(i))
      BY <2>2 DEF RInv, InflightCountsSessions, On
    <3>2. On(i)' = On(i) \ {s}
      BY <1>3, <2>2 DEF On, Live
    <3>3. \A j \in Instance \ {i} : On(j)' = On(j)
      BY <1>3, <2>2 DEF On, Live
    <3>4. IsFiniteSet(On(i)) /\ Cardinality(On(i)) \in Nat
      BY OnFinite
    <3>5. Cardinality(On(i) \ {s}) = Cardinality(On(i)) - 1
      BY <3>1, <3>4, FS_RemoveElement
    <3>6. Cardinality(On(i)) # 0
      BY <3>1, <3>4, FS_EmptySet
    <3>7. Cardinality(On(i)') = Cardinality(On(i)) - 1 /\ Cardinality(On(i)) \in Nat \ {0}
      BY <3>2, <3>4, <3>5, <3>6
    <3>8. inflight'[i] = Cardinality(On(i)') /\ \A j \in Instance \ {i} : inflight'[j] = inflight[j]
      BY <1>1, <1>4, <2>2, <3>1, <3>7 DEF TypeOK
    <3>9. \A j \in Instance : inflight[j] = Cardinality(On(j))
      BY DEF RInv, InflightCountsSessions
    <3>10. \A j \in Instance : inflight'[j] = Cardinality(On(j)')
      BY <3>3, <3>8, <3>9
    <3> QED
      BY <3>10 DEF InflightCountsSessions
  <2> QED
    BY <2>1, <2>2
<1>8. AssignmentsStand' /\ KeyMovesOnlyAfterExpiry'
  BY <1>3 DEF RInv, AssignmentsStand, KeyMovesOnlyAfterExpiry
<1> QED
  BY <1>5, <1>6, <1>7, <1>8 DEF RInv

\* The handler of the upstream's `open`.
LEMMA OpenKeepsRInv ==
  ASSUME RInv, NEW s \in Session, UpstreamOpen(s)
  PROVE  RInv'
<1>1. TypeOK /\ session[s] \in SessionRecord
  BY DEF RInv, TypeOK
<1>2. /\ session'[s] = [session[s] EXCEPT !.upstream = "open"]
      /\ \A t \in Session \ {s} : session'[t] = session[t]
      /\ UNCHANGED <<clock, inflight, lastUsedAt, sticky>>
  BY <1>1 DEF UpstreamOpen, TypeOK
<1>3. /\ session'[s].key = session[s].key /\ session'[s].inst = session[s].inst
      /\ session'[s].startedAt = session[s].startedAt /\ session'[s].until = session[s].until
      /\ session'[s].cleanedUp = session[s].cleanedUp /\ session'[s].upstream = "open"
      /\ session[s].upstream = "connecting"
      /\ \A t \in Session \ {s} : session'[t] = session[t]
      /\ UNCHANGED <<clock, sticky>>
  BY <1>1, <1>2 DEF SessionRecord, UpstreamOpen
<1>4. TypeOK'
  BY <1>1 DEF UpstreamOpen, TypeOK, SessionRecord, UpstreamState
<1>5. \A i \in Instance : On(i)' = On(i)
  <2>1. \A t \in Session : session'[t].cleanedUp = session[t].cleanedUp
                         /\ session'[t].inst = session[t].inst
    BY <1>3
  <2> QED
    BY <2>1 DEF On, Live
<1>6. InflightCountsSessions'
  BY <1>2, <1>5 DEF RInv, InflightCountsSessions
<1>7. SessionsAreReal'
  BY <1>3 DEF RInv, SessionsAreReal, Live
<1>8. AssignmentsStand'
  BY <1>3 DEF RInv, AssignmentsStand
<1>9. KeyMovesOnlyAfterExpiry'
  BY <1>3 DEF RInv, KeyMovesOnlyAfterExpiry
<1> QED
  BY <1>4, <1>6, <1>7, <1>8, <1>9 DEF RInv

LEMMA StepKeepsRInv == RInv /\ [Next]_vars => RInv'
<1> SUFFICES ASSUME RInv, [Next]_vars PROVE RInv'
  OBVIOUS
<1>1. CASE \E k \in Key, i \in Instance, s \in Session : Upgrade(s, k, i)
  BY <1>1, UpgradeKeepsRInv
<1>2. CASE \E k \in Key, i \in Instance : UpgradeMalformed(k, i)
  <2>1. PICK k \in Key, i \in Instance : UpgradeMalformed(k, i)
    BY <1>2
  <2>2. /\ sticky' \in [Key -> StickyEntry]
        /\ \A m \in Key : Assigned(m) => sticky'[m] = sticky[m]
        /\ UNCHANGED <<clock, inflight, lastUsedAt, healthy, session>>
    BY <2>1, StickyAfterPickType DEF UpgradeMalformed, RInv
  <2> QED
    BY <2>2, TableStepKeepsRInv DEF RInv, TypeOK
<1>3. CASE \E s \in Session : ClientClosed(s) \/ UpstreamClosed(s) \/ UpstreamError(s)
  <2>1. PICK s \in Session : ClientClosed(s) \/ UpstreamClosed(s) \/ UpstreamError(s)
    BY <1>3
  <2>2. TypeOK /\ session[s] \in SessionRecord /\ session[s].upstream \in UpstreamState
    BY DEF RInv, TypeOK, SessionRecord
  <2>3. /\ session[s].upstream # "none"
        /\ \E up \in UpstreamState \ {"none"} : Cleanup(s, up)
        /\ healthy' \in [Instance -> BOOLEAN] /\ UNCHANGED <<clock, lastUsedAt, sticky>>
    <3>1. CASE ClientClosed(s)
      BY <3>1, <2>2 DEF ClientClosed, RInv, SessionsAreReal, TypeOK
    <3>2. CASE UpstreamClosed(s) \/ UpstreamError(s)
      BY <3>2, <2>2 DEF UpstreamClosed, UpstreamError, UpstreamState, TypeOK
    <3> QED
      BY <2>1, <3>1, <3>2
  <2> QED
    BY <2>3, CleanupKeepsRInv
<1>4. CASE \E s \in Session : UpstreamOpen(s)
  BY <1>4, OpenKeepsRInv
<1>5. CASE CleanSticky
  <2>1. NoEntry \in StickyEntry
    BY ConstantTypes DEF NoEntry, StickyEntry, NoInstance
  <2> QED
    BY <1>5, <2>1, TableStepKeepsRInv DEF CleanSticky, RInv, TypeOK
<1>6. CASE Tick
  <2>1. TypeOK'
    BY <1>6, ConstantTypes DEF Tick, RInv, TypeOK
  <2> QED
    BY <1>6, <2>1, TableStepKeepsRInv DEF Tick
<1>7. CASE UNCHANGED vars
  BY <1>7, TableStepKeepsRInv DEF vars, RInv, TypeOK
<1> QED
  BY <1>1, <1>2, <1>3, <1>4, <1>5, <1>6, <1>7 DEF Next

\* The router's tables keep their types, so no instance has more sessions than
\* it takes (takeSlot).
THEOREM RouterTypes == Spec => []TypeOK
<1>1. RInv => TypeOK
  BY DEF RInv
<1> QED
  BY <1>1, InitRInv, StepKeepsRInv, PTL DEF Spec

\* A slot is taken exactly as long as its session lives, in whatever order the
\* two sockets of a session fail and close (cleanup).
THEOREM SlotSafety == Spec => []InflightCountsSessions
<1>1. RInv => InflightCountsSessions
  BY DEF RInv
<1> QED
  BY <1>1, InitRInv, StepKeepsRInv, PTL DEF Spec

\* A key moves to another instance only after its assignment has run out
\* (pickInstance).
THEOREM KeySafety == Spec => []KeyMovesOnlyAfterExpiry
<1>1. RInv => KeyMovesOnlyAfterExpiry
  BY DEF RInv
<1> QED
  BY <1>1, InitRInv, StepKeepsRInv, PTL DEF Spec
=============================================================================
