--------------------------- MODULE JitsiBotProofs ---------------------------
(***************************************************************************)
(* Both ways of the bot page's audio.  To the room: the speech underway is *)
(* a line, whose order, lag and end are as they should be, for any sizes   *)
(* of frames, buffers, pushes and callbacks.  From the room: the mixer     *)
(* plays what its bindings say, for any tracks, owners and statistics.     *)
(***************************************************************************)
EXTENDS RoomAudio, AudioBridge, SequenceTheorems, WellFoundedInduction, TLAPS

----------------------------------------------------------------------------
(* From the room: the mixer                                                *)

\* The tracks the page is to bind have an owner, and no participant has two at
\* a time: attachExistingRemoteTracks binds them all at once.
TracksInv ==
  /\ setting \in Settings
  /\ listed \subseteq DOMAIN owner /\ timers \subseteq DOMAIN owner
  /\ \A t, u \in listed : owner[t] = owner[u] => t = u

\* What is in the mixer is what its participant's binding says.
MixerInv ==
  /\ bindings = [p \in Participant |-> bindings[p]]
  /\ \A s \in mixed : s.participant \in Participant
  /\ MixerMatchesBindings

\* The inductive invariant.
RInv == TracksInv /\ MixerInv

\* A track with an owner is one of a participant.
LEMMA OwnerIsParticipant ==
  ASSUME TracksInv, NEW t \in DOMAIN owner
  PROVE  owner[t] \in Participant
<1>1. PICK tracks \in SUBSET Track : owner \in [tracks -> Participant]
  BY TrackAssumption DEF TracksInv, owner
<1> QED
  BY <1>1

\* What was taken away is gone, and what was left is still as its binding says.
LEMMA RestMatches ==
  ASSUME MixerInv, NEW ps, NEW s \in WithoutSources(mixed, ps)
  PROVE  /\ s.participant \in Participant \ ps
         /\ s = SourceOf(s.participant, bindings[s.participant])
BY DEF MixerInv, MixerMatchesBindings, WithoutSources

\* addRemoteTrackToMixer for tracks of different participants.
LEMMA AddKeepsMixerInv ==
  ASSUME RInv, NEW tracks, tracks \subseteq DOMAIN owner,
         \A t, u \in tracks : owner[t] = owner[u] => t = u,
         AddTracks(tracks)
  PROVE  MixerInv'
<1> DEFINE new == {t \in tracks \ ended : bindings[owner[t]].track # t}
           changed == {owner[t] : t \in new}
           NewOf(p) == CHOOSE t \in new : owner[t] = p
<1>1. PICK bad \in SUBSET new :
        /\ bindings' = [p \in Participant |->
                          IF p \notin changed THEN bindings[p]
                          ELSE IF NewOf(p) \in bad THEN Unbound ELSE Bound(NewOf(p))]
        /\ mixed' = WithoutSources(mixed, changed) \cup {SourceOf(owner[t], Bound(t)) : t \in new \ bad}
  BY DEF AddTracks
<1>2. \A t \in new : NewOf(owner[t]) = t /\ owner[t] \in Participant /\ owner[t] \in changed
  BY OwnerIsParticipant DEF RInv
<1>3. \A p \in Participant \ changed : bindings'[p] = bindings[p]
  BY <1>1
<1>4. \A t \in new \ bad : bindings'[owner[t]] = Bound(t)
  BY <1>1, <1>2
<1>5. \A s \in mixed' : /\ s.participant \in Participant
                        /\ s = SourceOf(s.participant, bindings'[s.participant])
  <2> SUFFICES ASSUME NEW s \in mixed'
               PROVE  /\ s.participant \in Participant
                      /\ s = SourceOf(s.participant, bindings'[s.participant])
    OBVIOUS
  <2>1. CASE s \in WithoutSources(mixed, changed)
    BY <1>3, <2>1, RestMatches DEF RInv
  <2>2. CASE \E t \in new \ bad : s = SourceOf(owner[t], Bound(t))
    <3>1. PICK t \in new \ bad : s = SourceOf(owner[t], Bound(t))
      BY <2>2
    <3>2. s.participant = owner[t]
      BY <3>1 DEF SourceOf
    <3> QED
      BY <1>2, <1>4, <3>1, <3>2
  <2> QED
    BY <1>1, <2>1, <2>2
<1>6. bindings' = [p \in Participant |-> bindings'[p]]
  BY <1>1
<1>7. \A s \in mixed' : s = SourceOf(s.participant, bindings[s.participant])'
  BY <1>5 DEF SourceOf
<1> QED
  BY <1>5, <1>6, <1>7 DEF MixerInv, MixerMatchesBindings

\* rebindMixerToReceiverTrack, which may leave a binding without its source.
LEMMA RebindKeepsMixerInv ==
  ASSUME RInv, NEW p \in Participant, NEW sel, Rebind(p, sel)
  PROVE  MixerInv'
<1> DEFINE b == [track |-> sel, bound |-> ReceiverFor(sel), via |-> "receiver"]
           rest == WithoutSources(mixed, {p})
<1>1. bindings = [q \in Participant |-> bindings[q]]
  BY DEF RInv, MixerInv
<1>2. \A s \in rest : /\ s.participant \in Participant \ {p}
                      /\ s = SourceOf(s.participant, bindings[s.participant])
  BY RestMatches DEF RInv
<1>3. CASE bindings' = [bindings EXCEPT ![p] = b] /\ mixed' = rest \cup {SourceOf(p, b)}
  <2>1. bindings'[p] = b /\ \A q \in Participant \ {p} : bindings'[q] = bindings[q]
    BY <1>1, <1>3
  <2>2. bindings' = [q \in Participant |-> bindings'[q]]
    BY <1>1, <1>3
  <2>3. SourceOf(p, b).participant = p
    BY DEF SourceOf
  <2> HIDE DEF b, rest
  <2>4. \A s \in mixed' : /\ s.participant \in Participant
                          /\ s = SourceOf(s.participant, bindings'[s.participant])
    BY <1>2, <1>3, <2>1, <2>3
  <2>5. \A s \in mixed' : s = SourceOf(s.participant, bindings[s.participant])'
    BY <2>4 DEF SourceOf
  <2> QED
    BY <2>2, <2>4, <2>5 DEF MixerInv, MixerMatchesBindings
<1>4. CASE mixed' = rest /\ UNCHANGED bindings
  BY <1>1, <1>2, <1>4 DEF MixerInv, MixerMatchesBindings, SourceOf
<1> QED
  BY <1>3, <1>4 DEF Rebind

\* The two timers that bind tracks.
LEMMA TimerKeepsRInv ==
  ASSUME RInv, TimerStep
  PROVE  RInv'
<1>1. CASE AttachExisting
  <2>1. listed \subseteq DOMAIN owner /\ \A t, u \in listed : owner[t] = owner[u] => t = u
    BY DEF RInv, TracksInv
  <2>2. AddTracks(listed) /\ UNCHANGED <<setting, listed, timers>>
    BY <1>1 DEF AttachExisting, environment
  <2>3. TracksInv'
    BY <2>2 DEF RInv, TracksInv, owner
  <2> QED
    BY <2>1, <2>2, <2>3, AddKeepsMixerInv DEF RInv
<1>2. ASSUME NEW t \in Track, AddTimer(t) PROVE RInv'
  <2>1. t \in DOMAIN owner
    BY <1>2 DEF AddTimer, RInv, TracksInv
  <2>2. AddTracks({t}) /\ UNCHANGED <<setting, listed>> /\ timers' \subseteq timers
    BY <1>2 DEF AddTimer, environment
  <2>3. TracksInv'
    BY <2>2 DEF RInv, TracksInv, owner
  <2> QED
    BY <2>1, <2>2, <2>3, AddKeepsMixerInv DEF RInv
<1> QED
  BY <1>1, <1>2 DEF TimerStep

\* The poll, whichever track its ranking selects.
LEMMA PollKeepsRInv ==
  ASSUME RInv, NEW gap, NEW loud, Poll(gap, loud)
  PROVE  RInv'
<1>1. UNCHANGED <<setting, listed, timers>>
  BY DEF Poll, environment
<1>2. TracksInv'
  BY <1>1 DEF RInv, TracksInv, owner
<1>3. PICK sel, time : UNCHANGED binding \/ Apply(sel, time, loud)
  BY DEF Poll
<1>4. CASE UNCHANGED binding
  BY <1>2, <1>4 DEF RInv, MixerInv, MixerMatchesBindings, binding, SourceOf
<1>5. CASE sel \in listed /\ AddTracks({sel})
  <2>1. sel \in DOMAIN owner
    BY <1>5 DEF RInv, TracksInv
  <2> QED
    BY <1>2, <1>5, <2>1, AddKeepsMixerInv DEF RInv
<1>6. CASE \E p \in Participant : Rebind(p, sel)
  BY <1>2, <1>6, RebindKeepsMixerInv DEF RInv
<1> QED
  BY <1>3, <1>4, <1>5, <1>6 DEF Apply, BoundFor

\* The room and the peer connection: a participant's second track is announced
\* only when the first is gone.
LEMMA RoomKeepsRInv ==
  ASSUME RInv, RoomStep
  PROVE  RInv'
<1>1. UNCHANGED <<setting, bindings, mixed>>
  BY DEF RoomStep, Connected, ConferenceJoined, TrackAdded, TrackRemoved, ReceiverFound,
         ReceiverGone, RtpStarts, RtpStops, environment, binding
<1>2. MixerInv'
  BY <1>1 DEF RInv, MixerInv, MixerMatchesBindings, SourceOf
<1>3. ASSUME NEW t \in Track, TrackAdded(t) PROVE TracksInv'
  BY <1>1, <1>3 DEF TrackAdded, RInv, TracksInv, owner
<1>4. ASSUME NEW t \in Track, TrackRemoved(t) PROVE TracksInv'
  BY <1>1, <1>4 DEF TrackRemoved, RInv, TracksInv, owner
<1>5. ASSUME UNCHANGED <<listed, timers>> PROVE TracksInv'
  BY <1>1, <1>5 DEF RInv, TracksInv, owner
<1>6. \/ \E t \in Track : TrackAdded(t) \/ TrackRemoved(t)
      \/ UNCHANGED <<listed, timers>>
  BY DEF RoomStep, Connected, ConferenceJoined, ReceiverFound, ReceiverGone, RtpStarts, RtpStops,
         environment
<1> QED
  BY <1>2, <1>3, <1>4, <1>5, <1>6 DEF RInv

\* The invariant holds at the start, with nothing listed, bound or mixed.
LEMMA InitRInv == RoomInit => RInv
  BY DEF RoomInit, PageInit, RInv, TracksInv, MixerInv, MixerMatchesBindings

\* Every step keeps the invariant, whatever the contract makes of it.
LEMMA StepKeepsRInv == RInv /\ [RoomNext]_roomVars => RInv'
<1> SUFFICES ASSUME RInv, [RoomNext]_roomVars PROVE RInv'
  OBVIOUS
<1>1. CASE PollAndProbe
  BY <1>1, PollKeepsRInv DEF PollAndProbe
<1>2. CASE UNCHANGED roomVars
  BY <1>2 DEF roomVars, rxVars, environment, binding, RInv, TracksInv, owner, MixerInv,
              MixerMatchesBindings, SourceOf
<1> QED
  BY <1>1, <1>2, TimerKeepsRInv, RoomKeepsRInv DEF RoomNext

\* Each source in the mixer is that of its participant's binding, whatever is
\* added, renegotiated, rebound or fails half-way: nothing plays on that was
\* taken away.
THEOREM MixerSafety == RoomSpec => []MixerMatchesBindings
<1>1. RInv => MixerMatchesBindings
  BY DEF RInv, MixerInv
<1> QED
  BY <1>1, InitRInv, StepKeepsRInv, PTL DEF RoomSpec

----------------------------------------------------------------------------
(* To the room: the line of speech                                         *)

\* Units of audio are numbers, and a frame has FrameUnits of them.
Speech == Seq(Nat)
Frame == {f \in Speech : Len(f) = FrameUnits}

\* Order within a sequence, and of one before another.
Rising(s) == \A i, j \in 1 .. Len(s) : i < j => s[i] < s[j]
Below(s, t) == \A x \in Range(s), y \in Range(t) : x < y

\* What the page has not played, and the units that fill frames.
Unread == SubSeq(FlattenSeq(jitter), readOffset + 1, Len(FlattenSeq(jitter)))
Cut == pushed - Len(txBuffer)

\* The types of what holds speech.
BridgeTypes ==
  /\ pushed \in Nat /\ lastPlayed \in Nat
  /\ txBuffer \in Speech
  /\ txQueue \in Seq(Frame) /\ wire \in Seq(Frame) /\ jitter \in Seq(Frame)
  /\ readOffset \in 0 .. FrameUnits - 1

\* The buffer has the newest units, fewer than a frame.
BufferInv ==
  /\ Len(txBuffer) < FrameUnits /\ Len(txBuffer) <= pushed
  /\ \A i \in 1 .. Len(txBuffer) : txBuffer[i] = Cut + i

\* Two units that follow each other in the queue are no further apart than what
\* one push may lose.
Gap == 1 + Max({0, Max(ChunkSizes) + FrameUnits - 1 - MaxTxBuffer})
Close(s) == \A i \in 1 .. Len(s) - 1 : s[i + 1] - s[i] <= Gap

\* The queue has no larger gap and ends where the buffer goes on.
QueueInv ==
  LET q == FlattenSeq(txQueue) IN Close(q) /\ (q # <<>> => q[Len(q)] = Cut)

\* Pieces of speech on their way into the room, one behind the other.
InLine(last, a, w, q, cut) ==
  /\ Rising(a) /\ Rising(w) /\ Rising(q)
  /\ Below(a, w) /\ Below(a, q) /\ Below(w, q)
  /\ last <= cut
  /\ \A x \in Range(a) \cup Range(w) \cup Range(q) : last < x /\ x <= cut

\* Played, unread, on the wire, queued: one line up to Cut.
LineInv == InLine(lastPlayed, Unread, FlattenSeq(wire), FlattenSeq(txQueue), Cut)

\* The page's counter, and how far it may be behind.
LagInv ==
  /\ samples = Len(FlattenSeq(jitter)) - readOffset
  /\ Len(FlattenSeq(jitter)) < DropThreshold + FrameUnits
  /\ jitter = <<>> => readOffset = 0

\* The inductive invariant.
BInv == BridgeTypes /\ BufferInv /\ QueueInv /\ LineInv /\ LagInv

----------------------------------------------------------------------------
(* Sequences of sequences                                                  *)

\* Induction on numbers and on sequences, with the claim as a set.
LEMMA NatSet ==
  ASSUME NEW T, 0 \in T, \A n \in Nat : n \in T => n + 1 \in T
  PROVE  Nat \subseteq T
<1> DEFINE U == Nat \ T
<1> SUFFICES ASSUME U # {} PROVE FALSE
  OBVIOUS
<1>1. PICK m \in U : \A n \in U : ~(<<n, m>> \in OpToRel(<, Nat))
  BY NatLessThanWellFounded, WFMin, Zenon
<1>2. \A n \in U : ~(n < m)
  BY <1>1 DEF OpToRel
<1>3. m \in Nat /\ m \notin T /\ m # 0
  OBVIOUS
<1>4. m - 1 \in Nat /\ m - 1 < m /\ (m - 1) + 1 = m
  BY <1>3
<1>5. m - 1 \in T
  BY <1>2, <1>4
<1> QED
  BY <1>3, <1>4, <1>5

\* The same for sequences, from the empty one by Append.
LEMMA SeqSet ==
  ASSUME NEW S, NEW T, <<>> \in T, \A t \in Seq(S), e \in S : t \in T => Append(t, e) \in T
  PROVE  Seq(S) \subseteq T
<1> DEFINE N == {n \in Nat : \A s \in Seq(S) : Len(s) = n => s \in T}
<1>1. 0 \in N
  <2>1. ASSUME NEW s \in Seq(S), Len(s) = 0 PROVE s \in T
    BY <2>1, EmptySeq
  <2> QED
    BY <2>1
<1>2. ASSUME NEW n \in Nat, n \in N PROVE n + 1 \in N
  <2>1. ASSUME NEW s \in Seq(S), Len(s) = n + 1 PROVE s \in T
    <3>1. s # <<>>
      BY <2>1
    <3>2. PICK t \in Seq(S), e \in S : s = Append(t, e)
      BY <3>1, SequenceEmptyOrAppend
    <3>3. Len(t) = n
      BY <2>1, <3>2, AppendProperties, LenProperties
    <3> QED
      BY <1>2, <3>2, <3>3
  <2> QED
    BY <1>2, <2>1
<1>3. Nat \subseteq N
  <2> HIDE DEF N
  <2> QED
    BY <1>1, <1>2, NatSet
<1> QED
  BY <1>3, LenProperties

\* The recursion of FlattenSeq, and that a function stands for it.
Flattened(s, f, i) == IF i = 1 THEN s[i] ELSE f[i - 1] \o s[i]
Flattens(s, m, f) == f = [i \in 1 .. m |-> Flattened(s, f, i)]

\* The recursive function exists.
LEMMA FlattensExists ==
  ASSUME NEW s, NEW m \in Nat
  PROVE  \E f : Flattens(s, m, f)
<1> DEFINE T == {n \in Nat : \E f : Flattens(s, n, f)}
<1>1. 0 \in T
  <2>1. Flattens(s, 0, [i \in 1 .. 0 |-> 0])
    BY DEF Flattens
  <2> QED
    BY <2>1
<1>2. ASSUME NEW n \in Nat, n \in T PROVE n + 1 \in T
  <2>1. PICK f : Flattens(s, n, f)
    BY <1>2
  <2> DEFINE g == [i \in 1 .. n + 1 |-> IF i = n + 1 THEN Flattened(s, f, n + 1) ELSE f[i]]
  <2>2. \A i \in 1 .. n : g[i] = f[i] /\ f[i] = Flattened(s, f, i)
    BY <2>1 DEF Flattens
  <2>3. \A i \in 1 .. n + 1 : Flattened(s, g, i) = Flattened(s, f, i)
    BY <2>2 DEF Flattened
  <2>4. \A i \in 1 .. n + 1 : g[i] = Flattened(s, g, i)
    BY <2>2, <2>3
  <2>5. Flattens(s, n + 1, g)
    BY <2>4 DEF Flattens
  <2> QED
    BY <2>5
<1> HIDE DEF T
<1>3. Nat \subseteq T
  BY <1>1, <1>2, NatSet
<1> QED
  BY <1>3 DEF T

\* FlattenSeq of a sequence with one more element.
LEMMA FlattenAppend ==
  ASSUME NEW s \in Seq(Seq(Nat)), NEW e \in Seq(Nat), FlattenSeq(s) \in Seq(Nat)
  PROVE  FlattenSeq(Append(s, e)) = FlattenSeq(s) \o e
<1> DEFINE t == Append(s, e)
           g == CHOOSE f : Flattens(s, Len(s), f)
           h == CHOOSE f : Flattens(t, Len(t), f)
<1>1. /\ Len(s) \in Nat /\ Len(t) = Len(s) + 1 /\ Len(t) # 0
      /\ \A i \in 1 .. Len(s) : t[i] = s[i]
      /\ t[Len(s) + 1] = e
  BY AppendProperties
<1> HIDE DEF t
<1>2. Flattens(s, Len(s), g) /\ Flattens(t, Len(t), h)
  <2>1. Len(s) \in Nat /\ Len(t) \in Nat
    BY <1>1
  <2>2. \E f : Flattens(s, Len(s), f)
    BY <2>1, FlattensExists, Zenon
  <2>3. \E f : Flattens(t, Len(t), f)
    BY <2>1, FlattensExists, Zenon
  <2> QED
    BY <2>2, <2>3
<1>3. FlattenSeq(t) = h[Len(t)] /\ (Len(s) # 0 => FlattenSeq(s) = g[Len(s)])
  BY <1>1 DEF FlattenSeq, Flattens, Flattened
<1> HIDE DEF g, h
<1>4. /\ \A i \in 1 .. Len(s) : g[i] = Flattened(s, g, i)
      /\ \A i \in 1 .. Len(t) : h[i] = Flattened(t, h, i)
  BY <1>2 DEF Flattens
<1> DEFINE T == {n \in Nat : n \in 1 .. Len(s) => g[n] = h[n]}
<1>5. 0 \in T
  OBVIOUS
<1>6. ASSUME NEW n \in Nat, n \in T PROVE n + 1 \in T
  <2> SUFFICES ASSUME n + 1 \in 1 .. Len(s) PROVE g[n + 1] = h[n + 1]
    OBVIOUS
  <2>1. g[n + 1] = Flattened(s, g, n + 1) /\ h[n + 1] = Flattened(t, h, n + 1)
    BY <1>1, <1>4
  <2>2. CASE n = 0
    BY <1>1, <2>1, <2>2 DEF Flattened
  <2>3. CASE n # 0
    BY <1>1, <1>6, <2>1, <2>3 DEF Flattened
  <2> QED
    BY <2>2, <2>3
<1>7. \A i \in 1 .. Len(s) : g[i] = h[i]
  <2> HIDE DEF T
  <2>1. Nat \subseteq T
    BY <1>5, <1>6, NatSet
  <2> QED
    BY <1>1, <2>1 DEF T
<1>8. CASE Len(s) = 0
  <2>1. s = <<>> /\ FlattenSeq(s) = <<>>
    BY <1>8, EmptySeq DEF FlattenSeq
  <2>2. FlattenSeq(t) = e
    BY <1>1, <1>3, <1>4, <1>8 DEF Flattened
  <2> QED
    BY <2>1, <2>2, ConcatEmptySeq DEF t
<1>9. CASE Len(s) # 0
  <2>1. h[Len(t)] = h[Len(s)] \o e
    <3>1. h[Len(s) + 1] = Flattened(t, h, Len(s) + 1)
      BY <1>1, <1>4
    <3>2. Len(s) + 1 # 1 /\ (Len(s) + 1) - 1 = Len(s)
      BY <1>1, <1>9
    <3> QED
      BY <1>1, <3>1, <3>2 DEF Flattened
  <2>2. FlattenSeq(s) = h[Len(s)]
    <3>1. Len(s) \in 1 .. Len(s)
      BY <1>1, <1>9
    <3> HIDE DEF T
    <3> QED
      BY <1>3, <1>7, <1>9, <3>1
  <2> QED
    BY <1>3, <2>1, <2>2 DEF t
<1> QED
  BY <1>8, <1>9

\* No frames, no units.
LEMMA FlattenEmpty == FlattenSeq(<<>>) = <<>>
BY DEF FlattenSeq

\* FlattenSeq gives a sequence of units.
LEMMA FlattenType == \A s \in Seq(Seq(Nat)) : FlattenSeq(s) \in Seq(Nat)
<1> DEFINE T == {s \in Seq(Seq(Nat)) : FlattenSeq(s) \in Seq(Nat)}
<1>1. <<>> \in T
  BY FlattenEmpty, EmptySeq
<1>2. ASSUME NEW t \in Seq(Seq(Nat)), NEW e \in Seq(Nat), t \in T PROVE Append(t, e) \in T
  BY <1>2, FlattenAppend, AppendProperties, ConcatProperties
<1> HIDE DEF T
<1>3. Seq(Seq(Nat)) \subseteq T
  BY <1>1, <1>2, SeqSet
<1> QED
  BY <1>3 DEF T

\* FlattenSeq of one sequence behind another.
LEMMA FlattenConcat ==
  ASSUME NEW s \in Seq(Seq(Nat)), NEW t \in Seq(Seq(Nat))
  PROVE  FlattenSeq(s \o t) = FlattenSeq(s) \o FlattenSeq(t)
<1> DEFINE T == {u \in Seq(Seq(Nat)) : FlattenSeq(s \o u) = FlattenSeq(s) \o FlattenSeq(u)}
<1>1. <<>> \in T
  BY FlattenEmpty, FlattenType, EmptySeq, ConcatEmptySeq
<1>2. ASSUME NEW u \in Seq(Seq(Nat)), NEW e \in Seq(Nat), u \in T PROVE Append(u, e) \in T
  <2>1. s \o Append(u, e) = Append(s \o u, e)
    <3>1. Append(u, e) = u \o <<e>> /\ Append(s \o u, e) = (s \o u) \o <<e>>
      BY AppendIsConcat, ConcatProperties
    <3>2. <<e>> \in Seq(Seq(Nat))
      OBVIOUS
    <3> QED
      BY <3>1, <3>2, ConcatAssociative
  <2>2. FlattenSeq(Append(s \o u, e)) = FlattenSeq(s \o u) \o e
    BY FlattenAppend, FlattenType, ConcatProperties
  <2>3. FlattenSeq(s \o u) = FlattenSeq(s) \o FlattenSeq(u)
    BY <1>2
  <2>4. FlattenSeq(Append(u, e)) = FlattenSeq(u) \o e
    BY FlattenAppend, FlattenType
  <2>5. (FlattenSeq(s) \o FlattenSeq(u)) \o e = FlattenSeq(s) \o (FlattenSeq(u) \o e)
    BY FlattenType, ConcatAssociative
  <2> QED
    BY <2>1, <2>2, <2>3, <2>4, <2>5, AppendProperties
<1> HIDE DEF T
<1>3. Seq(Seq(Nat)) \subseteq T
  BY <1>1, <1>2, SeqSet
<1> QED
  BY <1>3 DEF T

----------------------------------------------------------------------------
(* Frames                                                                  *)

\* Whole frames and what is left over.
LEMMA DivMod ==
  ASSUME NEW m \in Nat
  PROVE  /\ m \div FrameUnits \in Nat /\ m % FrameUnits \in 0 .. FrameUnits - 1
         /\ m = FrameUnits * (m \div FrameUnits) + (m % FrameUnits)
BY BridgeAssumption

\* Frames are sequences of units, and so are theirs.
LEMMA FramesAreSpeech ==
  ASSUME NEW s \in Seq(Frame)
  PROVE  s \in Seq(Seq(Nat)) /\ FlattenSeq(s) \in Speech
<1>1. Frame \subseteq Seq(Nat)
  BY DEF Frame, Speech
<1>2. s \in Seq(Seq(Nat))
  BY <1>1, SeqMonotonic
<1> QED
  BY <1>2, FlattenType DEF Speech

\* One more frame at the end.
LEMMA FlattenFrame ==
  ASSUME NEW s \in Seq(Frame), NEW f \in Frame
  PROVE  /\ FlattenSeq(Append(s, f)) = FlattenSeq(s) \o f
         /\ Len(FlattenSeq(Append(s, f))) = Len(FlattenSeq(s)) + FrameUnits
<1>1. FlattenSeq(Append(s, f)) = FlattenSeq(s) \o f
  BY FramesAreSpeech, FlattenAppend DEF Frame, Speech
<1>2. Len(FlattenSeq(s) \o f) = Len(FlattenSeq(s)) + FrameUnits
  BY FramesAreSpeech, ConcatProperties DEF Frame, Speech
<1> QED
  BY <1>1, <1>2

\* Every frame counts FrameUnits.
LEMMA FlattenLength ==
  ASSUME NEW s \in Seq(Frame)
  PROVE  Len(FlattenSeq(s)) = FrameUnits * Len(s)
<1> DEFINE T == {t \in Seq(Frame) : Len(FlattenSeq(t)) = FrameUnits * Len(t)}
<1>1. <<>> \in T
  BY FlattenEmpty, EmptySeq, BridgeAssumption
<1>2. ASSUME NEW t \in Seq(Frame), NEW f \in Frame, t \in T PROVE Append(t, f) \in T
  <2>1. Append(t, f) \in Seq(Frame) /\ Len(Append(t, f)) = Len(t) + 1
    BY AppendProperties
  <2>2. Len(FlattenSeq(Append(t, f))) = FrameUnits * Len(t) + FrameUnits
    BY <1>2, FlattenFrame
  <2>3. PICK n \in Nat : n = Len(t)
    OBVIOUS
  <2>4. FrameUnits * n + FrameUnits = FrameUnits * (n + 1)
    BY BridgeAssumption
  <2> QED
    BY <2>1, <2>2, <2>3, <2>4
<1> HIDE DEF T
<1>3. Seq(Frame) \subseteq T
  BY <1>1, <1>2, SeqSet
<1> QED
  BY <1>3 DEF T

\* The oldest frame comes first.
LEMMA FlattenHead ==
  ASSUME NEW s \in Seq(Frame), s # <<>>
  PROVE  /\ Head(s) \in Frame /\ Tail(s) \in Seq(Frame)
         /\ FlattenSeq(s) = Head(s) \o FlattenSeq(Tail(s))
         /\ Len(FlattenSeq(s)) = FrameUnits + Len(FlattenSeq(Tail(s)))
<1> DEFINE f == Head(s)
<1>1. f \in Frame /\ Tail(s) \in Seq(Frame) /\ f \in Speech /\ Len(f) = FrameUnits
  BY HeadTailProperties DEF Frame
<1>2. s = <<f>> \o Tail(s)
  <2>1. Len(s) \in Nat \ {0} /\ s[1] = f
    BY EmptySeq
  <2>2. SubSeq(s, 1, Len(s)) = <<s[1]>> \o SubSeq(s, 2, Len(s))
    BY <2>1, SubSeqRecursiveFirst
  <2> QED
    BY <2>1, <2>2, SubSeqFull, TailIsSubSeq
<1>3. FlattenSeq(<<f>>) = f
  <2>1. Append(<<>>, f) = <<f>>
    OBVIOUS
  <2>2. FlattenSeq(Append(<<>>, f)) = <<>> \o f
    BY <1>1, FlattenAppend, FlattenEmpty, EmptySeq DEF Speech
  <2> QED
    BY <1>1, <2>1, <2>2, ConcatEmptySeq DEF Speech
<1>4. FlattenSeq(<<f>> \o Tail(s)) = FlattenSeq(<<f>>) \o FlattenSeq(Tail(s))
  <2>1. <<f>> \in Seq(Seq(Nat)) /\ Tail(s) \in Seq(Seq(Nat))
    BY <1>1, FramesAreSpeech DEF Speech
  <2> QED
    BY <2>1, FlattenConcat
<1>5. FlattenSeq(s) = f \o FlattenSeq(Tail(s))
  BY <1>2, <1>3, <1>4
<1>6. Len(f \o FlattenSeq(Tail(s))) = FrameUnits + Len(FlattenSeq(Tail(s)))
  BY <1>1, FramesAreSpeech, ConcatProperties DEF Speech
<1> QED
  BY <1>1, <1>5, <1>6

\* What follows in a concatenation.
LEMMA SuffixOfConcat ==
  ASSUME NEW s \in Speech, NEW t \in Speech
  PROVE  SubSeq(s \o t, Len(s) + 1, Len(s \o t)) = t
<1> DEFINE u == s \o t
<1>1. /\ u \in Seq(Nat) /\ Len(u) = Len(s) + Len(t)
      /\ \A i \in 1 .. Len(u) : u[i] = IF i <= Len(s) THEN s[i] ELSE t[i - Len(s)]
      /\ Len(s) \in Nat /\ Len(t) \in Nat
  BY ConcatProperties DEF Speech
<1> HIDE DEF u
<1> DEFINE v == SubSeq(u, Len(s) + 1, Len(u))
<1>2. \A i \in Len(s) + 1 .. Len(u) : u[i] \in Nat
  BY <1>1
<1>3. /\ v \in Seq(Nat)
      /\ Len(v) = IF Len(s) + 1 <= Len(u) THEN Len(u) - (Len(s) + 1) + 1 ELSE 0
      /\ \A i \in 1 .. Len(u) - (Len(s) + 1) + 1 : v[i] = u[Len(s) + 1 + i - 1]
  BY <1>1, <1>2, SubSeqProperties
<1> HIDE DEF v
<1>4. Len(v) = Len(t) /\ \A i \in 1 .. Len(v) : v[i] = t[i]
  <2>1. PICK a \in Nat, b \in Nat : a = Len(s) /\ b = Len(t)
    BY <1>1
  <2>2. Len(u) = a + b /\ Len(v) = b
    BY <1>1, <1>3, <2>1
  <2>3. ASSUME NEW i \in 1 .. b PROVE v[i] = t[i]
    <3>1. v[i] = u[a + 1 + i - 1] /\ a + 1 + i - 1 = a + i
      <4>1. i \in 1 .. Len(u) - (Len(s) + 1) + 1
        BY <2>1, <2>2
      <4>2. v[i] = u[Len(s) + 1 + i - 1]
        BY <1>3, <4>1
      <4>3. a + 1 + i - 1 = a + i
        OBVIOUS
      <4> QED
        BY <2>1, <4>2, <4>3
    <3>2. a + i \in 1 .. Len(u) /\ ~(a + i <= a) /\ (a + i) - a = i
      BY <2>1, <2>2
    <3> QED
      BY <1>1, <2>1, <3>1, <3>2
  <2> QED
    BY <2>1, <2>2, <2>3
<1>5. v = t
  BY <1>3, <1>4, SeqEqual DEF Speech
<1> QED
  BY <1>5 DEF u, v

\* Frames that are cut off at the front.
LEMMA FlattenSuffix ==
  ASSUME NEW s \in Seq(Frame), NEW k \in 0 .. Len(s)
  PROVE  /\ SubSeq(s, k + 1, Len(s)) \in Seq(Frame)
         /\ FlattenSeq(SubSeq(s, k + 1, Len(s)))
              = SubSeq(FlattenSeq(s), FrameUnits * k + 1, Len(FlattenSeq(s)))
<1> DEFINE x == SubSeq(s, 1, k)
           y == SubSeq(s, k + 1, Len(s))
<1>1. Len(s) \in Nat /\ \A i \in 1 .. Len(s) : s[i] \in Frame
  OBVIOUS
<1>2. x \o y = s
  <2>1. 1 \in 1 .. Len(s) + 1 /\ k \in 1 - 1 .. Len(s) /\ Len(s) \in k .. Len(s)
    BY <1>1
  <2>2. x \o y = SubSeq(s, 1, Len(s))
    BY <2>1, ConcatAdjacentSubSeq
  <2> QED
    BY <2>2, SubSeqFull
<1>3. x \in Seq(Frame) /\ Len(x) = k
  <2>1. \A i \in 1 .. k : s[i] \in Frame
    BY <1>1
  <2>2. x \in Seq(Frame) /\ Len(x) = IF 1 <= k THEN k - 1 + 1 ELSE 0
    BY <1>1, <2>1, SubSeqProperties
  <2> QED
    BY <2>2
<1>4. y \in Seq(Frame)
  <2>1. \A i \in k + 1 .. Len(s) : s[i] \in Frame
    BY <1>1
  <2> QED
    BY <1>1, <2>1, SubSeqProperties
<1> HIDE DEF x, y
<1>5. FlattenSeq(s) = FlattenSeq(x) \o FlattenSeq(y)
  BY <1>2, <1>3, <1>4, FramesAreSpeech, FlattenConcat
<1>6. Len(FlattenSeq(x)) = FrameUnits * k
  BY <1>3, FlattenLength
<1>7. FlattenSeq(y) = SubSeq(FlattenSeq(s), FrameUnits * k + 1, Len(FlattenSeq(s)))
  BY <1>3, <1>4, <1>5, <1>6, SuffixOfConcat, FramesAreSpeech
<1> QED
  BY <1>4, <1>7 DEF y

\* Fewer frames, fewer units.
LEMMA TimesMono ==
  ASSUME NEW i \in Nat, NEW n \in Nat, i <= n
  PROVE  i * FrameUnits \in Nat /\ i * FrameUnits <= n * FrameUnits
<1>1. PICK d \in Nat : n = i + d
  <2>1. n - i \in Nat /\ n = i + (n - i)
    OBVIOUS
  <2> QED
    BY <2>1
<1>2. d * FrameUnits \in Nat /\ i * FrameUnits \in Nat
  BY BridgeAssumption
<1>3. n * FrameUnits = i * FrameUnits + d * FrameUnits
  BY <1>1, BridgeAssumption
<1> QED
  BY <1>2, <1>3

\* chunk48k20ms cuts a buffer into frames and a remainder, and loses nothing.
LEMMA CutIntoFrames ==
  ASSUME NEW b \in Speech
  PROVE  /\ Frames(b) \in Seq(Frame)
         /\ Remainder(b) \in Speech /\ Len(Remainder(b)) < FrameUnits
         /\ b = FlattenSeq(Frames(b)) \o Remainder(b)
         /\ Len(b) >= FrameUnits => FlattenSeq(Frames(b)) # <<>>
<1> DEFINE first(m) == [i \in 1 .. m |-> SubSeq(b, (i - 1) * FrameUnits + 1, i * FrameUnits)]
<1>1. PICK n \in Nat, r \in 0 .. FrameUnits - 1 :
        FrameCount(b) = n /\ Len(b) = n * FrameUnits + r /\ n * FrameUnits \in Nat
  <2>1. Len(b) \in Nat
    BY DEF Speech
  <2>2. PICK n \in Nat, r \in 0 .. FrameUnits - 1 : FrameCount(b) = n /\ Len(b) = FrameUnits * n + r
    BY <2>1, DivMod DEF FrameCount
  <2>3. FrameUnits * n = n * FrameUnits /\ n * FrameUnits \in Nat
    BY BridgeAssumption
  <2> QED
    BY <2>2, <2>3
<1>2. ASSUME NEW i \in 1 .. n
      PROVE  /\ (i - 1) * FrameUnits \in Nat
             /\ i * FrameUnits = (i - 1) * FrameUnits + FrameUnits
             /\ i * FrameUnits <= n * FrameUnits
             /\ SubSeq(b, (i - 1) * FrameUnits + 1, i * FrameUnits) \in Frame
  <2>1. /\ (i - 1) * FrameUnits \in Nat /\ i * FrameUnits \in Nat
        /\ i * FrameUnits = (i - 1) * FrameUnits + FrameUnits
        /\ i * FrameUnits <= n * FrameUnits
    BY TimesMono, BridgeAssumption
  <2>2. PICK lo \in Nat, hi \in Nat : lo = (i - 1) * FrameUnits /\ hi = i * FrameUnits
    BY <2>1
  <2>3. FrameUnits \in Nat \ {0} /\ hi = lo + FrameUnits /\ hi <= Len(b) /\ Len(b) \in Nat
    BY <1>1, <2>1, <2>2, BridgeAssumption DEF Speech
  <2>4. \A j \in lo + 1 .. hi : b[j] \in Nat
    BY <2>3 DEF Speech
  <2>5. /\ SubSeq(b, lo + 1, hi) \in Seq(Nat)
        /\ Len(SubSeq(b, lo + 1, hi)) = IF lo + 1 <= hi THEN hi - (lo + 1) + 1 ELSE 0
    BY <2>4, SubSeqProperties
  <2> QED
    BY <2>1, <2>2, <2>3, <2>5 DEF Frame, Speech
<1>3. ASSUME NEW m \in 0 .. n PROVE first(m) \in Seq(Frame) /\ Len(first(m)) = m
  <2>1. \A i \in 1 .. m : SubSeq(b, (i - 1) * FrameUnits + 1, i * FrameUnits) \in Frame
    BY <1>2
  <2> QED
    BY <2>1
<1> DEFINE T == {m \in Nat : m <= n => FlattenSeq(first(m)) = SubSeq(b, 1, m * FrameUnits)}
<1>4. 0 \in T
  <2>1. first(0) = <<>>
    OBVIOUS
  <2>2. 0 * FrameUnits = 0
    BY BridgeAssumption
  <2>3. SubSeq(b, 1, 0) = <<>>
    BY SubSeqEmpty
  <2> QED
    BY <2>1, <2>2, <2>3, FlattenEmpty
<1>5. ASSUME NEW m \in Nat, m \in T PROVE m + 1 \in T
  <2> SUFFICES ASSUME m + 1 <= n PROVE FlattenSeq(first(m + 1)) = SubSeq(b, 1, (m + 1) * FrameUnits)
    OBVIOUS
  <2> DEFINE f == SubSeq(b, m * FrameUnits + 1, (m + 1) * FrameUnits)
  <2>1. f \in Frame /\ m * FrameUnits \in Nat /\ (m + 1) * FrameUnits = m * FrameUnits + FrameUnits
        /\ (m + 1) * FrameUnits <= n * FrameUnits
    <3>1. m + 1 \in 1 .. n /\ (m + 1) - 1 = m
      OBVIOUS
    <3> QED
      BY <1>2, <3>1
  <2>2. first(m) \in Seq(Frame) /\ Len(first(m)) = m
        /\ first(m + 1) \in Seq(Frame) /\ Len(first(m + 1)) = m + 1
    BY <1>3
  <2>3. /\ \A i \in 1 .. m : first(m + 1)[i] = first(m)[i]
        /\ first(m + 1)[m + 1] = f
    <3>1. ASSUME NEW i \in 1 .. m PROVE first(m + 1)[i] = first(m)[i]
      <4>1. i \in 1 .. m + 1
        OBVIOUS
      <4> QED
        BY <4>1
    <3>2. PICK k \in 1 .. m + 1 : k = m + 1 /\ k - 1 = m
      OBVIOUS
    <3>3. first(m + 1)[k] = SubSeq(b, (k - 1) * FrameUnits + 1, k * FrameUnits)
      OBVIOUS
    <3>4. first(m + 1)[m + 1] = f
      <4> HIDE DEF first
      <4> QED
        BY <3>2, <3>3
    <3> HIDE DEF first, f
    <3> QED
      BY <3>1, <3>4
  <2>4. first(m + 1) = Append(first(m), f)
    <3> HIDE DEF first, f
    <3>1. /\ Append(first(m), f) \in Seq(Frame) /\ Len(Append(first(m), f)) = m + 1
          /\ \A i \in 1 .. m : Append(first(m), f)[i] = first(m)[i]
          /\ Append(first(m), f)[m + 1] = f
      BY <2>1, <2>2, AppendProperties
    <3>2. \A i \in 1 .. m + 1 : first(m + 1)[i] = Append(first(m), f)[i]
      BY <2>3, <3>1
    <3> QED
      BY <2>2, <3>1, <3>2, SeqEqual
  <2>5. FlattenSeq(first(m + 1)) = FlattenSeq(first(m)) \o f
    <3> HIDE DEF first, f
    <3> QED
      BY <2>1, <2>2, <2>4, FlattenFrame
  <2>6. FlattenSeq(first(m)) = SubSeq(b, 1, m * FrameUnits)
    BY <1>5
  <2>7. SubSeq(b, 1, m * FrameUnits) \o f = SubSeq(b, 1, (m + 1) * FrameUnits)
    <3>1. PICK lo \in Nat, hi \in Nat : lo = m * FrameUnits /\ hi = (m + 1) * FrameUnits
      BY <2>1, BridgeAssumption
    <3>2. FrameUnits \in Nat \ {0} /\ hi = lo + FrameUnits /\ hi <= Len(b) /\ Len(b) \in Nat
      BY <1>1, <2>1, <3>1, BridgeAssumption DEF Speech
    <3>3. 1 \in 1 .. Len(b) + 1 /\ lo \in 1 - 1 .. Len(b) /\ hi \in lo .. Len(b)
      BY <3>2
    <3>4. SubSeq(b, 1, lo) \o SubSeq(b, lo + 1, hi) = SubSeq(b, 1, hi)
      BY <3>3, ConcatAdjacentSubSeq DEF Speech
    <3> QED
      BY <3>1, <3>4
  <2> QED
    BY <2>5, <2>6, <2>7
<1>6. FlattenSeq(first(n)) = SubSeq(b, 1, n * FrameUnits)
  <2> HIDE DEF T
  <2>1. n \in T
    BY <1>4, <1>5, NatSet
  <2> HIDE DEF first
  <2> QED
    BY <2>1 DEF T
<1>7. Frames(b) = first(n) /\ Remainder(b) = SubSeq(b, n * FrameUnits + 1, Len(b))
  BY <1>1 DEF Frames, Remainder
<1> HIDE DEF first
<1>8. Frames(b) \in Seq(Frame)
  <2>1. n \in 0 .. n
    OBVIOUS
  <2> QED
    BY <1>3, <1>7, <2>1
<1>9. PICK c \in Nat : c = n * FrameUnits
  BY <1>1
<1>10. c <= Len(b) /\ Len(b) = c + r /\ Len(b) \in Nat /\ r \in Nat /\ r < FrameUnits
  BY <1>1, <1>9, BridgeAssumption
<1>11. Remainder(b) \in Speech /\ Len(Remainder(b)) < FrameUnits
  <2>1. \A j \in c + 1 .. Len(b) : b[j] \in Nat
    BY <1>10 DEF Speech
  <2>2. /\ SubSeq(b, c + 1, Len(b)) \in Seq(Nat)
        /\ Len(SubSeq(b, c + 1, Len(b))) = IF c + 1 <= Len(b) THEN Len(b) - (c + 1) + 1 ELSE 0
    BY <1>10, <2>1, SubSeqProperties
  <2>3. IF c + 1 <= Len(b) THEN Len(b) - (c + 1) + 1 = r ELSE r = 0
    BY <1>10
  <2> QED
    BY <1>7, <1>9, <1>10, <2>2, <2>3, BridgeAssumption DEF Speech
<1>12. b = FlattenSeq(Frames(b)) \o Remainder(b)
  <2>1. 1 \in 1 .. Len(b) + 1 /\ c \in 1 - 1 .. Len(b) /\ Len(b) \in c .. Len(b)
    BY <1>10
  <2>2. SubSeq(b, 1, c) \o SubSeq(b, c + 1, Len(b)) = SubSeq(b, 1, Len(b))
    BY <2>1, ConcatAdjacentSubSeq DEF Speech
  <2>3. SubSeq(b, 1, Len(b)) = b
    BY SubSeqFull DEF Speech
  <2> QED
    BY <1>6, <1>7, <1>9, <2>2, <2>3
<1>13. ASSUME Len(b) >= FrameUnits, FlattenSeq(Frames(b)) = <<>> PROVE FALSE
  <2>1. b = Remainder(b)
    BY <1>11, <1>12, <1>13, ConcatEmptySeq DEF Speech
  <2> QED
    BY <1>10, <1>11, <1>13, <2>1, BridgeAssumption
<1> QED
  BY <1>8, <1>11, <1>12, <1>13

----------------------------------------------------------------------------
(* Order                                                                   *)

\* A concatenation rises if its pieces do, one above the other.
LEMMA Pieces ==
  ASSUME NEW s \in Speech, NEW t \in Speech
  PROVE  /\ Rising(s \o t) <=> Rising(s) /\ Rising(t) /\ Below(s, t)
         /\ Range(s \o t) = Range(s) \cup Range(t)
         /\ s \o t \in Speech
<1>1. Range(s \o t) = Range(s) \cup Range(t) /\ s \o t \in Speech
  BY RangeConcatenation, ConcatProperties DEF Speech
<1>2. PICK a \in Nat, b \in Nat : a = Len(s) /\ b = Len(t)
  BY DEF Speech
<1>3. /\ Len(s \o t) = a + b
      /\ \A i \in 1 .. a : (s \o t)[i] = s[i]
      /\ \A i \in 1 .. b : (s \o t)[a + i] = t[i]
  <2>1. /\ Len(s \o t) = a + b
        /\ \A i \in 1 .. a + b : (s \o t)[i] = IF i <= a THEN s[i] ELSE t[i - a]
    BY <1>2, ConcatProperties DEF Speech
  <2>2. \A i \in 1 .. b : a + i \in 1 .. a + b /\ ~(a + i <= a) /\ (a + i) - a = i
    OBVIOUS
  <2> QED
    BY <2>1, <2>2
<1>4. Range(s) = {s[i] : i \in 1 .. a} /\ Range(t) = {t[i] : i \in 1 .. b}
  BY <1>2, RangeEquality DEF Speech
<1> DEFINE u == s \o t
<1>5. Len(u) = a + b /\ (\A i \in 1 .. a : u[i] = s[i]) /\ (\A i \in 1 .. b : u[a + i] = t[i])
  BY <1>3
<1> HIDE DEF u
<1>6. ASSUME Rising(u) PROVE Rising(s) /\ Rising(t) /\ Below(s, t)
  <2>1. Rising(s)
    BY <1>2, <1>5, <1>6 DEF Rising
  <2>2. Rising(t)
    <3>1. ASSUME NEW i \in 1 .. b, NEW j \in 1 .. b, i < j PROVE t[i] < t[j]
      <4>1. a + i \in 1 .. a + b /\ a + j \in 1 .. a + b /\ a + i < a + j
        BY <3>1
      <4> QED
        BY <1>5, <1>6, <4>1 DEF Rising
    <3> QED
      BY <1>2, <3>1 DEF Rising
  <2>3. ASSUME NEW i \in 1 .. a, NEW j \in 1 .. b PROVE s[i] < t[j]
    <3>1. i \in 1 .. a + b /\ a + j \in 1 .. a + b /\ i < a + j
      OBVIOUS
    <3> QED
      BY <1>5, <1>6, <3>1 DEF Rising
  <2> QED
    BY <1>4, <2>1, <2>2, <2>3 DEF Below
<1>7. ASSUME Rising(s), Rising(t), Below(s, t) PROVE Rising(u)
  <2> SUFFICES ASSUME NEW i \in 1 .. a + b, NEW j \in 1 .. a + b, i < j PROVE u[i] < u[j]
    BY <1>5 DEF Rising
  <2>1. CASE j <= a
    BY <1>2, <1>5, <1>7, <2>1 DEF Rising
  <2>2. CASE i <= a /\ ~(j <= a)
    <3>1. PICK m \in 1 .. b : j = a + m
      <4>1. j - a \in 1 .. b /\ j = a + (j - a)
        BY <2>2
      <4> QED
        BY <4>1
    <3>2. i \in 1 .. a /\ u[i] = s[i] /\ u[j] = t[m]
      BY <1>5, <2>2, <3>1
    <3> QED
      BY <1>4, <1>7, <3>2 DEF Below
  <2>3. CASE ~(i <= a)
    <3>1. PICK k \in 1 .. b, m \in 1 .. b : i = a + k /\ j = a + m /\ k < m
      <4>1. i - a \in 1 .. b /\ i = a + (i - a) /\ j - a \in 1 .. b /\ j = a + (j - a) /\ i - a < j - a
        BY <2>3
      <4> QED
        BY <4>1
    <3> QED
      BY <1>2, <1>5, <1>7, <3>1 DEF Rising
  <2> QED
    BY <2>1, <2>2, <2>3
<1> QED
  BY <1>1, <1>6, <1>7 DEF u

\* The empty sequence.
LEMMA NoPieces == Rising(<<>>) /\ Range(<<>>) = {} /\ <<>> \in Speech /\ Len(<<>>) = 0
BY DEF Rising, Range, Speech

\* The largest push, and what one push may lose.
LEMMA GapBounds ==
  /\ Gap \in Nat \ {0}
  /\ \A n \in ChunkSizes : n + FrameUnits - 1 - MaxTxBuffer < Gap
<1> DEFINE m == Max(ChunkSizes)
           x == m + FrameUnits - 1 - MaxTxBuffer
           g == Max({0, x})
<1>1. m \in ChunkSizes /\ \A n \in ChunkSizes : n <= m
  <2>1. \E n \in ChunkSizes : \A k \in ChunkSizes : n >= k
    BY BridgeAssumption
  <2> QED
    BY <2>1 DEF Max
<1>2. m \in Nat
  BY <1>1, BridgeAssumption
<1> HIDE DEF m
<1>3. x \in Int
  BY <1>2, BridgeAssumption
<1> HIDE DEF x
<1>4. g \in {0, x} /\ \A y \in {0, x} : g >= y
  <2>1. \E z \in {0, x} : \A y \in {0, x} : z >= y
    BY <1>3
  <2> QED
    BY <2>1 DEF Max
<1>5. g \in Nat /\ g >= x
  BY <1>3, <1>4
<1> HIDE DEF g
<1>6. Gap = 1 + g
  BY DEF Gap, g, x, m
<1> QED
  BY <1>1, <1>2, <1>5, <1>6, BridgeAssumption DEF x

----------------------------------------------------------------------------
(* Reading on                                                              *)

\* What is read and what is not.
LEMMA SplitAt ==
  ASSUME NEW s \in Speech, NEW k \in 0 .. Len(s)
  PROVE  /\ SubSeq(s, 1, k) \in Speech /\ Len(SubSeq(s, 1, k)) = k
         /\ SubSeq(s, k + 1, Len(s)) \in Speech /\ Len(SubSeq(s, k + 1, Len(s))) = Len(s) - k
         /\ s = SubSeq(s, 1, k) \o SubSeq(s, k + 1, Len(s))
<1>1. Len(s) \in Nat /\ k \in Nat /\ \A i \in 1 .. Len(s) : s[i] \in Nat
  BY DEF Speech
<1>2. SubSeq(s, 1, k) \in Speech /\ Len(SubSeq(s, 1, k)) = k
  <2>1. \A i \in 1 .. k : s[i] \in Nat
    BY <1>1
  <2>2. /\ SubSeq(s, 1, k) \in Seq(Nat)
        /\ Len(SubSeq(s, 1, k)) = IF 1 <= k THEN k - 1 + 1 ELSE 0
    BY <1>1, <2>1, SubSeqProperties
  <2> QED
    BY <1>1, <2>2 DEF Speech
<1>3. SubSeq(s, k + 1, Len(s)) \in Speech /\ Len(SubSeq(s, k + 1, Len(s))) = Len(s) - k
  <2>1. \A i \in k + 1 .. Len(s) : s[i] \in Nat
    BY <1>1
  <2>2. /\ SubSeq(s, k + 1, Len(s)) \in Seq(Nat)
        /\ Len(SubSeq(s, k + 1, Len(s))) = IF k + 1 <= Len(s) THEN Len(s) - (k + 1) + 1 ELSE 0
    BY <1>1, <2>1, SubSeqProperties
  <2>3. k <= Len(s)
    OBVIOUS
  <2> QED
    BY <1>1, <2>2, <2>3 DEF Speech
<1>4. s = SubSeq(s, 1, k) \o SubSeq(s, k + 1, Len(s))
  <2>1. 1 \in 1 .. Len(s) + 1 /\ k \in 1 - 1 .. Len(s) /\ Len(s) \in k .. Len(s)
    BY <1>1
  <2> QED
    BY <2>1, ConcatAdjacentSubSeq, SubSeqFull DEF Speech
<1> QED
  BY <1>2, <1>3, <1>4

\* What is unread when more comes.
LEMMA MoreToRead ==
  ASSUME NEW s \in Speech, NEW t \in Speech, NEW k \in 0 .. Len(s)
  PROVE  SubSeq(s \o t, k + 1, Len(s \o t)) = SubSeq(s, k + 1, Len(s)) \o t
<1> DEFINE p == SubSeq(s, 1, k)
           x == SubSeq(s, k + 1, Len(s))
<1>1. p \in Speech /\ Len(p) = k /\ x \in Speech /\ s = p \o x
  BY SplitAt
<1> HIDE DEF p, x
<1>2. s \o t = p \o (x \o t) /\ x \o t \in Speech
  BY <1>1, ConcatAssociative, ConcatProperties DEF Speech
<1>3. SubSeq(p \o (x \o t), Len(p) + 1, Len(p \o (x \o t))) = x \o t
  BY <1>1, <1>2, SuffixOfConcat
<1> QED
  BY <1>1, <1>2, <1>3 DEF x

\* Concatenation is associative.
LEMMA Regrouped ==
  ASSUME NEW s \in Speech, NEW t \in Speech, NEW u \in Speech
  PROVE  s \o (t \o u) = (s \o t) \o u
BY ConcatAssociative DEF Speech

\* The piece of s after unit o, up to unit upto.
LEMMA PieceBetween ==
  ASSUME NEW s \in Speech, NEW o \in Nat, NEW upto \in Nat, o < upto, upto <= Len(s)
  PROVE  \E x \in Speech :
           /\ x = SubSeq(s, o + 1, upto)
           /\ s[upto] \in Range(x) /\ s[upto] \in Nat
           /\ Rising(x) => \A y \in Range(x) : y <= s[upto]
<1> DEFINE x == SubSeq(s, o + 1, upto)
<1>1. Len(s) \in Nat
  BY DEF Speech
<1>7. PICK d \in Nat : d = upto - o /\ d # 0 /\ o + d = upto
  <2>1. upto - o \in Nat /\ upto - o # 0 /\ o + (upto - o) = upto
    OBVIOUS
  <2> QED
    BY <2>1
<1>8. /\ x \in Speech /\ Len(x) = d
      /\ \A i \in 1 .. d : x[i] = s[o + i]
      /\ s[upto] \in Nat
  <2>1. \A i \in o + 1 .. upto : s[i] \in Nat
    BY <1>1 DEF Speech
  <2>2. /\ x \in Seq(Nat)
        /\ Len(x) = IF o + 1 <= upto THEN upto - (o + 1) + 1 ELSE 0
        /\ \A i \in 1 .. upto - (o + 1) + 1 : x[i] = s[o + 1 + i - 1]
    BY <2>1, SubSeqProperties
  <2>3. upto \in o + 1 .. upto /\ upto - (o + 1) + 1 = d /\ o + 1 <= upto
    BY <1>7
  <2> HIDE DEF x
  <2>4. x \in Speech /\ Len(x) = d
    BY <2>2, <2>3 DEF Speech
  <2>5. ASSUME NEW i \in 1 .. d PROVE x[i] = s[o + i]
    <3>1. x[i] = s[o + 1 + i - 1]
      BY <2>2, <2>3
    <3>2. o + 1 + i - 1 = o + i
      OBVIOUS
    <3> QED
      BY <3>1, <3>2
  <2>6. s[upto] \in Nat
    BY <2>1, <2>3
  <2> QED
    BY <2>4, <2>5, <2>6
<1> HIDE DEF x
<1>9. d \in 1 .. d /\ x[d] = s[upto] /\ Range(x) = {x[i] : i \in 1 .. d}
  <2>1. d \in 1 .. d
    BY <1>7
  <2>2. x[d] = s[upto]
    BY <1>7, <1>8, <2>1
  <2>3. Range(x) = {x[i] : i \in 1 .. Len(x)}
    BY <1>8, RangeEquality DEF Speech
  <2> QED
    BY <1>8, <2>1, <2>2, <2>3
<1>10. ASSUME NEW y \in Range(x), Rising(x) PROVE y <= s[upto]
  <2>1. PICK i \in 1 .. d : y = x[i]
    BY <1>9
  <2>2. CASE i = d
    BY <1>8, <1>9, <2>1, <2>2
  <2>3. CASE i < d
    <3>1. x[i] < x[d] /\ x[i] \in Nat
      BY <1>8, <1>9, <1>10, <2>3 DEF Rising, Speech
    <3> QED
      BY <1>8, <1>9, <2>1, <3>1
  <2> QED
    BY <2>2, <2>3
<1>11. s[upto] \in Range(x)
  BY <1>9
<1> QED
  BY <1>8, <1>10, <1>11 DEF x

\* What follows unit number upto in s is t, and what was read since o ends with
\* that unit.
ReadsUpTo(s, o, upto, t) ==
  \E x \in Speech :
    /\ s[upto] \in Range(x)
    /\ SubSeq(s, o + 1, Len(s)) = x \o t
    /\ Rising(x) => \A y \in Range(x) : y <= s[upto]

\* What is unread after reading up to a unit, counted from a frame's beginning.
LEMMA ReadUpTo ==
  ASSUME NEW p \in Speech, NEW q \in Speech, NEW ahead \in Speech, ahead = p \o q,
         NEW o \in Nat, NEW ro \in 0 .. Len(q), NEW upto \in Nat,
         upto = Len(p) + ro, o < upto
  PROVE  /\ Len(q) - ro = Len(ahead) - upto
         /\ Len(q) <= Len(ahead)
         /\ ahead[upto] \in Nat
         /\ ReadsUpTo(ahead, o, upto, SubSeq(q, ro + 1, Len(q)))
<1> DEFINE v == SubSeq(q, ro + 1, Len(q))
<1>1. Len(ahead) \in Nat /\ Len(p) \in Nat /\ Len(q) \in Nat /\ ro \in Nat
  BY DEF Speech
<1>2. Len(ahead) = Len(p) + Len(q)
  BY ConcatProperties DEF Speech
<1>3. upto <= Len(ahead)
  BY <1>1, <1>2
<1>4. v \in Speech /\ \E r \in Speech : Len(r) = ro /\ q = r \o v
  BY SplitAt
<1>5. v = SubSeq(ahead, upto + 1, Len(ahead))
  <2>2. PICK r \in Speech : Len(r) = ro /\ q = r \o v
    BY <1>4
  <2> HIDE DEF v
  <2>3. p \o (r \o v) = (p \o r) \o v
    BY <1>4, <2>2, Regrouped
  <2>4. ahead = (p \o r) \o v
    BY <2>2, <2>3
  <2>5. p \o r \in Speech
    BY <2>2, Pieces
  <2>6. Len(p \o r) = Len(p) + Len(r)
    BY <2>2, ConcatProperties DEF Speech
  <2>7. SubSeq((p \o r) \o v, Len(p \o r) + 1, Len((p \o r) \o v)) = v
    BY <1>4, <2>5, SuffixOfConcat
  <2> QED
    BY <2>2, <2>4, <2>6, <2>7
<1>6. SubSeq(ahead, o + 1, Len(ahead)) = SubSeq(ahead, o + 1, upto) \o v
  <2>1. o + 1 \in 1 .. Len(ahead) + 1 /\ upto \in (o + 1) - 1 .. Len(ahead) /\ Len(ahead) \in upto .. Len(ahead)
    BY <1>1, <1>3
  <2> HIDE DEF v
  <2> QED
    BY <1>5, <2>1, ConcatAdjacentSubSeq DEF Speech
<1>7. PICK x \in Speech :
        /\ x = SubSeq(ahead, o + 1, upto)
        /\ ahead[upto] \in Range(x) /\ ahead[upto] \in Nat
        /\ Rising(x) => \A y \in Range(x) : y <= ahead[upto]
  BY <1>3, PieceBetween
<1>8. SubSeq(ahead, o + 1, Len(ahead)) = x \o SubSeq(q, ro + 1, Len(q))
  BY <1>6, <1>7
<1>9. Len(q) - ro = Len(ahead) - upto /\ Len(q) <= Len(ahead)
  BY <1>1, <1>2
<1>10. ReadsUpTo(ahead, o, upto, SubSeq(q, ro + 1, Len(q)))
  BY <1>7, <1>8 DEF ReadsUpTo
<1> QED
  BY <1>7, <1>9, <1>10

\* onaudioprocess reads from unit o of the buffer s up to another: k frames and
\* ro units of the next, which leaves the frames rest.
ReadsFrames(s, o, upto, k, ro, rest) ==
  /\ o < upto /\ upto <= Len(FlattenSeq(s))
  /\ \E c \in Nat : c = FrameUnits * k /\ upto = c + ro
  /\ rest = SubSeq(s, k + 1, Len(s))

\* What is unread then is what follows the unit.
Leaves(s, o, upto, ro, rest) ==
  /\ rest \in Seq(Frame)
  /\ Len(FlattenSeq(rest)) - ro = Len(FlattenSeq(s)) - upto
  /\ Len(FlattenSeq(rest)) <= Len(FlattenSeq(s))
  /\ rest = <<>> => ro = 0
  /\ FlattenSeq(s)[upto] \in Nat
  /\ ReadsUpTo(FlattenSeq(s), o, upto, SubSeq(FlattenSeq(rest), ro + 1, Len(FlattenSeq(rest))))

\* The frames that are read are taken away, and what is unread follows.
LEMMA ReadOn ==
  ASSUME NEW s \in Seq(Frame), NEW o \in Nat, NEW upto \in Nat, NEW k \in Nat,
         NEW ro \in 0 .. FrameUnits - 1, NEW rest, ReadsFrames(s, o, upto, k, ro, rest)
  PROVE  Leaves(s, o, upto, ro, rest)
<1>0. PICK c \in Nat : c = FrameUnits * k /\ upto = c + ro
  BY DEF ReadsFrames
<1>9. o < upto /\ upto <= Len(FlattenSeq(s))
  BY DEF ReadsFrames
<1>10. rest = SubSeq(s, k + 1, Len(s))
  BY DEF ReadsFrames
<1>1. /\ Len(s) \in Nat /\ Len(FlattenSeq(s)) = FrameUnits * Len(s)
      /\ FlattenSeq(s) \in Speech /\ Len(FlattenSeq(s)) \in Nat
      /\ ro \in Nat
  BY FlattenLength, FramesAreSpeech, BridgeAssumption DEF Speech
<1>2. k <= Len(s)
  <2>1. PICK n \in Nat : n = Len(s)
    BY <1>1
  <2> SUFFICES ASSUME n + 1 <= k PROVE FALSE
    BY <2>1
  <2>2. (n + 1) * FrameUnits <= k * FrameUnits
    BY TimesMono
  <2>3. (n + 1) * FrameUnits = FrameUnits * n + FrameUnits /\ k * FrameUnits = FrameUnits * k
        /\ FrameUnits * n \in Nat
    BY BridgeAssumption
  <2> QED
    BY <1>0, <1>9, <1>1, <2>1, <2>2, <2>3, BridgeAssumption
<1>3. rest \in Seq(Frame) /\ FlattenSeq(rest) = SubSeq(FlattenSeq(s), c + 1, Len(FlattenSeq(s)))
  <2>1. k \in 0 .. Len(s)
    BY <1>1, <1>2
  <2> QED
    BY <1>0, <1>10, <2>1, FlattenSuffix
<1>4. /\ Len(FlattenSeq(rest)) - ro = Len(FlattenSeq(s)) - upto
      /\ Len(FlattenSeq(rest)) <= Len(FlattenSeq(s))
      /\ FlattenSeq(s)[upto] \in Nat
      /\ ReadsUpTo(FlattenSeq(s), o, upto, SubSeq(FlattenSeq(rest), ro + 1, Len(FlattenSeq(rest))))
  <2> DEFINE p == SubSeq(FlattenSeq(s), 1, c)
  <2>1. c \in 0 .. Len(FlattenSeq(s))
    BY <1>0, <1>9, <1>1
  <2>2. /\ p \in Speech /\ Len(p) = c
        /\ FlattenSeq(rest) \in Speech /\ Len(FlattenSeq(rest)) = Len(FlattenSeq(s)) - c
        /\ FlattenSeq(s) = p \o FlattenSeq(rest)
    BY <1>1, <1>3, <2>1, SplitAt
  <2> HIDE DEF p
  <2>3. ro \in 0 .. Len(FlattenSeq(rest)) /\ upto = Len(p) + ro
    BY <1>0, <1>9, <1>1, <2>2
  <2> QED
    BY <1>0, <1>9, <1>1, <2>2, <2>3, ReadUpTo
<1>5. ASSUME rest = <<>> PROVE ro = 0
  <2>1. Len(FlattenSeq(rest)) = 0
    BY <1>5, FlattenEmpty, NoPieces
  <2> QED
    BY <1>9, <1>1, <1>4, <2>1
<1> QED
  BY <1>3, <1>4, <1>5 DEF Leaves

----------------------------------------------------------------------------
(* The line of speech                                                      *)

\* Units are numbers.
LEMMA SpeechIsNat ==
  ASSUME NEW s \in Speech
  PROVE  \A x \in Range(s) : x \in Nat
BY RangeOfSeq DEF Speech

\* A frame goes from the queue to the wire, or is lost.
LEMMA LineSends ==
  ASSUME NEW l \in Nat, NEW c \in Nat, NEW a \in Speech, NEW w \in Speech,
         NEW f \in Speech, NEW q \in Speech, InLine(l, a, w, f \o q, c)
  PROVE  InLine(l, a, w \o f, q, c) /\ InLine(l, a, w, q, c)
<1>1. /\ Rising(f) /\ Rising(q) /\ Below(f, q) /\ Range(f \o q) = Range(f) \cup Range(q)
      /\ Range(w \o f) = Range(w) \cup Range(f)
  BY Pieces DEF InLine
<1>2. Below(w, f) /\ Below(w, q) /\ Below(a, f) /\ Below(a, q)
  BY <1>1 DEF InLine, Below
<1>3. Rising(w \o f)
  BY <1>2, <1>1, Pieces DEF InLine
<1>4. Below(a, w \o f) /\ Below(w \o f, q)
  BY <1>1, <1>2 DEF InLine, Below
<1> QED
  BY <1>1, <1>2, <1>3, <1>4 DEF InLine

\* A frame comes to the page, which may drop what is before it.
LEMMA LineArrives ==
  ASSUME NEW l \in Nat, NEW c \in Nat, NEW x \in Speech, NEW a \in Speech, NEW w \in Speech,
         NEW f \in Speech, NEW q \in Speech, InLine(l, x \o a, f \o w, q, c)
  PROVE  InLine(l, a \o f, w, q, c)
<1>1. /\ Rising(a) /\ Rising(f) /\ Rising(w) /\ Below(f, w)
      /\ Range(x \o a) = Range(x) \cup Range(a) /\ Range(f \o w) = Range(f) \cup Range(w)
      /\ Range(a \o f) = Range(a) \cup Range(f)
  BY Pieces DEF InLine
<1>2. Below(a, f) /\ Below(a, w) /\ Below(a, q) /\ Below(f, q) /\ Below(w, q)
  BY <1>1 DEF InLine, Below
<1>3. Rising(a \o f)
  BY <1>1, <1>2, Pieces
<1>4. Below(a \o f, w) /\ Below(a \o f, q)
  BY <1>1, <1>2 DEF Below
<1> QED
  BY <1>1, <1>2, <1>3, <1>4 DEF InLine

\* The page plays up to unit m.
LEMMA LinePlays ==
  ASSUME NEW l \in Nat, NEW c \in Nat, NEW m \in Nat, NEW x \in Speech, NEW a \in Speech,
         NEW w \in Speech, NEW q \in Speech, InLine(l, x \o a, w, q, c),
         m \in Range(x), Rising(x) => \A y \in Range(x) : y <= m
  PROVE  InLine(m, a, w, q, c)
<1>1. /\ Rising(a) /\ Below(x, a) /\ Range(x \o a) = Range(x) \cup Range(a)
  BY Pieces DEF InLine
<1>2. Below(a, w) /\ Below(a, q) /\ Below(x, w) /\ Below(x, q)
  BY <1>1 DEF InLine, Below
<1>3. m <= c /\ \A y \in Range(a) \cup Range(w) \cup Range(q) : m < y /\ y <= c
  BY <1>1, <1>2 DEF InLine, Below
<1> QED
  BY <1>1, <1>2, <1>3 DEF InLine

\* New speech comes in at the end.
LEMMA LineGrows ==
  ASSUME NEW l \in Nat, NEW c \in Nat, NEW d \in Nat, NEW a \in Speech, NEW w \in Speech,
         NEW q \in Speech, NEW g \in Speech, InLine(l, a, w, q, c),
         Rising(g), \A y \in Range(g) : c < y /\ y <= d, c <= d
  PROVE  InLine(l, a, w, q \o g, d)
<1>1. Range(q \o g) = Range(q) \cup Range(g)
  BY Pieces
<1>2. /\ \A y \in Range(g) \cup Range(a) \cup Range(w) \cup Range(q) : y \in Nat
      /\ \A y \in Range(a) \cup Range(w) \cup Range(q) : l < y /\ y <= c
      /\ l <= c
  BY SpeechIsNat DEF InLine
<1>3. Below(q, g) /\ Below(a, g) /\ Below(w, g)
  BY <1>2 DEF Below
<1>4. Rising(q \o g)
  BY <1>3, Pieces DEF InLine
<1>5. Below(a, q \o g) /\ Below(w, q \o g)
  BY <1>1, <1>3 DEF InLine, Below
<1>6. l <= d /\ \A y \in Range(a) \cup Range(w) \cup Range(q \o g) : l < y /\ y <= d
  BY <1>1, <1>2
<1> QED
  BY <1>4, <1>5, <1>6 DEF InLine

\* A page that loads has nothing; leave() empties the queue.
LEMMA LineClears ==
  ASSUME NEW l, NEW c, NEW a, NEW w, NEW q, InLine(l, a, w, q, c)
  PROVE  InLine(l, <<>>, <<>>, q, c) /\ InLine(l, a, w, <<>>, c)
BY NoPieces DEF InLine, Below

----------------------------------------------------------------------------
(* Pushing                                                                 *)

\* The cap takes e units of the oldest, and only if it leaves MaxTxBuffer.
LEMMA CapKeepsNewest ==
  ASSUME NEW u \in Speech
  PROVE  \E e \in Nat :
           /\ Capped(u) \in Speech /\ Len(Capped(u)) + e = Len(u)
           /\ e # 0 => Len(Capped(u)) = MaxTxBuffer
           /\ \A i \in 1 .. Len(Capped(u)) : Capped(u)[i] = u[e + i]
<1>1. Len(u) \in Nat /\ MaxTxBuffer \in Nat
  BY BridgeAssumption DEF Speech
<1>2. CASE Len(u) <= MaxTxBuffer
  <2>1. Capped(u) = u
    BY <1>1, <1>2 DEF Capped
  <2>2. 0 \in Nat /\ Len(u) + 0 = Len(u) /\ \A i \in 1 .. Len(u) : u[i] = u[0 + i]
    BY <1>1
  <2> QED
    BY <2>1, <2>2
<1>3. CASE Len(u) > MaxTxBuffer
  <2>1. PICK e \in Nat : e = Len(u) - MaxTxBuffer /\ Len(u) = MaxTxBuffer + e
    <3>1. Len(u) - MaxTxBuffer \in Nat /\ Len(u) = MaxTxBuffer + (Len(u) - MaxTxBuffer)
      BY <1>1, <1>3
    <3> QED
      BY <3>1
  <2> DEFINE v == SubSeq(u, e + 1, Len(u))
  <2>2. Capped(u) = v
    BY <1>3, <2>1 DEF Capped
  <2>3. Len(u) - (e + 1) + 1 = MaxTxBuffer
    BY <1>1, <2>1
  <2>4. \A i \in e + 1 .. Len(u) : u[i] \in Nat
    BY <1>1 DEF Speech
  <2>5. /\ v \in Seq(Nat)
        /\ Len(v) = IF e + 1 <= Len(u) THEN Len(u) - (e + 1) + 1 ELSE 0
        /\ \A i \in 1 .. Len(u) - (e + 1) + 1 : v[i] = u[e + 1 + i - 1]
    BY <1>1, <2>4, SubSeqProperties
  <2> HIDE DEF v
  <2>6. Len(v) = MaxTxBuffer
    BY <1>1, <2>1, <2>3, <2>5
  <2>7. ASSUME NEW i \in 1 .. MaxTxBuffer PROVE v[i] = u[e + i]
    <3>1. e + 1 + i - 1 = e + i
      BY <1>1
    <3> QED
      BY <2>3, <2>5, <3>1
  <2> QED
    BY <1>1, <2>1, <2>2, <2>5, <2>6, <2>7 DEF Speech
<1> QED
  BY <1>1, <1>2, <1>3

\* Units that follow one another go on doing so when the next n come.
LEMMA NextUnits ==
  ASSUME NEW t \in Speech, NEW p \in Nat, NEW n \in Nat,
         Len(t) <= p, \A i \in 1 .. Len(t) : t[i] = p - Len(t) + i
  PROVE  /\ t \o [i \in 1 .. n |-> p + i] \in Speech
         /\ Len(t \o [i \in 1 .. n |-> p + i]) = Len(t) + n
         /\ \A i \in 1 .. Len(t) + n : (t \o [j \in 1 .. n |-> p + j])[i] = p - Len(t) + i
<1> DEFINE chunk == [i \in 1 .. n |-> p + i]
<1>1. chunk \in Speech /\ Len(chunk) = n /\ \A i \in 1 .. n : chunk[i] = p + i
  BY DEF Speech
<1> HIDE DEF chunk
<1>2. PICK k \in Nat : k = Len(t)
  BY DEF Speech
<1>3. /\ t \o chunk \in Speech /\ Len(t \o chunk) = k + n
      /\ \A i \in 1 .. k + n : (t \o chunk)[i] = IF i <= k THEN t[i] ELSE chunk[i - k]
  BY <1>1, <1>2, ConcatProperties DEF Speech
<1>4. ASSUME NEW i \in 1 .. k + n PROVE (t \o chunk)[i] = p - k + i
  <2>1. CASE i <= k
    BY <1>2, <1>3, <2>1
  <2>2. CASE ~(i <= k)
    <3>1. PICK j \in 1 .. n : i = k + j /\ i - k = j
      <4>1. i - k \in 1 .. n /\ i = k + (i - k)
        BY <2>2
      <4> QED
        BY <4>1
    <3>2. (t \o chunk)[i] = p + j
      BY <1>1, <1>3, <2>2, <3>1
    <3> QED
      BY <1>2, <3>1, <3>2
  <2> QED
    BY <2>1, <2>2
<1> QED
  BY <1>2, <1>3, <1>4 DEF chunk

\* The buffer b of pushAudio has the newest units, but for e that the cap took.
LEMMA NewBuffer ==
  ASSUME NEW t \in Speech, NEW p \in Nat, NEW n \in ChunkSizes,
         Len(t) < FrameUnits, Len(t) <= p, \A i \in 1 .. Len(t) : t[i] = p - Len(t) + i
  PROVE  \E b \in Speech, e \in Nat :
           /\ b = Capped(t \o [i \in 1 .. n |-> p + i])
           /\ Len(b) + e = Len(t) + n /\ e < Gap
           /\ e # 0 => Len(b) >= FrameUnits
           /\ \A i \in 1 .. Len(b) : b[i] = p - Len(t) + e + i
<1> DEFINE u == t \o [i \in 1 .. n |-> p + i]
           b == Capped(u)
<1>1. n \in Nat \ {0} /\ Len(t) \in Nat
  BY BridgeAssumption DEF Speech
<1>2. /\ u \in Speech /\ Len(u) = Len(t) + n
      /\ \A i \in 1 .. Len(t) + n : u[i] = p - Len(t) + i
  BY <1>1, NextUnits
<1> HIDE DEF u
<1>3. PICK e \in Nat :
        /\ b \in Speech /\ Len(b) + e = Len(t) + n
        /\ e # 0 => Len(b) = MaxTxBuffer
        /\ \A i \in 1 .. Len(b) : b[i] = u[e + i]
  <2>1. u \in Speech
    BY <1>2
  <2>2. \E e \in Nat :
          /\ Capped(u) \in Speech /\ Len(Capped(u)) + e = Len(u)
          /\ e # 0 => Len(Capped(u)) = MaxTxBuffer
          /\ \A i \in 1 .. Len(Capped(u)) : Capped(u)[i] = u[e + i]
    BY <2>1, CapKeepsNewest
  <2> QED
    BY <1>2, <2>2
<1> HIDE DEF b
<1>4. Len(b) \in Nat /\ MaxTxBuffer \in Nat /\ MaxTxBuffer >= FrameUnits /\ FrameUnits \in Nat
  BY <1>3, BridgeAssumption DEF Speech
<1>5. ASSUME NEW i \in 1 .. Len(b) PROVE b[i] = p - Len(t) + e + i
  <2>1. e + i \in 1 .. Len(t) + n /\ p - Len(t) + (e + i) = p - Len(t) + e + i
    BY <1>1, <1>3, <1>4
  <2> QED
    BY <1>2, <1>3, <2>1
<1>6. e < Gap
  <2>1. n + FrameUnits - 1 - MaxTxBuffer < Gap /\ Gap \in Nat \ {0}
    BY GapBounds
  <2> QED
    BY <1>1, <1>3, <1>4, <2>1
<1>7. e # 0 => Len(b) >= FrameUnits
  BY <1>3, <1>4
<1> QED
  BY <1>3, <1>5, <1>6, <1>7 DEF b, u

\* A buffer of less than a frame stays as it is.
LEMMA ShortBuffer ==
  ASSUME NEW b \in Speech, Len(b) < FrameUnits
  PROVE  Frames(b) = <<>> /\ Remainder(b) = b
<1>1. FrameCount(b) = 0
  <2>1. PICK m \in Nat : m = Len(b) /\ m < FrameUnits
    BY DEF Speech
  <2>2. m \div FrameUnits = 0
    BY <2>1, BridgeAssumption
  <2> QED
    BY <2>1, <2>2 DEF FrameCount
<1>2. 0 * FrameUnits = 0
  BY BridgeAssumption
<1>3. Frames(b) = <<>>
  BY <1>1 DEF Frames
<1>4. Remainder(b) = SubSeq(b, 1, Len(b))
  BY <1>1, <1>2 DEF Remainder
<1> QED
  BY <1>3, <1>4, SubSeqFull DEF Speech

\* Units numbered one after another from c + 1 on.
LEMMA OneAfterAnother ==
  ASSUME NEW g \in Speech, NEW c \in Nat, \A i \in 1 .. Len(g) : g[i] = c + i
  PROVE  Rising(g) /\ \A y \in Range(g) : c < y /\ y <= c + Len(g)
<1>1. PICK k \in Nat : k = Len(g)
  BY DEF Speech
<1>2. \A i \in 1 .. k : g[i] = c + i
  BY <1>1
<1>3. Rising(g)
  BY <1>1, <1>2 DEF Rising
<1>4. Range(g) = {g[i] : i \in 1 .. k}
  BY <1>1, RangeEquality DEF Speech
<1>5. \A y \in Range(g) : c < y /\ y <= c + k
  BY <1>2, <1>4
<1> QED
  BY <1>1, <1>3, <1>5

\* New frames g come behind a queue q that ends with unit c, after e lost units.
LEMMA QueueGrows ==
  ASSUME NEW q \in Speech, NEW g \in Speech, NEW c \in Nat, NEW e \in Nat,
         Close(q), q # <<>> => q[Len(q)] = c, e < Gap, g = <<>> => e = 0,
         \A i \in 1 .. Len(g) : g[i] = c + e + i
  PROVE  Close(q \o g) /\ (q \o g # <<>> => (q \o g)[Len(q \o g)] = c + e + Len(g))
<1>1. PICK a \in Nat, b \in Nat : a = Len(q) /\ b = Len(g)
  BY DEF Speech
<1> DEFINE u == q \o g
<1>2. /\ u \in Speech /\ Len(u) = a + b
      /\ \A i \in 1 .. a + b : u[i] = IF i <= a THEN q[i] ELSE g[i - a]
  BY <1>1, ConcatProperties DEF Speech
<1>3. (q # <<>> <=> a # 0) /\ (g # <<>> <=> b # 0) /\ (u # <<>> <=> a + b # 0)
  BY <1>1, <1>2, EmptySeq DEF Speech
<1> HIDE DEF u
<1>4. Gap \in Nat \ {0} /\ (a # 0 => q[a] = c) /\ \A i \in 1 .. b : g[i] = c + e + i
  BY <1>1, <1>3, GapBounds
<1>5. ASSUME NEW i \in 1 .. b PROVE u[a + i] = c + e + i
  <2>1. a + i \in 1 .. a + b /\ ~(a + i <= a) /\ (a + i) - a = i
    OBVIOUS
  <2> QED
    BY <1>2, <1>4, <2>1
<1>6. \A i \in 1 .. a : u[i] = q[i]
  BY <1>2
<1>7. ASSUME NEW i \in 1 .. (a + b) - 1 PROVE u[i + 1] - u[i] <= Gap
  <2>1. CASE i < a
    <3>1. i \in 1 .. Len(q) - 1 /\ i \in 1 .. a /\ i + 1 \in 1 .. a
      BY <1>1, <2>1
    <3> QED
      BY <1>6, <3>1 DEF Close
  <2>2. CASE i = a
    <3>1. u[a] = c
      BY <1>4, <1>6, <2>2
    <3>2. 1 \in 1 .. b /\ u[a + 1] = c + e + 1
      <4>1. 1 \in 1 .. b
        BY <2>2
      <4> QED
        BY <1>5, <4>1
    <3>3. (c + e + 1) - c <= Gap
      BY <1>4
    <3> QED
      BY <2>2, <3>1, <3>2, <3>3
  <2>3. CASE i > a
    <3>1. PICK j \in 1 .. b : i = a + j /\ j + 1 \in 1 .. b
      <4>1. i - a \in 1 .. b /\ i = a + (i - a) /\ (i - a) + 1 \in 1 .. b
        BY <2>3
      <4> QED
        BY <4>1
    <3>2. u[i] = c + e + j
      BY <1>5, <3>1
    <3>3. PICK m \in 1 .. b : m = j + 1 /\ i + 1 = a + m
      BY <3>1
    <3>4. u[i + 1] = c + e + m
      BY <1>5, <3>3
    <3>5. (c + e + m) - (c + e + j) <= Gap
      BY <1>4, <3>3
    <3> QED
      BY <3>2, <3>4, <3>5
  <2> QED
    BY <2>1, <2>2, <2>3
<1>8. Close(u)
  BY <1>2, <1>7 DEF Close
<1>9. ASSUME u # <<>> PROVE u[Len(u)] = c + e + Len(g)
  <2>1. CASE b = 0
    <3>1. e = 0 /\ a # 0 /\ a \in 1 .. a
      BY <1>3, <1>9, <2>1
    <3>2. u[a] = c /\ Len(u) = a
      BY <1>2, <1>4, <1>6, <2>1, <3>1
    <3> QED
      BY <1>1, <2>1, <3>1, <3>2
  <2>2. CASE b # 0
    <3>1. b \in 1 .. b
      BY <2>2
    <3> QED
      BY <1>1, <1>2, <1>5, <3>1
  <2> QED
    BY <2>1, <2>2
<1> QED
  BY <1>8, <1>9 DEF u

\* Units numbered one after another from c + 1 on.
NumberedFrom(s, c) == \A i \in 1 .. Len(s) : s[i] = c + i

\* A buffer that is numbered so gives frames g and a remainder d that are.
LEMMA CutGoesOn ==
  ASSUME NEW g \in Speech, NEW d \in Speech, NEW c \in Nat, NumberedFrom(g \o d, c)
  PROVE  /\ NumberedFrom(g, c) /\ NumberedFrom(d, c + Len(g))
         /\ Len(g \o d) = Len(g) + Len(d)
<1>1. PICK m \in Nat, n \in Nat : m = Len(g) /\ n = Len(d)
  BY DEF Speech
<1> DEFINE b == g \o d
<1>2. /\ Len(b) = m + n
      /\ \A i \in 1 .. m + n : b[i] = IF i <= m THEN g[i] ELSE d[i - m]
  BY <1>1, ConcatProperties DEF Speech
<1>3. \A i \in 1 .. m + n : b[i] = c + i
  <2>1. NumberedFrom(b, c)
    OBVIOUS
  <2> HIDE DEF b
  <2> QED
    BY <1>2, <2>1 DEF NumberedFrom
<1> HIDE DEF b
<1>4. ASSUME NEW i \in 1 .. n PROVE d[i] = c + m + i
  <2>1. m + i \in 1 .. m + n /\ ~(m + i <= m) /\ (m + i) - m = i
    OBVIOUS
  <2>2. b[m + i] = d[i] /\ b[m + i] = c + (m + i)
    BY <1>2, <1>3, <2>1
  <2> QED
    BY <2>2
<1>5. ASSUME NEW i \in 1 .. m PROVE g[i] = c + i
  <2>1. i \in 1 .. m + n /\ i <= m
    OBVIOUS
  <2> QED
    BY <1>2, <1>3, <2>1
<1>6. Len(b) = Len(g) + Len(d)
  BY <1>1, <1>2
<1> QED
  BY <1>1, <1>4, <1>5, <1>6 DEF NumberedFrom, b

----------------------------------------------------------------------------
(* The invariant                                                           *)

\* What the page holds and has played.
pageState == <<wire, jitter, readOffset, samples, lastPlayed>>

\* What the invariant says of the line of speech, for use in the steps.
LEMMA LineTypes ==
  ASSUME BInv
  PROVE  /\ FlattenSeq(txQueue) \in Speech /\ FlattenSeq(wire) \in Speech
         /\ FlattenSeq(jitter) \in Speech
         /\ Unread \in Speech /\ readOffset \in 0 .. Len(FlattenSeq(jitter))
         /\ Len(txBuffer) \in Nat /\ Cut \in Nat
<1>1. /\ FlattenSeq(txQueue) \in Speech /\ FlattenSeq(wire) \in Speech
      /\ FlattenSeq(jitter) \in Speech
  BY FramesAreSpeech DEF BInv, BridgeTypes
<1>2. readOffset \in 0 .. Len(FlattenSeq(jitter))
  <2>1. readOffset \in Nat /\ readOffset < FrameUnits
    BY BridgeAssumption DEF BInv, BridgeTypes
  <2>2. Len(FlattenSeq(jitter)) \in Nat
    BY <1>1 DEF Speech
  <2>3. CASE jitter = <<>>
    BY <2>1, <2>2, <2>3 DEF BInv, LagInv
  <2>4. CASE jitter # <<>>
    <3>1. Len(FlattenSeq(jitter)) = FrameUnits + Len(FlattenSeq(Tail(jitter)))
          /\ FlattenSeq(Tail(jitter)) \in Speech
      BY <2>4, FlattenHead, FramesAreSpeech DEF BInv, BridgeTypes
    <3>2. Len(FlattenSeq(Tail(jitter))) \in Nat
      BY <3>1 DEF Speech
    <3> QED
      BY <2>1, <2>2, <3>1, <3>2, BridgeAssumption
  <2> QED
    BY <2>3, <2>4
<1>3. Unread \in Speech
  BY <1>1, <1>2, SplitAt DEF Unread
<1>4. Len(txBuffer) \in Nat /\ Cut \in Nat
  BY DEF BInv, BridgeTypes, BufferInv, Cut, Speech
<1> QED
  BY <1>1, <1>2, <1>3, <1>4

\* The invariant holds at the start, with no speech underway.
LEMMA InitBInv ==
  ASSUME Init PROVE BInv
<1> USE DEF Init
<1>1. FlattenSeq(txQueue) = <<>> /\ FlattenSeq(wire) = <<>> /\ FlattenSeq(jitter) = <<>>
  BY FlattenEmpty
<1>2. BridgeTypes
  BY BridgeAssumption, EmptySeq DEF BridgeTypes, Speech
<1>3. BufferInv /\ Cut = 0
  <2>1. Len(txBuffer) = 0 /\ pushed = 0
    BY NoPieces
  <2> HIDE DEF Init
  <2>2. Cut = 0 /\ 1 .. Len(txBuffer) = {}
    BY <2>1 DEF Cut
  <2>3. Len(txBuffer) < FrameUnits /\ Len(txBuffer) <= pushed
    BY <2>1, BridgeAssumption
  <2> QED
    BY <2>2, <2>3 DEF BufferInv
<1>4. QueueInv
  BY <1>1 DEF QueueInv, Close
<1>5. LineInv
  <2>1. Unread = <<>>
    BY <1>1, NoPieces, SubSeqEmpty DEF Unread
  <2> QED
    BY <1>1, <1>3, <2>1, NoPieces DEF LineInv, InLine, Below
<1>6. LagInv
  BY <1>1, BridgeAssumption DEF LagInv
<1> QED
  BY <1>2, <1>3, <1>4, <1>5, <1>6 DEF BInv

\* Speech that comes in goes to the end of the line.
LEMMA PushAudioKeeps ==
  ASSUME BInv, NEW n \in ChunkSizes, PushAudio(n)
  PROVE  BInv'
<1>1. /\ pushed \in Nat /\ txBuffer \in Speech /\ txQueue \in Seq(Frame)
      /\ Len(txBuffer) < FrameUnits /\ Len(txBuffer) <= pushed
      /\ \A i \in 1 .. Len(txBuffer) : txBuffer[i] = pushed - Len(txBuffer) + i
  BY DEF BInv, BridgeTypes, BufferInv, Cut
<1>2. n \in Nat
  BY BridgeAssumption
<1>3. PICK b \in Speech, e \in Nat :
        /\ b = Capped(txBuffer \o [i \in 1 .. n |-> pushed + i])
        /\ Len(b) + e = Len(txBuffer) + n /\ e < Gap
        /\ e # 0 => Len(b) >= FrameUnits
        /\ \A i \in 1 .. Len(b) : b[i] = pushed - Len(txBuffer) + e + i
  BY <1>1, NewBuffer
<1>4. /\ pushed' = pushed + n /\ txBuffer' = Remainder(b) /\ txQueue' = txQueue \o Frames(b)
      /\ UNCHANGED pageState
  BY <1>3 DEF PushAudio, pageVars, pageState
<1> DEFINE g == FlattenSeq(Frames(b))
           d == Remainder(b)
           q == FlattenSeq(txQueue)
<1>5. /\ Frames(b) \in Seq(Frame) /\ d \in Speech /\ Len(d) < FrameUnits /\ b = g \o d
      /\ Len(b) >= FrameUnits => g # <<>>
      /\ g \in Speech /\ q \in Speech
  BY <1>1, CutIntoFrames, FramesAreSpeech
<1>6. txQueue' \in Seq(Frame) /\ FlattenSeq(txQueue') = q \o g
  BY <1>1, <1>4, <1>5, FramesAreSpeech, FlattenConcat, ConcatProperties
<1>7. txBuffer' = d
  BY <1>4
<1> HIDE DEF g, d, q
<1>8. PICK c \in Nat : c = Cut /\ c = pushed - Len(txBuffer)
  BY LineTypes DEF Cut
<1>9. /\ \A i \in 1 .. Len(g) : g[i] = c + e + i
      /\ \A i \in 1 .. Len(d) : d[i] = c + e + Len(g) + i
      /\ Len(b) = Len(g) + Len(d)
      /\ g = <<>> => e = 0
  <2>1. c + e \in Nat /\ NumberedFrom(b, c + e)
    BY <1>3, <1>8 DEF NumberedFrom
  <2>2. NumberedFrom(g \o d, c + e)
    BY <1>5, <2>1
  <2>3. NumberedFrom(g, c + e) /\ NumberedFrom(d, c + e + Len(g)) /\ Len(g \o d) = Len(g) + Len(d)
    BY <1>5, <2>1, <2>2, CutGoesOn
  <2>4. g = <<>> => e = 0
    BY <1>3, <1>5
  <2> QED
    BY <1>5, <2>3, <2>4 DEF NumberedFrom
<1>10. Len(g) \in Nat /\ Len(d) \in Nat /\ Len(txBuffer) \in Nat
  BY <1>1, <1>5 DEF Speech
<1>11. PICK m \in Nat : m = c + e + Len(g) /\ c + e \in Nat /\ c <= m
  BY <1>10
<1>12. Cut' = m /\ Len(d) <= pushed' /\ pushed' \in Nat
  <2>1. Cut' = pushed' - Len(d)
    BY <1>7 DEF Cut
  <2>2. pushed + n = m + Len(d)
    <3>1. PICK lg \in Nat, ld \in Nat, lt \in Nat : lg = Len(g) /\ ld = Len(d) /\ lt = Len(txBuffer)
      BY <1>10
    <3>2. Len(b) + e = Len(txBuffer) + n
      BY <1>3
    <3>3. (lg + ld) + e = lt + n
      BY <1>9, <3>1, <3>2
    <3>4. pushed \in Nat /\ c = pushed - lt /\ m = c + e + lg
      BY <1>1, <1>8, <1>11, <3>1
    <3>5. pushed + n = m + ld
      BY <1>2, <3>3, <3>4
    <3> QED
      BY <3>1, <3>5
  <2> QED
    BY <1>4, <1>10, <1>11, <2>1, <2>2
<1>13. BridgeTypes'
  BY <1>4, <1>5, <1>6, <1>7, <1>12 DEF BInv, BridgeTypes, pageState
<1>14. BufferInv'
  BY <1>5, <1>7, <1>9, <1>11, <1>12 DEF BufferInv
<1>15. QueueInv'
  <2>1. Close(q) /\ (q # <<>> => q[Len(q)] = c)
    BY <1>8 DEF BInv, QueueInv, q
  <2>2. Close(q \o g) /\ (q \o g # <<>> => (q \o g)[Len(q \o g)] = c + e + Len(g))
    BY <1>3, <1>5, <1>9, <2>1, QueueGrows
  <2> QED
    BY <1>6, <1>11, <1>12, <2>2 DEF QueueInv
<1>16. LineInv'
  <2>1. InLine(lastPlayed, Unread, FlattenSeq(wire), q, c)
    BY <1>8 DEF BInv, LineInv, q
  <2>2. lastPlayed \in Nat /\ Unread \in Speech /\ FlattenSeq(wire) \in Speech
    BY LineTypes DEF BInv, BridgeTypes
  <2>3. Rising(g) /\ \A y \in Range(g) : c + e < y /\ y <= c + e + Len(g)
    BY <1>5, <1>9, <1>11, OneAfterAnother
  <2>4. \A y \in Range(g) : c < y /\ y <= m
    BY <1>5, <1>11, <2>3, SpeechIsNat
  <2>5. InLine(lastPlayed, Unread, FlattenSeq(wire), q \o g, m)
    BY <1>5, <1>11, <2>1, <2>2, <2>3, <2>4, LineGrows
  <2>6. Unread' = Unread /\ wire' = wire /\ lastPlayed' = lastPlayed
    BY <1>4 DEF Unread, pageState
  <2> QED
    BY <1>6, <1>12, <2>5, <2>6 DEF LineInv
<1>17. LagInv'
  BY <1>4 DEF BInv, LagInv, pageState
<1> QED
  BY <1>13, <1>14, <1>15, <1>16, <1>17 DEF BInv

\* A page that loads or goes leaves the queue, and nothing is underway behind it.
LEMMA NewPageKeeps ==
  ASSUME BInv, NEW c, NewPage(c), txBuffer' = txBuffer, txQueue' = txQueue, pushed' = pushed
  PROVE  BInv'
<1>1. wire' = <<>> /\ jitter' = <<>> /\ readOffset' = 0 /\ samples' = 0 /\ lastPlayed' = lastPlayed
  BY DEF NewPage
<1>2. FlattenSeq(wire') = <<>> /\ FlattenSeq(jitter') = <<>>
  BY <1>1, FlattenEmpty
<1>3. BridgeTypes'
  BY <1>1, EmptySeq, BridgeAssumption DEF BInv, BridgeTypes
<1>4. BufferInv' /\ QueueInv' /\ Cut' = Cut
  BY DEF BInv, BufferInv, QueueInv, Cut
<1>5. Unread' = <<>>
  BY <1>1, <1>2, NoPieces, SubSeqEmpty DEF Unread
<1>6. LineInv'
  <2>1. InLine(lastPlayed, Unread, FlattenSeq(wire), FlattenSeq(txQueue), Cut)
    BY DEF BInv, LineInv
  <2>2. InLine(lastPlayed, <<>>, <<>>, FlattenSeq(txQueue), Cut)
    BY <2>1, LineClears
  <2> QED
    BY <1>1, <1>2, <1>4, <1>5, <2>2 DEF LineInv
<1>7. LagInv'
  BY <1>1, <1>2, NoPieces, BridgeAssumption DEF LagInv
<1> QED
  BY <1>3, <1>4, <1>6, <1>7 DEF BInv

\* What is left of speech in the buffer makes no frame when a page connects.
LEMMA ConnectionKeeps ==
  ASSUME BInv, NEW c \in Conn, Connection(c)
  PROVE  BInv'
<1>1. Frames(txBuffer) = <<>> /\ Remainder(txBuffer) = txBuffer
  BY ShortBuffer DEF BInv, BridgeTypes, BufferInv
<1>2. txQueue \o <<>> = txQueue
  BY ConcatEmptySeq DEF BInv, BridgeTypes
<1>3. NewPage(c) /\ txBuffer' = txBuffer /\ txQueue' = txQueue /\ pushed' = pushed
  BY <1>1, <1>2 DEF Connection
<1> QED
  BY <1>3, NewPageKeeps

\* leave() empties the queue and leaves the page's buffers.
LEMMA LeaveKeeps ==
  ASSUME BInv, Leave
  PROVE  BInv'
<1>1. /\ txQueue' = <<>> /\ pushed' = pushed /\ txBuffer' = txBuffer
      /\ UNCHANGED pageState
  BY DEF Leave, pageVars, pageState
<1>2. FlattenSeq(txQueue') = <<>>
  BY <1>1, FlattenEmpty
<1>3. BridgeTypes'
  BY <1>1, EmptySeq DEF BInv, BridgeTypes, pageState
<1>4. BufferInv' /\ LagInv' /\ Cut' = Cut /\ Unread' = Unread
  BY <1>1 DEF BInv, BufferInv, LagInv, Cut, Unread, pageState
<1>5. QueueInv'
  BY <1>2, NoPieces DEF QueueInv, Close
<1>6. LineInv'
  <2>1. InLine(lastPlayed, Unread, FlattenSeq(wire), <<>>, Cut)
    BY LineClears DEF BInv, LineInv
  <2> QED
    BY <1>1, <1>2, <1>4, <2>1 DEF LineInv, pageState
<1> QED
  BY <1>3, <1>4, <1>5, <1>6 DEF BInv

\* The rest of a sequence keeps its neighbours and its end.
LEMMA RestOfQueue ==
  ASSUME NEW f \in Speech, NEW q \in Speech, NEW c \in Nat,
         Close(f \o q), f \o q # <<>> => (f \o q)[Len(f \o q)] = c
  PROVE  Close(q) /\ (q # <<>> => q[Len(q)] = c)
<1>1. PICK a \in Nat, b \in Nat : a = Len(f) /\ b = Len(q)
  BY DEF Speech
<1> DEFINE u == f \o q
<1>2. /\ u \in Speech /\ Len(u) = a + b
      /\ \A i \in 1 .. a + b : u[i] = IF i <= a THEN f[i] ELSE q[i - a]
  BY <1>1, ConcatProperties DEF Speech
<1>3. Close(u) /\ (u # <<>> => u[Len(u)] = c)
  OBVIOUS
<1>4. (q # <<>> => b # 0) /\ (a + b # 0 => u # <<>>)
  BY <1>1, <1>2, EmptySeq DEF Speech
<1> HIDE DEF u
<1>5. ASSUME NEW i \in 1 .. b PROVE u[a + i] = q[i]
  <2>1. a + i \in 1 .. a + b /\ ~(a + i <= a) /\ (a + i) - a = i
    OBVIOUS
  <2> QED
    BY <1>2, <2>1
<1>6. ASSUME NEW i \in 1 .. b - 1 PROVE q[i + 1] - q[i] <= Gap
  <2>1. PICK j \in 1 .. b : j = i + 1
    OBVIOUS
  <2>2. PICK k \in 1 .. (a + b) - 1 : k = a + i /\ k + 1 = a + j
    <3>1. a + i \in 1 .. (a + b) - 1 /\ (a + i) + 1 = a + j
      BY <2>1
    <3> QED
      BY <3>1
  <2>3. u[k + 1] - u[k] <= Gap
    BY <1>2, <1>3 DEF Close
  <2>4. u[a + i] = q[i] /\ u[a + j] = q[j]
    BY <1>5
  <2> QED
    BY <2>1, <2>2, <2>3, <2>4
<1>7. ASSUME q # <<>> PROVE q[b] = c
  <2>1. b \in 1 .. b /\ u # <<>>
    BY <1>4, <1>7
  <2> QED
    BY <1>2, <1>3, <1>5, <2>1
<1> QED
  BY <1>1, <1>6, <1>7 DEF Close

\* The oldest frame of the queue goes to the page, or is lost with it.
LEMMA SendFrameKeeps ==
  ASSUME BInv, SendFrame
  PROVE  BInv'
<1>1. /\ txQueue # <<>> /\ txQueue' = Tail(txQueue)
      /\ wire' = Append(wire, Head(txQueue)) \/ wire' = wire
      /\ pushed' = pushed /\ txBuffer' = txBuffer
      /\ UNCHANGED <<jitter, readOffset, samples, lastPlayed>>
  BY DEF SendFrame, QueueAfterSend
<1> DEFINE f == Head(txQueue)
           q == FlattenSeq(Tail(txQueue))
           w == FlattenSeq(wire)
<1>2. /\ f \in Frame /\ f \in Speech /\ Tail(txQueue) \in Seq(Frame) /\ q \in Speech
      /\ FlattenSeq(txQueue) = f \o q
  BY <1>1, FlattenHead, FramesAreSpeech DEF BInv, BridgeTypes, Frame
<1>3. wire \in Seq(Frame) /\ w \in Speech
  BY FramesAreSpeech DEF BInv, BridgeTypes
<1>4. Append(wire, f) \in Seq(Frame) /\ FlattenSeq(Append(wire, f)) = w \o f
  BY <1>2, <1>3, FlattenFrame, AppendProperties
<1>5. FlattenSeq(txQueue') = q
  BY <1>1
<1>6. wire' \in Seq(Frame) /\ (FlattenSeq(wire') = w \o f \/ FlattenSeq(wire') = w)
  BY <1>1, <1>3, <1>4
<1> HIDE DEF f, q, w
<1>7. BridgeTypes'
  BY <1>1, <1>2, <1>6 DEF BInv, BridgeTypes
<1>8. BufferInv' /\ LagInv' /\ Cut' = Cut /\ Unread' = Unread /\ lastPlayed' = lastPlayed
  BY <1>1 DEF BInv, BufferInv, LagInv, Cut, Unread
<1>9. PICK c \in Nat : c = Cut
  BY LineTypes
<1>10. QueueInv'
  <2>1. Close(f \o q) /\ (f \o q # <<>> => (f \o q)[Len(f \o q)] = c)
    BY <1>2, <1>9 DEF BInv, QueueInv
  <2>2. Close(q) /\ (q # <<>> => q[Len(q)] = c)
    BY <1>2, <2>1, RestOfQueue
  <2> QED
    BY <1>5, <1>8, <1>9, <2>2 DEF QueueInv
<1>11. LineInv'
  <2>1. InLine(lastPlayed, Unread, w, f \o q, c)
    BY <1>2, <1>9 DEF BInv, LineInv, w
  <2>2. lastPlayed \in Nat /\ Unread \in Speech
    BY LineTypes DEF BInv, BridgeTypes
  <2>3. InLine(lastPlayed, Unread, w \o f, q, c) /\ InLine(lastPlayed, Unread, w, q, c)
    BY <1>2, <1>3, <2>1, <2>2, LineSends
  <2> QED
    BY <1>5, <1>6, <1>8, <1>9, <2>3 DEF LineInv
<1> QED
  BY <1>7, <1>8, <1>10, <1>11 DEF BInv

\* The oldest frame of a page that is behind goes when another is added.
LEMMA DropOldest ==
  ASSUME NEW s \in Seq(Frame), NEW f \in Frame, s # <<>>
  PROVE  /\ Tail(Append(s, f)) \in Seq(Frame) /\ Tail(Append(s, f)) # <<>>
         /\ FlattenSeq(Tail(Append(s, f))) = FlattenSeq(Tail(s)) \o f
         /\ Len(FlattenSeq(Tail(Append(s, f)))) = Len(FlattenSeq(s))
<1> DEFINE t == Tail(s)
           z == Tail(Append(s, f))
<1>1. z = Append(t, f)
  OBVIOUS
<1>2. t \in Seq(Frame) /\ Len(FlattenSeq(s)) = FrameUnits + Len(FlattenSeq(t))
  BY FlattenHead
<1> HIDE DEF t, z
<1>3. /\ Append(t, f) \in Seq(Frame) /\ Append(t, f) # <<>>
  BY <1>2, AppendProperties
<1>4. /\ FlattenSeq(Append(t, f)) = FlattenSeq(t) \o f
      /\ Len(FlattenSeq(Append(t, f))) = Len(FlattenSeq(t)) + FrameUnits
  BY <1>2, FlattenFrame
<1>5. Len(FlattenSeq(t)) \in Nat
  BY <1>2, FramesAreSpeech DEF Speech
<1>6. Len(FlattenSeq(z)) = Len(FlattenSeq(s))
  BY <1>1, <1>2, <1>4, <1>5, BridgeAssumption
<1> QED
  BY <1>1, <1>3, <1>4, <1>6 DEF t, z

\* A frame comes to the page; if it is too far behind, its oldest frame goes.
LEMMA PushMicPcmFrameKeeps ==
  ASSUME BInv, PushMicPcmFrame
  PROVE  BInv'
<1> DEFINE f == Head(wire)
           w == FlattenSeq(Tail(wire))
           q == FlattenSeq(txQueue)
           J == FlattenSeq(jitter)
           drop == TooFarBehind(Append(jitter, f), samples + FrameUnits)
<1>1. /\ wire # <<>> /\ wire' = Tail(wire)
      /\ jitter' = IF drop THEN Tail(Append(jitter, f)) ELSE Append(jitter, f)
      /\ samples' = IF drop THEN (samples + FrameUnits) - (FrameUnits - readOffset)
                            ELSE samples + FrameUnits
      /\ readOffset' = IF drop THEN 0 ELSE readOffset
      /\ pushed' = pushed /\ txBuffer' = txBuffer /\ txQueue' = txQueue
      /\ lastPlayed' = lastPlayed
  <2>1. /\ wire # <<>> /\ wire' = Tail(wire)
        /\ jitter' = IF drop THEN Tail(Append(jitter, f)) ELSE Append(jitter, f)
        /\ readOffset' = IF drop THEN 0 ELSE readOffset
    BY Zenon DEF PushMicPcmFrame
  <2>2. samples' = IF drop THEN (samples + FrameUnits) - (FrameUnits - readOffset)
                           ELSE samples + FrameUnits
    <3>1. samples' = IF drop THEN (samples + FrameUnits) - UnreadOfFirst ELSE samples + FrameUnits
      BY Zenon DEF PushMicPcmFrame
    <3> HIDE DEF drop
    <3> QED
      BY <3>1 DEF UnreadOfFirst
  <2>3. /\ pushed' = pushed /\ txBuffer' = txBuffer /\ txQueue' = txQueue
        /\ lastPlayed' = lastPlayed
    BY DEF PushMicPcmFrame, nodeVars
  <2> QED
    BY <2>1, <2>2, <2>3
<1>2. /\ f \in Frame /\ f \in Speech /\ Len(f) = FrameUnits
      /\ Tail(wire) \in Seq(Frame) /\ w \in Speech
      /\ FlattenSeq(wire) = f \o w /\ FlattenSeq(wire') = w
  BY <1>1, FlattenHead, FramesAreSpeech DEF BInv, BridgeTypes, Frame
<1>3. /\ jitter \in Seq(Frame) /\ J \in Speech /\ q \in Speech /\ Len(J) \in Nat
      /\ FrameUnits \in Nat \ {0} /\ DropThreshold \in Nat /\ DropThreshold >= FrameUnits
      /\ readOffset \in Nat /\ readOffset < FrameUnits /\ readOffset \in 0 .. Len(J)
      /\ lastPlayed \in Nat /\ Unread \in Speech
  BY LineTypes, BridgeAssumption DEF BInv, BridgeTypes, Speech
<1>4. /\ samples = Len(J) - readOffset /\ Len(J) < DropThreshold + FrameUnits
  BY DEF BInv, LagInv
<1>5. drop <=> samples + FrameUnits > DropThreshold /\ Len(jitter) + 1 > 1
  <2>1. Len(Append(jitter, f)) = Len(jitter) + 1
    BY <1>2, <1>3, AppendProperties
  <2> QED
    BY <2>1 DEF TooFarBehind
<1>6. Unread = SubSeq(J, readOffset + 1, Len(J))
  BY DEF Unread
<1>7. BufferInv' /\ QueueInv' /\ Cut' = Cut
  BY <1>1 DEF BInv, BufferInv, QueueInv, Cut
<1>8. PICK c \in Nat : c = Cut
  BY LineTypes
<1>9. InLine(lastPlayed, Unread, f \o w, q, c)
  BY <1>2, <1>8 DEF BInv, LineInv
<1>10. FlattenSeq(txQueue') = q
  BY <1>1
<1>11. Len(jitter) \in Nat /\ (Len(jitter) = 0 => Len(J) = 0) /\ (Len(jitter) # 0 => jitter # <<>>)
  BY <1>3, EmptySeq, FlattenEmpty, NoPieces
<1> DEFINE K == FlattenSeq(jitter')
<1>12. ASSUME NEW x \in Speech, NEW a \in Speech, Unread = x \o a, Unread' = a \o f,
              jitter' \in Seq(Frame), jitter' # <<>>,
              readOffset' \in 0 .. FrameUnits - 1, samples' = Len(K) - readOffset',
              Len(K) < DropThreshold + FrameUnits
       PROVE  BInv'
  <2>1. BridgeTypes'
    BY <1>1, <1>2, <1>12 DEF BInv, BridgeTypes
  <2>2. InLine(lastPlayed, x \o a, f \o w, q, c)
    BY <1>9, <1>12
  <2>3. InLine(lastPlayed, a \o f, w, q, c)
    BY <1>2, <1>3, <2>2, LineArrives
  <2>4. LineInv'
    BY <1>1, <1>2, <1>7, <1>8, <1>10, <1>12, <2>3 DEF LineInv
  <2>5. LagInv'
    BY <1>12 DEF LagInv
  <2> QED
    BY <1>7, <2>1, <2>4, <2>5 DEF BInv
<1> HIDE DEF f, w, q, J, drop
<1>13. CASE ~drop
  <2>1. jitter' = Append(jitter, f) /\ samples' = samples + FrameUnits /\ readOffset' = readOffset
    BY <1>1, <1>13
  <2>2. jitter' \in Seq(Frame) /\ jitter' # <<>>
    BY <1>2, <1>3, <2>1, AppendProperties
  <2>3. K = J \o f /\ Len(K) = Len(J) + FrameUnits
    BY <1>2, <1>3, <2>1, FlattenFrame DEF J
  <2>4. Unread' = Unread \o f
    <3>1. SubSeq(J \o f, readOffset + 1, Len(J \o f)) = SubSeq(J, readOffset + 1, Len(J)) \o f
      BY <1>2, <1>3, MoreToRead
    <3> HIDE DEF K
    <3> QED
      BY <1>6, <2>1, <2>3, <3>1 DEF Unread, K
  <2> HIDE DEF K
  <2>5. samples' = Len(K) - readOffset'
    BY <1>3, <1>4, <2>1, <2>3
  <2>6. Len(K) < DropThreshold + FrameUnits
    BY <1>3, <1>4, <1>5, <1>11, <1>13, <2>3
  <2>7. Unread = <<>> \o Unread /\ <<>> \in Speech
    BY <1>3, ConcatEmptySeq DEF Speech
  <2>8. readOffset' \in 0 .. FrameUnits - 1
    BY <1>3, <2>1
  <2> QED
    BY <1>3, <1>12, <2>2, <2>4, <2>5, <2>6, <2>7, <2>8 DEF K
<1>14. CASE drop
  <2>1. /\ jitter' = Tail(Append(jitter, f)) /\ readOffset' = 0
        /\ samples' = (samples + FrameUnits) - (FrameUnits - readOffset)
        /\ jitter # <<>>
    BY <1>1, <1>5, <1>11, <1>14
  <2> DEFINE h == Head(jitter)
             a == FlattenSeq(Tail(jitter))
             x == SubSeq(h, readOffset + 1, Len(h))
  <2>2. /\ h \in Speech /\ Len(h) = FrameUnits /\ a \in Speech /\ J = h \o a
    BY <1>3, <2>1, FlattenHead, FramesAreSpeech DEF J, Frame
  <2>3. /\ jitter' \in Seq(Frame) /\ jitter' # <<>>
        /\ K = a \o f /\ Len(K) = Len(J)
    BY <1>2, <1>3, <2>1, DropOldest DEF J
  <2> HIDE DEF h, a, K
  <2>4. readOffset \in 0 .. Len(h)
    BY <1>3, <2>2
  <2>5. x \in Speech
    BY <2>2, <2>4, SplitAt
  <2>6. Unread = x \o a
    <3>1. SubSeq(h \o a, readOffset + 1, Len(h \o a)) = x \o a
      BY <2>2, <2>4, MoreToRead
    <3> QED
      BY <1>6, <2>2, <3>1
  <2>7. Unread' = a \o f
    <3>1. a \o f \in Speech
      BY <1>2, <2>2, Pieces
    <3>2. SubSeq(a \o f, 1, Len(a \o f)) = a \o f
      BY <3>1, SubSeqFull DEF Speech
    <3>3. Unread' = SubSeq(K, 0 + 1, Len(K))
      BY <2>1 DEF Unread, K
    <3> QED
      BY <2>3, <3>2, <3>3
  <2>8. samples' = Len(K) - readOffset' /\ Len(K) < DropThreshold + FrameUnits
    BY <1>3, <1>4, <2>1, <2>3
  <2>9. readOffset' \in 0 .. FrameUnits - 1
    BY <1>3, <2>1
  <2> HIDE DEF x
  <2> QED
    BY <1>12, <2>2, <2>3, <2>5, <2>6, <2>7, <2>8, <2>9 DEF K
<1> QED
  BY <1>13, <1>14

\* The page plays on: what it read is gone, and what is left follows it.
LEMMA OnAudioProcessKeeps ==
  ASSUME BInv, OnAudioProcess
  PROVE  BInv'
<1> DEFINE J == FlattenSeq(jitter)
           K == FlattenSeq(jitter')
           w == FlattenSeq(wire)
           q == FlattenSeq(txQueue)
<1>1. /\ jitter \in Seq(Frame) /\ J \in Speech /\ w \in Speech /\ q \in Speech /\ Len(J) \in Nat
      /\ FrameUnits \in Nat \ {0} /\ CallbackUnits \in Nat \ {0} /\ DropThreshold \in Nat
      /\ readOffset \in Nat /\ readOffset < FrameUnits
      /\ lastPlayed \in Nat /\ samples = Len(J) - readOffset /\ Len(J) < DropThreshold + FrameUnits
  BY LineTypes, BridgeAssumption DEF BInv, BridgeTypes, LagInv, Speech
<1>2. jitter # <<>> /\ readOffset < Len(J)
  <2>1. jitter # <<>>
    BY DEF OnAudioProcess
  <2>2. /\ FlattenSeq(Tail(jitter)) \in Speech
        /\ Len(FlattenSeq(jitter)) = FrameUnits + Len(FlattenSeq(Tail(jitter)))
    BY <1>1, <2>1, FlattenHead, FramesAreSpeech
  <2>3. Len(FlattenSeq(Tail(jitter))) \in Nat
    BY <2>2 DEF Speech
  <2>4. Len(J) = FrameUnits + Len(FlattenSeq(Tail(jitter)))
    BY <2>2
  <2> HIDE DEF J
  <2> QED
    BY <1>1, <2>1, <2>3, <2>4
<1>3. PICK taken \in Nat :
        /\ taken # 0 /\ readOffset + taken <= Len(J)
        /\ taken = IF Len(J) - readOffset < CallbackUnits THEN Len(J) - readOffset ELSE CallbackUnits
  <2> HIDE DEF J
  <2>1. CASE Len(J) - readOffset < CallbackUnits
    BY <1>1, <1>2, <2>1
  <2>2. CASE ~(Len(J) - readOffset < CallbackUnits)
    BY <1>1, <1>2, <2>2
  <2> QED
    BY <2>1, <2>2
<1>4. PICK upto \in Nat : upto = readOffset + taken /\ readOffset < upto /\ upto <= Len(J)
  <2> HIDE DEF J
  <2> QED
    BY <1>1, <1>3
<1>5. /\ lastPlayed' = J[upto]
      /\ jitter' = SubSeq(jitter, upto \div FrameUnits + 1, Len(jitter))
      /\ readOffset' = upto % FrameUnits
      /\ samples' = samples - taken
      /\ pushed' = pushed /\ txBuffer' = txBuffer /\ txQueue' = txQueue /\ wire' = wire
  BY <1>3, <1>4 DEF OnAudioProcess, nodeVars
<1>6. PICK k \in Nat, ro \in 0 .. FrameUnits - 1 :
        k = upto \div FrameUnits /\ ro = upto % FrameUnits /\ upto = FrameUnits * k + ro
  BY DivMod
<1>7. PICK cu \in Nat : cu = FrameUnits * k
  BY <1>1
<1>8. upto = cu + ro /\ jitter' = SubSeq(jitter, k + 1, Len(jitter)) /\ readOffset' = ro
  BY <1>5, <1>6, <1>7
<1>9. /\ jitter' \in Seq(Frame)
      /\ Len(K) - ro = Len(J) - upto /\ Len(K) <= Len(J)
      /\ jitter' = <<>> => ro = 0
      /\ J[upto] \in Nat
      /\ ReadsUpTo(J, readOffset, upto, SubSeq(K, ro + 1, Len(K)))
  <2>1. ReadsFrames(jitter, readOffset, upto, k, ro, jitter')
    BY <1>4, <1>7, <1>8 DEF ReadsFrames
  <2>2. Leaves(jitter, readOffset, upto, ro, jitter')
    BY <1>1, <2>1, ReadOn
  <2> QED
    BY <2>2 DEF Leaves
<1> HIDE DEF J, w, q
<1>10. K \in Speech /\ Len(K) \in Nat
  BY <1>9, FramesAreSpeech DEF Speech
<1>11. Unread = SubSeq(J, readOffset + 1, Len(J)) /\ Unread' = SubSeq(K, ro + 1, Len(K))
  BY <1>8 DEF Unread, J
<1> HIDE DEF K
<1>12. LagInv'
  <2>1. samples' = Len(K) - readOffset'
    BY <1>1, <1>4, <1>5, <1>8, <1>9, <1>10
  <2>2. Len(K) < DropThreshold + FrameUnits
    BY <1>1, <1>9, <1>10
  <2> QED
    BY <1>8, <1>9, <2>1, <2>2 DEF LagInv, K
<1>13. BridgeTypes'
  BY <1>5, <1>8, <1>9 DEF BInv, BridgeTypes
<1>14. BufferInv' /\ QueueInv' /\ Cut' = Cut
  BY <1>5 DEF BInv, BufferInv, QueueInv, Cut
<1>15. PICK c \in Nat : c = Cut
  BY LineTypes
<1>16. LineInv'
  <2>1. PICK x \in Speech :
          /\ J[upto] \in Range(x) /\ Unread = x \o Unread'
          /\ Rising(x) => \A y \in Range(x) : y <= J[upto]
    BY <1>9, <1>11 DEF ReadsUpTo
  <2>2. Unread' \in Speech
    <3>1. ro \in 0 .. Len(K)
      BY <1>1, <1>4, <1>9, <1>10
    <3> QED
      BY <1>10, <1>11, <3>1, SplitAt
  <2>3. InLine(lastPlayed, x \o Unread', w, q, c)
    BY <1>15, <2>1 DEF BInv, LineInv, w, q
  <2>4. InLine(J[upto], Unread', w, q, c)
    BY <1>1, <1>9, <2>1, <2>2, <2>3, LinePlays
  <2>5. FlattenSeq(wire') = w /\ FlattenSeq(txQueue') = q
    BY <1>5 DEF w, q
  <2> QED
    BY <1>5, <1>14, <1>15, <2>4, <2>5 DEF LineInv
<1> QED
  BY <1>12, <1>13, <1>14, <1>16 DEF BInv

\* All that the invariant is about.
bridgeState == <<pushed, txBuffer, txQueue, pageState>>

\* Starting up, the sockets and the rest of leave() move no speech.
LEMMA BInvStep ==
  ASSUME BInv, [Next]_vars
  PROVE  BInv'
<1>1. ASSUME UNCHANGED bridgeState PROVE BInv'
  BY <1>1 DEF BInv, BridgeTypes, BufferInv, QueueInv, LineInv, LagInv, Unread, Cut,
              bridgeState, pageState
<1>2. CASE \E n \in ChunkSizes : PushAudio(n)
  BY <1>2, PushAudioKeeps
<1>3. CASE BindPort \/ LaunchBrowser \/ PageLoaded \/ WaitForBridge
  <2>1. UNCHANGED bridgeState
    BY <1>3 DEF BindPort, LaunchBrowser, PageLoaded, WaitForBridge, bridgeState, pageState,
                nodeVars, pageVars
  <2> QED
    BY <1>1, <2>1
<1>4. ASSUME NEW c \in Conn, Connection(c) \/ SocketEnds(c) \/ CloseEvent(c) PROVE BInv'
  <2>1. CASE Connection(c)
    BY <2>1, ConnectionKeeps
  <2>2. CASE SocketEnds(c) \/ CloseEvent(c)
    <3>1. UNCHANGED bridgeState
      BY <2>2 DEF SocketEnds, CloseEvent, bridgeState, pageState, nodeVars, pageVars
    <3> QED
      BY <1>1, <3>1
  <2> QED
    BY <1>4, <2>1, <2>2
<1>5. CASE PageGone
  BY <1>5, NewPageKeeps DEF PageGone, nodeVars
<1>6. CASE SendFrame
  BY <1>6, SendFrameKeeps
<1>7. CASE PushMicPcmFrame \/ OnAudioProcess
  BY <1>7, PushMicPcmFrameKeeps, OnAudioProcessKeeps
<1>8. CASE Leave
  BY <1>8, LeaveKeeps
<1>9. CASE LeavePage
  BY <1>9, NewPageKeeps DEF LeavePage, nodeVars
<1>10. CASE LeaveServer \/ UNCHANGED vars
  <2>1. UNCHANGED bridgeState
    BY <1>10 DEF LeaveServer, vars, bridgeState, pageState, nodeVars, pageVars
  <2> QED
    BY <1>1, <2>1
<1> QED
  BY <1>2, <1>3, <1>4, <1>5, <1>6, <1>7, <1>8, <1>9, <1>10 DEF Next

\* Whatever is pushed, lost, dropped or played, the speech underway is a line.
THEOREM BridgeInvariant == Spec => []BInv
BY InitBInv, BInvStep, PTL DEF Spec

----------------------------------------------------------------------------
(* What follows from it                                                    *)

\* What the buffer holds comes after what is in frames.
LEMMA BufferIsLast ==
  ASSUME BInv
  PROVE  /\ Rising(txBuffer) /\ txBuffer \in Speech
         /\ \A y \in Range(txBuffer) : Cut < y
<1>1. txBuffer \in Speech /\ Cut \in Nat
  BY LineTypes DEF BInv, BridgeTypes
<1>2. PICK c \in Nat : c = Cut
  BY <1>1
<1>3. \A i \in 1 .. Len(txBuffer) : txBuffer[i] = c + i
  BY <1>2 DEF BInv, BufferInv
<1>4. Rising(txBuffer) /\ \A y \in Range(txBuffer) : c < y /\ y <= c + Len(txBuffer)
  BY <1>1, <1>3, OneAfterAnother
<1> QED
  BY <1>1, <1>2, <1>4

\* What was played and what is underway rises.
LEMMA OrderFollows ==
  ASSUME BInv PROVE SpeechStaysInOrder
<1> DEFINE w == FlattenSeq(wire)
           q == FlattenSeq(txQueue)
           one == <<lastPlayed>>
           a == Unread \o w
           b == a \o q
           u == b \o txBuffer
<1>1. /\ Unread \in Speech /\ w \in Speech /\ q \in Speech /\ lastPlayed \in Nat /\ Cut \in Nat
  BY LineTypes DEF BInv, BridgeTypes
<1>2. InLine(lastPlayed, Unread, w, q, Cut)
  BY DEF BInv, LineInv
<1>3. Rising(txBuffer) /\ txBuffer \in Speech /\ \A y \in Range(txBuffer) : Cut < y
  BY BufferIsLast
<1>4. Underway = u
  BY DEF Underway, Unread
<1>5. one \in Speech /\ Rising(one) /\ Range(one) = {lastPlayed}
  <2>1. one \in Speech /\ Len(one) = 1 /\ one[1] = lastPlayed
    BY <1>1 DEF Speech
  <2>2. Range(one) = {one[i] : i \in 1 .. Len(one)}
    BY <2>1, RangeEquality DEF Speech
  <2> QED
    BY <2>1, <2>2 DEF Rising
<1> HIDE DEF w, q, one
<1>6. a \in Speech /\ Rising(a) /\ Range(a) = Range(Unread) \cup Range(w)
  BY <1>1, <1>2, Pieces DEF InLine
<1> HIDE DEF a
<1>7. b \in Speech /\ Rising(b) /\ Range(b) = Range(a) \cup Range(q)
  <2>1. Below(a, q)
    BY <1>2, <1>6 DEF InLine, Below
  <2> QED
    BY <1>1, <1>2, <1>6, <2>1, Pieces DEF InLine
<1> HIDE DEF b
<1>8. \A y \in Range(b) : y \in Nat /\ lastPlayed < y /\ y <= Cut
  BY <1>2, <1>6, <1>7, SpeechIsNat DEF InLine
<1>9. \A y \in Range(txBuffer) : y \in Nat /\ lastPlayed < y /\ Cut < y
  <2>1. \A y \in Range(txBuffer) : y \in Nat
    BY <1>3, SpeechIsNat
  <2>2. lastPlayed <= Cut
    BY <1>2 DEF InLine
  <2> QED
    BY <1>1, <1>3, <2>1, <2>2
<1>10. u \in Speech /\ Rising(u) /\ Range(u) = Range(b) \cup Range(txBuffer)
  <2>1. Below(b, txBuffer)
    BY <1>1, <1>8, <1>9 DEF Below
  <2> QED
    BY <1>3, <1>7, <2>1, Pieces
<1> HIDE DEF u
<1>11. one \o u \in Speech /\ Rising(one \o u)
  <2>1. Below(one, u)
    BY <1>5, <1>8, <1>9, <1>10 DEF Below
  <2> QED
    BY <1>5, <1>10, <2>1, Pieces
<1> DEFINE s == one \o u
<1>12. s = <<lastPlayed>> \o Underway
  BY <1>4 DEF one
<1>13. s \in Speech /\ Rising(s)
  BY <1>11
<1> HIDE DEF s
<1>14. ASSUME NEW i \in 1 .. Len(s) - 1 PROVE s[i] < s[i + 1]
  <2>1. Len(s) \in Nat
    BY <1>13 DEF Speech
  <2>2. PICK j \in 1 .. Len(s) : j = i + 1
    BY <2>1
  <2>3. i \in 1 .. Len(s) /\ i < j
    BY <2>1, <2>2
  <2> QED
    BY <1>13, <2>2, <2>3 DEF Rising
<1> QED
  BY <1>12, <1>14 DEF SpeechStaysInOrder

\* The bot's part of the line ends with the newest unit.
LEMMA NewestFollows ==
  ASSUME BInv PROVE NewestIsKept
<1> DEFINE q == FlattenSeq(txQueue)
           s == q \o txBuffer
<1>1. /\ q \in Speech /\ txBuffer \in Speech /\ pushed \in Nat
      /\ Len(txBuffer) \in Nat /\ Cut \in Nat
  BY LineTypes DEF BInv, BridgeTypes
<1>2. PICK c \in Nat : c = Cut /\ c + Len(txBuffer) = pushed
  <2>1. Cut + Len(txBuffer) = pushed
    BY <1>1 DEF Cut
  <2> QED
    BY <1>1, <2>1
<1>3. Close(q) /\ (q # <<>> => q[Len(q)] = c)
  BY <1>2 DEF BInv, QueueInv
<1>4. PICK e \in Nat : e = 0 /\ e < Gap
  BY GapBounds
<1>5. \A i \in 1 .. Len(txBuffer) : txBuffer[i] = c + e + i
  <2>1. \A i \in 1 .. Len(txBuffer) : txBuffer[i] = c + i /\ c + i = c + e + i
    BY <1>2, <1>4 DEF BInv, BufferInv
  <2> QED
    BY <2>1
<1> HIDE DEF q
<1>6. Close(s) /\ (s # <<>> => s[Len(s)] = c + Len(txBuffer))
  <2>1. Close(q \o txBuffer)
        /\ (q \o txBuffer # <<>> => (q \o txBuffer)[Len(q \o txBuffer)] = c + e + Len(txBuffer))
    BY <1>1, <1>3, <1>4, <1>5, QueueGrows
  <2>2. c + e + Len(txBuffer) = c + Len(txBuffer)
    BY <1>1, <1>4
  <2> QED
    BY <2>1, <2>2
<1>7. s # <<>> => Last(s) = pushed
  BY <1>1, <1>2, <1>6 DEF Last
<1>8. \A i \in 1 .. Len(s) - 1 :
        s[i + 1] - s[i] <= 1 + Max({0, Max(ChunkSizes) + FrameUnits - 1 - MaxTxBuffer})
  <2> HIDE DEF s
  <2> QED
    BY <1>6 DEF Close, Gap
<1>9. s = FlattenSeq(txQueue) \o txBuffer
  BY DEF q
<1> HIDE DEF s
<1> QED
  BY <1>7, <1>8, <1>9 DEF NewestIsKept

\* No piece of speech is played twice or after a later one, whatever the cap
\* cuts off, the page drops or a socket loses.
THEOREM SpeechOrder == Spec => []SpeechStaysInOrder
BY BridgeInvariant, OrderFollows, PTL

\* The page lags by less than a frame more than the threshold, and its sample
\* counter agrees with what it holds.
THEOREM LagIsBounded == Spec => []PageLagIsBounded
<1>1. BInv => PageLagIsBounded
  <2> SUFFICES ASSUME BInv PROVE PageLagIsBounded
    OBVIOUS
  <2>1. /\ Len(FlattenSeq(jitter)) \in Nat /\ readOffset \in Nat
        /\ FrameUnits \in Nat /\ DropThreshold \in Nat
    BY LineTypes, BridgeAssumption DEF Speech
  <2> QED
    BY <2>1 DEF BInv, LagInv, PageLagIsBounded
<1> QED
  BY BridgeInvariant, <1>1, PTL

\* What waits in the bot ends with the newest speech, and has no holes but what
\* one push has more than the cap.
THEOREM NewestSpeech == Spec => []NewestIsKept
BY BridgeInvariant, NewestFollows, PTL
=============================================================================
