-------------------------- MODULE OrchestratorProofs --------------------------
(***************************************************************************)
(* A pipeline with batch turns speaks with one voice, stays cancelled once *)
(* it was barged into, and speaks only when it was granted the floor, for  *)
(* any configuration, any number of utterances and tasks, and stacks of    *)
(* any depth.                                                              *)
(***************************************************************************)
EXTENDS Orchestrator, SequenceTheorems, TLAPS

\* The types of all but the stacks.
DataOK ==
  /\ processing \in BOOLEAN /\ speaking \in BOOLEAN /\ cancelTts \in BOOLEAN
  /\ pendingSegment \subseteq Utterance /\ session \subseteq Utterance
  /\ handled \subseteq Utterance /\ run \subseteq Utterance
  /\ said \in 0 .. MaxUtterances
  /\ scheduled \in BOOLEAN /\ running \in BOOLEAN
  /\ setting \in Settings

TypeOK == DataOK /\ stack \in [Task -> Seq(Frame)]

\* BatchTurnsOnly of a configuration c.
Batch(c) == c.adapter = {} /\ c.proactive = "none"

\* The exception of a poll that rejected.
Throwing == {"throwing", "rejecting", "throwEnd", "ppThrowEnd"}

\* What is said of one frame: it was not barged into before it speaks, speaks a
\* reply only when granted, and is nowhere its configuration does not lead to.
FrameOK(c, f) ==
  /\ f.pc \in Sessions \cup {"asr", "floor", "ppFloor", "llm"} => ~f.barged
  /\ c.coordinated /\ f.pc \in {"llm", "speak", "say", "after", "pp"} => f.granted
  /\ f.pc \in Endings \ {"ppRelease"} => f.granted
  /\ ~c.coordinated => ~f.granted /\ f.pc \notin {"floor", "ppFloor", "ppRelease"} \cup Throwing
  /\ Batch(c) => f.pc \notin Sessions \cup {"openerLlm", "proactive"}

\* Where a frame is that has called another.
Calling == {"after", "afterVoice", "drain", "fellBack"}

StackOK(c, s) ==
  /\ \A i \in 1 .. Len(s) : FrameOK(c, s[i])
  /\ \A i \in 2 .. Len(s) : s[i].pc \in Calling

StacksOK == \A t \in Task : StackOK(setting, stack[t])

\* One frame of one task has the floor.
Holding(f) == f.granted /\ f.pc \notin {"fellBack", "ppClosing", "ppThrowEnd"}

FloorInv ==
  \A t, u \in Task : \A i \in 1 .. Len(stack[t]), j \in 1 .. Len(stack[u]) :
    Holding(stack[t][i]) /\ Holding(stack[u][j]) => t = u /\ i = j

\* Without a coordinator only the flags keep turns apart: there is one task, and
\* where it waits one of them is up.
Alone == Batch(setting) /\ ~Coordinated

SingleTask == Alone => \A t, u \in Task : stack[t] # <<>> /\ stack[u] # <<>> => t = u

Covered(pc, up, on) ==
  /\ pc = "asr" => up
  /\ pc = "llm" => up \/ on
  /\ pc \in Voices => on

CoverInv ==
  Alone => \A t \in Task : stack[t] # <<>> => Covered(Top(t).pc, processing, speaking)

\* Batch turns have no streaming session.
BatchInv == Batch(setting) => session = {} /\ handled = {} /\ ~scheduled

\* Speech that was barged into is cancelled.
BargeInv == Batch(setting) => \A t \in Task : Speaks(t) /\ Top(t).barged => cancelTts

\* The inductive invariant: the frames explain who has the floor and, without a
\* coordinator, the flags do, so that no other frame speaks when a reply begins
\* and puts cancelTts back.
OInv ==
  /\ TypeOK
  /\ StacksOK
  /\ FloorInv
  /\ SingleTask
  /\ CoverInv
  /\ BatchInv
  /\ BargeInv

----------------------------------------------------------------------------
(* Frames and stacks                                                       *)

\* A frame on top of a stack.
LEMMA PushFrame ==
  ASSUME NEW s \in Seq(Frame), NEW f \in Frame
  PROVE  /\ <<f>> \o s \in Seq(Frame) /\ <<f>> \o s # <<>>
         /\ Len(<<f>> \o s) = Len(s) + 1
         /\ (<<f>> \o s)[1] = f /\ Head(<<f>> \o s) = f
         /\ \A i \in 2 .. Len(s) + 1 : (<<f>> \o s)[i] = s[i - 1]
<1>1. <<f>> \in Seq(Frame) /\ Len(<<f>>) = 1 /\ <<f>>[1] = f
  OBVIOUS
<1>2. <<f>> \o s \in Seq(Frame) /\ Len(<<f>> \o s) = 1 + Len(s)
  BY <1>1, ConcatProperties
<1>3. \A i \in 1 .. 1 + Len(s) : (<<f>> \o s)[i] = IF i <= 1 THEN <<f>>[i] ELSE s[i - 1]
  BY <1>1, ConcatProperties
<1>4. Len(s) \in Nat
  OBVIOUS
<1> QED
  BY <1>1, <1>2, <1>3, <1>4

\* A stack without its top.
LEMMA PopFrame ==
  ASSUME NEW s \in Seq(Frame), s # <<>>
  PROVE  /\ Tail(s) \in Seq(Frame) /\ Head(s) = s[1] /\ s[1] \in Frame
         /\ Len(s) \in Nat \ {0} /\ Len(Tail(s)) = Len(s) - 1
         /\ \A i \in 1 .. Len(s) - 1 : Tail(s)[i] = s[i + 1]
  BY HeadTailProperties, EmptySeq

\* Two frames, one on top of the other.
LEMMA TwoFrames ==
  ASSUME NEW S, NEW x \in S, NEW y \in S
  PROVE  <<x, y>> = <<x>> \o <<y>>
<1>1. <<x>> \in Seq(S) /\ <<y>> \in Seq(S) /\ <<x, y>> \in Seq(S)
  OBVIOUS
<1>2. Len(<<x>>) = 1 /\ Len(<<y>>) = 1 /\ Len(<<x, y>>) = 2
  OBVIOUS
<1>3. /\ <<x>> \o <<y>> \in Seq(S) /\ Len(<<x>> \o <<y>>) = 2
      /\ (<<x>> \o <<y>>)[1] = <<x>>[1] /\ (<<x>> \o <<y>>)[2] = <<y>>[1]
  BY <1>1, <1>2, ConcatProperties
<1>4. <<x, y>>[1] = x /\ <<x, y>>[2] = y /\ <<x>>[1] = x /\ <<y>>[1] = y
  OBVIOUS
<1>5. \A i \in 1 .. Len(<<x, y>>) : <<x, y>>[i] = (<<x>> \o <<y>>)[i]
  BY <1>2, <1>3, <1>4
<1> DEFINE a == <<x, y>>
           b == <<x>> \o <<y>>
<1>6. a \in Seq(S) /\ b \in Seq(S) /\ Len(a) = Len(b) /\ \A i \in 1 .. Len(a) : a[i] = b[i]
  BY <1>1, <1>2, <1>3, <1>5
<1> HIDE DEF a, b
<1>7. a = b
  BY <1>6, SeqEqual
<1> QED
  BY <1>7 DEF a, b

\* A good frame on top of a stack whose top has called it.
LEMMA PushOK ==
  ASSUME NEW c, NEW s \in Seq(Frame), NEW f \in Frame, StackOK(c, s), FrameOK(c, f),
         s # <<>> => Head(s).pc \in Calling
  PROVE  StackOK(c, <<f>> \o s)
<1> DEFINE r == <<f>> \o s
<1>1. /\ Len(r) = Len(s) + 1 /\ r[1] = f /\ Len(s) \in Nat
      /\ \A i \in 2 .. Len(s) + 1 : r[i] = s[i - 1]
  BY PushFrame
<1>2. \A i \in 1 .. Len(s) : FrameOK(c, s[i]) /\ s[i].pc \in (IF i = 1 THEN {s[1].pc} ELSE Calling)
  BY DEF StackOK
<1>3. Len(s) > 0 => s[1].pc \in Calling
  BY PopFrame
<1> HIDE DEF r
<1>4. ASSUME NEW i \in 1 .. Len(r) PROVE FrameOK(c, r[i])
  <2>1. CASE i = 1
    BY <1>1, <2>1
  <2>2. CASE i # 1
    <3>1. i - 1 \in 1 .. Len(s) /\ r[i] = s[i - 1]
      BY <1>1, <2>2
    <3> QED
      BY <1>2, <3>1
  <2> QED
    BY <2>1, <2>2
<1>5. ASSUME NEW i \in 2 .. Len(r) PROVE r[i].pc \in Calling
  <2>1. i - 1 \in 1 .. Len(s) /\ r[i] = s[i - 1]
    BY <1>1
  <2> QED
    BY <1>2, <1>3, <2>1
<1>6. StackOK(c, r)
  BY <1>4, <1>5 DEF StackOK
<1> QED
  BY <1>6 DEF r

\* What a return uncovers is good, and has called.
LEMMA PopOK ==
  ASSUME NEW c, NEW s \in Seq(Frame), s # <<>>, StackOK(c, s)
  PROVE  StackOK(c, Tail(s)) /\ (Tail(s) # <<>> => Head(Tail(s)).pc \in Calling)
<1> DEFINE r == Tail(s)
<1>1. /\ r \in Seq(Frame) /\ Len(s) \in Nat \ {0} /\ Len(r) = Len(s) - 1
      /\ \A i \in 1 .. Len(s) - 1 : r[i] = s[i + 1]
  BY PopFrame
<1>2. r # <<>> => Head(r) = r[1] /\ Len(r) > 0
  BY <1>1, PopFrame
<1> HIDE DEF r
<1>3. ASSUME NEW i \in 1 .. Len(r) PROVE FrameOK(c, r[i]) /\ r[i].pc \in Calling
  <2>1. i + 1 \in 1 .. Len(s) /\ i + 1 \in 2 .. Len(s) /\ r[i] = s[i + 1]
    BY <1>1
  <2> QED
    BY <2>1 DEF StackOK
<1>4. StackOK(c, r)
  BY <1>1, <1>3 DEF StackOK
<1>5. r # <<>> => Head(r).pc \in Calling
  BY <1>1, <1>2, <1>3
<1> QED
  BY <1>4, <1>5 DEF r

----------------------------------------------------------------------------
(* A step that changes one stack                                           *)

\* Nobody has the floor, said of the stacks.
LEMMA NobodyHolds ==
  ASSUME ~HoldsFloor, NEW t \in Task, NEW i \in 1 .. Len(stack[t]), stack[t] \in Seq(Frame)
  PROVE  ~Holding(stack[t][i])
<1>1. <<t, i>> \in Frames
  BY DEF Frames
<1> QED
  BY <1>1 DEF HoldsFloor, FrameOf, Holding

\* In batch turns a task one of whose frames has the floor, or that runs while
\* nobody has it, is the only one that can be speaking.
LEMMA OthersSilent ==
  ASSUME OInv, Batch(setting), NEW t \in Task, stack[t] # <<>>,
         Coordinated => (\E i \in 1 .. Len(stack[t]) : Holding(stack[t][i])) \/ ~HoldsFloor
  PROVE  \A u \in Task \ {t} : ~Speaks(u)
<1> SUFFICES ASSUME NEW u \in Task \ {t}, Speaks(u) PROVE FALSE
  OBVIOUS
<1>1. /\ stack[t] \in Seq(Frame) /\ stack[u] \in Seq(Frame)
      /\ stack[u] # <<>> /\ Top(u).pc \in Voices
  BY DEF OInv, TypeOK, Speaks, At
<1>2. CASE ~Coordinated
  BY <1>1, <1>2 DEF OInv, SingleTask, Alone
<1>3. CASE Coordinated
  <2>1. 1 \in 1 .. Len(stack[u]) /\ Top(u) = stack[u][1]
    BY <1>1, PopFrame DEF Top
  <2>2. FrameOK(setting, Top(u))
    BY <2>1 DEF OInv, StacksOK, StackOK
  <2>3. Top(u).pc \in {"speak", "say", "pp"}
    BY <1>1, <1>3, <2>2 DEF FrameOK, Voices, Coordinated, Sessions
  <2>4. Holding(Top(u))
    BY <1>3, <2>2, <2>3 DEF FrameOK, Holding, Coordinated
  <2>5. PICK i \in 1 .. Len(stack[t]) : Holding(stack[t][i])
    BY <1>1, <1>3, <2>1, <2>4, NobodyHolds
  <2> QED
    BY <2>1, <2>4, <2>5 DEF OInv, FloorInv
<1> QED
  BY <1>2, <1>3

\* What has to be shown of a step of task t that leaves s as its stack: the new
\* stack is good; who has the floor in it had it before, d frames further down,
\* or its top gets it when nobody had; without a coordinator no second task
\* comes in and the flags cover the top; and cancelTts is put back only where no
\* other task speaks.
LEMMA TaskMoves ==
  ASSUME OInv, NEW t \in Task, NEW s \in Seq(Frame),
         stack' = [stack EXCEPT ![t] = s], setting' = setting,
         DataOK', BatchInv',
         StackOK(setting, s),
         \/ \E d \in {-1, 0, 1} : \A i \in 1 .. Len(s) :
              Holding(s[i]) => i + d \in 1 .. Len(stack[t]) /\ Holding(stack[t][i + d])
         \/ ~HoldsFloor /\ \A i \in 1 .. Len(s) : Holding(s[i]) => i = 1,
         Alone => stack[t] # <<>> \/ \A u \in Task : stack[u] = <<>>,
         Alone /\ s # <<>> => Covered(Head(s).pc, processing', speaking'),
         Batch(setting) /\ s # <<>> /\ Head(s).pc \in Voices /\ Head(s).barged => cancelTts',
         cancelTts' = cancelTts \/ (Batch(setting) => \A u \in Task \ {t} : ~Speaks(u))
  PROVE  OInv'
<1>1. /\ stack' \in [Task -> Seq(Frame)] /\ stack'[t] = s
      /\ \A u \in Task \ {t} : stack'[u] = stack[u]
  BY DEF OInv, TypeOK
<1>2. TypeOK'
  BY <1>1 DEF TypeOK
<1>3. StacksOK'
  BY <1>1 DEF OInv, StacksOK
<1>4. FloorInv'
  <2> SUFFICES ASSUME NEW u \in Task, NEW v \in Task,
                      NEW i \in 1 .. Len(stack'[u]), NEW j \in 1 .. Len(stack'[v]),
                      Holding(stack'[u][i]), Holding(stack'[v][j])
               PROVE  u = v /\ i = j
    BY DEF FloorInv, Holding
  <2>1. CASE \E d \in {-1, 0, 1} : \A k \in 1 .. Len(s) :
               Holding(s[k]) => k + d \in 1 .. Len(stack[t]) /\ Holding(stack[t][k + d])
    <3>1. PICK d \in {-1, 0, 1} : \A k \in 1 .. Len(s) :
               Holding(s[k]) => k + d \in 1 .. Len(stack[t]) /\ Holding(stack[t][k + d])
      BY <2>1
    <3>2. PICK m \in 1 .. Len(stack[u]) : Holding(stack[u][m]) /\ m = i + (IF u = t THEN d ELSE 0)
      BY <1>1, <3>1
    <3>3. PICK n \in 1 .. Len(stack[v]) : Holding(stack[v][n]) /\ n = j + (IF v = t THEN d ELSE 0)
      BY <1>1, <3>1
    <3>4. u = v /\ m = n
      BY <3>2, <3>3 DEF OInv, FloorInv
    <3>5. i \in Int /\ j \in Int /\ d \in Int
      BY <1>1
    <3> QED
      BY <3>2, <3>3, <3>4, <3>5
  <2>2. CASE ~HoldsFloor /\ \A k \in 1 .. Len(s) : Holding(s[k]) => k = 1
    <3>1. \A w \in Task : stack[w] \in Seq(Frame)
      BY DEF OInv, TypeOK
    <3>2. u = t /\ v = t
      BY <1>1, <2>2, <3>1, NobodyHolds
    <3> QED
      BY <1>1, <2>2, <3>2
  <2> QED
    BY <2>1, <2>2
<1>5. SingleTask'
  BY <1>1 DEF OInv, SingleTask, Alone, Coordinated
<1>6. CoverInv'
  <2> SUFFICES ASSUME Alone', NEW u \in Task, stack'[u] # <<>>
               PROVE  Covered(Head(stack'[u]).pc, processing', speaking')
    BY DEF CoverInv, Top
  <2>1. Alone
    BY DEF Alone, Coordinated
  <2>2. u = t
    BY <1>1, <2>1 DEF OInv, SingleTask
  <2> QED
    BY <1>1, <2>1, <2>2
<1>7. BargeInv'
  <2> SUFFICES ASSUME Batch(setting), NEW u \in Task, stack'[u] # <<>>, Head(stack'[u]).pc \in Voices,
                      Head(stack'[u]).barged
               PROVE  cancelTts'
    BY DEF BargeInv, Speaks, At, Top
  <2>1. CASE u = t
    BY <1>1, <2>1
  <2>2. CASE u # t
    <3>1. Speaks(u) /\ Top(u).barged
      BY <1>1, <2>2 DEF Speaks, At, Top
    <3> QED
      BY <2>2, <3>1 DEF OInv, BargeInv
  <2> QED
    BY <2>1, <2>2
<1> QED
  BY <1>2, <1>3, <1>4, <1>5, <1>6, <1>7 DEF OInv

\* The top frame goes on, as f.
LEMMA ContinueKeepsOInv ==
  ASSUME OInv, NEW t \in Task, stack[t] # <<>>, NEW f \in Frame, Continue(t, f), setting' = setting,
         DataOK', BatchInv',
         FrameOK(setting, f),
         Holding(f) => Holding(Top(t)) \/ ~HoldsFloor,
         Alone => Covered(f.pc, processing', speaking'),
         Batch(setting) /\ f.pc \in Voices /\ f.barged => cancelTts',
         cancelTts' = cancelTts \/ (Batch(setting) => \A u \in Task \ {t} : ~Speaks(u))
  PROVE  OInv'
<1> DEFINE rest == Tail(stack[t])
           s == <<f>> \o rest
<1>1. stack[t] \in Seq(Frame) /\ StackOK(setting, stack[t])
  BY DEF OInv, TypeOK, StacksOK
<1>2. /\ rest \in Seq(Frame) /\ Top(t) = stack[t][1] /\ Len(stack[t]) \in Nat \ {0}
      /\ Len(rest) = Len(stack[t]) - 1
      /\ \A i \in 1 .. Len(stack[t]) - 1 : rest[i] = stack[t][i + 1]
  BY <1>1, PopFrame DEF Top
<1>3. StackOK(setting, rest) /\ (rest # <<>> => Head(rest).pc \in Calling)
  BY <1>1, PopOK
<1> HIDE DEF rest
<1>4. StackOK(setting, s)
  BY <1>2, <1>3, PushOK
<1>5. /\ s \in Seq(Frame) /\ s # <<>> /\ Head(s) = f /\ s[1] = f
      /\ Len(s) = Len(rest) + 1
      /\ \A i \in 2 .. Len(rest) + 1 : s[i] = rest[i - 1]
  BY <1>2, PushFrame
<1>6. stack' = [stack EXCEPT ![t] = s]
  BY DEF Continue, rest
<1> HIDE DEF s
<1>7. Len(s) = Len(stack[t]) /\ \A i \in 2 .. Len(s) : s[i] = stack[t][i]
  <2>1. Len(s) = Len(stack[t])
    BY <1>2, <1>5
  <2>2. ASSUME NEW i \in 2 .. Len(s) PROVE s[i] = stack[t][i]
    <3>1. i - 1 \in 1 .. Len(stack[t]) - 1 /\ i \in 2 .. Len(rest) + 1 /\ (i - 1) + 1 = i
      BY <1>2, <2>1
    <3> QED
      BY <1>2, <1>5, <3>1
  <2> QED
    BY <2>1, <2>2
<1>8. CASE Holding(f) => Holding(Top(t))
  <2>1. ASSUME NEW i \in 1 .. Len(s), Holding(s[i])
        PROVE  i + 0 \in 1 .. Len(stack[t]) /\ Holding(stack[t][i + 0])
    <3>1. i + 0 = i /\ i \in 1 .. Len(stack[t])
      BY <1>7
    <3>2. Holding(stack[t][i])
      BY <1>2, <1>5, <1>7, <1>8, <2>1
    <3> QED
      BY <3>1, <3>2
  <2>2. \E d \in {-1, 0, 1} : \A i \in 1 .. Len(s) :
              Holding(s[i]) => i + d \in 1 .. Len(stack[t]) /\ Holding(stack[t][i + d])
    BY <2>1
  <2> QED
    BY <1>4, <1>5, <1>6, <2>2, TaskMoves
<1>9. CASE ~HoldsFloor
  <2>1. ASSUME NEW i \in 1 .. Len(s), Holding(s[i]) PROVE i = 1
    BY <1>1, <1>7, <1>9, <2>1, NobodyHolds
  <2> QED
    BY <1>4, <1>5, <1>6, <1>9, <2>1, TaskMoves
<1> QED
  BY <1>8, <1>9

\* The top frame, which may call, calls f; or a task begins with it.
LEMMA CallKeepsOInv ==
  ASSUME OInv, NEW t \in Task, NEW f \in Frame, Call(t, f), setting' = setting,
         DataOK', BatchInv',
         FrameOK(setting, f), ~Holding(f), ~f.barged,
         stack[t] # <<>> => Top(t).pc \in Calling,
         Alone => Covered(f.pc, processing', speaking'),
         Alone => stack[t] # <<>> \/ \A u \in Task : stack[u] = <<>>,
         cancelTts' = cancelTts \/ ~Batch(setting)
  PROVE  OInv'
<1> DEFINE s == <<f>> \o stack[t]
<1>1. stack[t] \in Seq(Frame) /\ StackOK(setting, stack[t])
  BY DEF OInv, TypeOK, StacksOK
<1>2. StackOK(setting, s)
  BY <1>1, PushOK DEF Top
<1>3. /\ s \in Seq(Frame) /\ s # <<>> /\ Head(s) = f /\ s[1] = f
      /\ Len(s) = Len(stack[t]) + 1
      /\ \A i \in 2 .. Len(stack[t]) + 1 : s[i] = stack[t][i - 1]
  BY <1>1, PushFrame
<1>4. stack' = [stack EXCEPT ![t] = s]
  BY DEF Call
<1>5. Len(stack[t]) \in Nat
  BY <1>1
<1> HIDE DEF s
<1>6. ASSUME NEW i \in 1 .. Len(s), Holding(s[i])
      PROVE  i + (-1) \in 1 .. Len(stack[t]) /\ Holding(stack[t][i + (-1)])
  <2>1. i # 1 /\ i \in 2 .. Len(stack[t]) + 1
    BY <1>3, <1>5, <1>6
  <2>2. i + (-1) = i - 1 /\ i - 1 \in 1 .. Len(stack[t])
    BY <1>5, <2>1
  <2> QED
    BY <1>3, <1>6, <2>1, <2>2
<1>7. \E d \in {-1, 0, 1} : \A i \in 1 .. Len(s) :
              Holding(s[i]) => i + d \in 1 .. Len(stack[t]) /\ Holding(stack[t][i + d])
  BY <1>6
<1> QED
  BY <1>2, <1>3, <1>4, <1>7, TaskMoves

\* The top frame returns.
LEMMA ReturnKeepsOInv ==
  ASSUME OInv, NEW t \in Task, stack[t] # <<>>, Return(t), setting' = setting,
         DataOK', BatchInv', cancelTts' = cancelTts
  PROVE  OInv'
<1> DEFINE s == Tail(stack[t])
<1>1. stack[t] \in Seq(Frame) /\ StackOK(setting, stack[t])
  BY DEF OInv, TypeOK, StacksOK
<1>2. /\ s \in Seq(Frame) /\ Len(stack[t]) \in Nat \ {0} /\ Len(s) = Len(stack[t]) - 1
      /\ \A i \in 1 .. Len(stack[t]) - 1 : s[i] = stack[t][i + 1]
  BY <1>1, PopFrame
<1>3. StackOK(setting, s) /\ (s # <<>> => Head(s).pc \in Calling)
  BY <1>1, PopOK
<1>4. stack' = [stack EXCEPT ![t] = s]
  BY DEF Return
<1> HIDE DEF s
<1>5. ASSUME NEW i \in 1 .. Len(s), Holding(s[i])
      PROVE  i + 1 \in 1 .. Len(stack[t]) /\ Holding(stack[t][i + 1])
  BY <1>2, <1>5
<1>6. \E d \in {-1, 0, 1} : \A i \in 1 .. Len(s) :
              Holding(s[i]) => i + d \in 1 .. Len(stack[t]) /\ Holding(stack[t][i + d])
  BY <1>5
<1>7. s # <<>> => /\ Head(s).pc \notin Voices
                  /\ Covered(Head(s).pc, processing', speaking')
  BY <1>3 DEF Calling, Voices, Covered
<1> QED
  BY <1>2, <1>3, <1>4, <1>6, <1>7, TaskMoves

\* Every task's top that speaks is barged into, and cancelTts is set; or no
\* stack changes.
LEMMA BargeInKeepsOInv ==
  ASSUME OInv, DataOK', BatchInv', UNCHANGED <<processing, speaking, setting>>,
         BargeIn \/ UNCHANGED <<cancelTts, stack>>
  PROVE  OInv'
<1>1. CASE UNCHANGED <<cancelTts, stack>>
  BY <1>1 DEF OInv, TypeOK, StacksOK, FloorInv, SingleTask, CoverInv, BargeInv, Alone, Coordinated,
              Speaks, At, Top
<1>2. CASE BargeIn
  <2>1. ASSUME NEW t \in Task
        PROVE  /\ stack'[t] \in Seq(Frame) /\ Len(stack'[t]) = Len(stack[t])
               /\ stack'[t] = <<>> <=> stack[t] = <<>>
               /\ stack[t] # <<>> => Head(stack'[t]).pc = Top(t).pc
               /\ StackOK(setting, stack'[t])
               /\ \A i \in 1 .. Len(stack[t]) : Holding(stack'[t][i]) => Holding(stack[t][i])
    <3> DEFINE f == [Top(t) EXCEPT !.barged = TRUE]
               s == <<f>> \o Tail(stack[t])
    <3>1. stack[t] \in Seq(Frame) /\ StackOK(setting, stack[t])
      BY DEF OInv, TypeOK, StacksOK
    <3>2. CASE ~At(t, Voices)
      <4>1. stack'[t] = stack[t]
        BY <1>2, <3>2 DEF BargeIn
      <4> QED
        BY <3>1, <4>1 DEF Top
    <3>3. CASE At(t, Voices)
      <4>1. stack'[t] = s /\ stack[t] # <<>>
        BY <1>2, <3>3 DEF BargeIn, At
      <4>2. /\ Tail(stack[t]) \in Seq(Frame) /\ Top(t) = stack[t][1] /\ Top(t) \in Frame
            /\ Len(stack[t]) \in Nat \ {0} /\ Len(Tail(stack[t])) = Len(stack[t]) - 1
            /\ \A i \in 1 .. Len(stack[t]) - 1 : Tail(stack[t])[i] = stack[t][i + 1]
        BY <3>1, <4>1, PopFrame DEF Top
      <4>3. f \in Frame /\ f.pc = Top(t).pc /\ f.granted = Top(t).granted
        BY <4>2 DEF Frame
      <4>4. FrameOK(setting, Top(t)) /\ Top(t).pc \in Voices
        BY <3>1, <3>3, <4>2 DEF StackOK, At
      <4>5. FrameOK(setting, f)
        BY <4>3, <4>4 DEF FrameOK, Voices, Sessions
      <4> HIDE DEF f
      <4>6. StackOK(setting, s)
        BY <3>1, <4>1, <4>2, <4>3, <4>5, PopOK, PushOK
      <4>7. /\ s \in Seq(Frame) /\ s # <<>> /\ Head(s) = f /\ s[1] = f
            /\ Len(s) = Len(Tail(stack[t])) + 1
            /\ \A i \in 2 .. Len(Tail(stack[t])) + 1 : s[i] = Tail(stack[t])[i - 1]
        BY <4>2, <4>3, PushFrame
      <4> HIDE DEF s
      <4>8. Len(s) = Len(stack[t]) /\ \A i \in 2 .. Len(stack[t]) : s[i] = stack[t][i]
        BY <4>2, <4>7
      <4>9. \A i \in 1 .. Len(stack[t]) : Holding(s[i]) => Holding(stack[t][i])
        BY <4>2, <4>3, <4>7, <4>8 DEF Holding
      <4> QED
        BY <4>1, <4>3, <4>6, <4>7, <4>8, <4>9
    <3> QED
      BY <3>2, <3>3
  <2>2. TypeOK'
    <3>1. stack' = [t \in Task |-> stack'[t]]
      BY <1>2 DEF BargeIn
    <3> QED
      BY <2>1, <3>1 DEF TypeOK
  <2>3. StacksOK' /\ SingleTask'
    BY <2>1 DEF OInv, StacksOK, SingleTask, Alone, Coordinated
  <2>4. FloorInv'
    BY <2>1 DEF OInv, FloorInv, Holding
  <2>5. CoverInv'
    BY <2>1 DEF OInv, CoverInv, Alone, Coordinated, Top
  <2>6. BargeInv'
    BY <1>2 DEF BargeIn, BargeInv
  <2> QED
    BY <2>2, <2>3, <2>4, <2>5, <2>6 DEF OInv
<1> QED
  BY <1>1, <1>2

----------------------------------------------------------------------------
(* The user and VAD                                                        *)

\* A new frame.
LEMMA NewFrame ==
  ASSUME NEW pc \in Pc, NEW seg \in SUBSET Utterance, NEW text \in SUBSET Utterance
  PROVE  /\ FrameAt(pc, seg, text) \in Frame
         /\ FrameAt(pc, seg, text).pc = pc
         /\ ~FrameAt(pc, seg, text).granted /\ ~FrameAt(pc, seg, text).barged
  BY DEF FrameAt, Frame

\* While neither flag is up and nothing goes on by itself, no batch turn is under
\* way without a coordinator.
LEMMA NoTurnUncovered ==
  ASSUME OInv, Alone, Quiet, ~processing, ~speaking
  PROVE  \A u \in Task : stack[u] = <<>>
<1> SUFFICES ASSUME NEW u \in Task, stack[u] # <<>> PROVE FALSE
  OBVIOUS
<1>1. Top(u) = stack[u][1] /\ Top(u) \in Frame /\ 1 \in 1 .. Len(stack[u])
  BY PopFrame DEF OInv, TypeOK, Top
<1>2. FrameOK(setting, Top(u)) /\ Covered(Top(u).pc, processing, speaking)
  BY <1>1 DEF OInv, StacksOK, StackOK, CoverInv
<1>3. Top(u).pc \in Pc /\ Top(u).pc \notin Unwinding
  BY <1>1 DEF Frame, Quiet, At
<1>4. Top(u).pc \notin {"asr", "llm"} \cup Voices
  BY <1>2 DEF Covered
<1>5. Top(u).pc \notin Sessions \cup {"floor", "ppFloor", "ppRelease", "openerLlm"} \cup Endings
  BY <1>2 DEF FrameOK, Alone, Coordinated, Endings, Throwing
<1> QED
  BY <1>3, <1>4, <1>5 DEF Pc, Endings

\* A task that begins, without a streaming session or with one.
LEMMA SpawnKeepsOInv ==
  ASSUME OInv, NEW f \in Frame, Spawn(f), setting' = setting, DataOK', BatchInv',
         FrameOK(setting, f), ~f.granted, ~f.barged,
         Alone => /\ Covered(f.pc, processing', speaking')
                  /\ \A u \in Task : stack[u] = <<>>,
         cancelTts' = cancelTts \/ ~Batch(setting)
  PROVE  OInv'
<1>1. PICK t \in Task : stack[t] = <<>> /\ Call(t, f)
  BY DEF Spawn
<1> QED
  BY <1>1, CallKeepsOInv DEF Holding

\* The user speaks, is heard or not, and may barge in.
LEMMA UserKeepsOInv ==
  ASSUME OInv, UserSpeaks \/ UserGoesOn
  PROVE  OInv'
<1>1. CASE UserSpeaks
  <2>1. said' \in 0 .. MaxUtterances /\ said' \in Utterance
    BY <1>1, BoundsAssumption DEF UserSpeaks, OInv, TypeOK, DataOK, Utterance
  <2>2. CASE processing
    BY <1>1, <2>1, <2>2, BargeInKeepsOInv
       DEF UserSpeaks, flags, audio, OInv, TypeOK, DataOK, BatchInv
  <2>3. CASE ~processing
    <3>1. session' \in SessionsAfter(said') /\ run' = run \cup {said'}
      BY <1>1, <2>3 DEF UserSpeaks
    <3>2. session' \subseteq Utterance /\ run' \subseteq Utterance
      BY <2>1, <3>1 DEF SessionsAfter, OInv, TypeOK, DataOK
    <3>3. Batch(setting) => session' = {}
      BY <3>1 DEF SessionsAfter, OInv, BatchInv, Batch
    <3>4. /\ BargeIn \/ UNCHANGED <<cancelTts, stack>>
          /\ UNCHANGED <<processing, speaking, pendingSegment, handled, scheduled, running, setting>>
      BY <1>1, <2>3 DEF UserSpeaks, SpeechFrame
    <3>5. cancelTts' \in BOOLEAN
      BY <3>4 DEF BargeIn, OInv, TypeOK, DataOK
    <3>6. DataOK' /\ BatchInv'
      BY <2>1, <3>2, <3>3, <3>4, <3>5 DEF OInv, TypeOK, DataOK, BatchInv
    <3> QED
      BY <3>4, <3>6, BargeInKeepsOInv
  <2> QED
    BY <2>2, <2>3
<1>2. CASE UserGoesOn
  <2>1. /\ BargeIn \/ UNCHANGED <<cancelTts, stack>>
        /\ UNCHANGED <<processing, speaking, audio, said, scheduled, running, setting>>
    BY <1>2 DEF UserGoesOn, SpeechFrame
  <2>2. cancelTts' \in BOOLEAN
    BY <2>1 DEF BargeIn, OInv, TypeOK, DataOK
  <2>3. DataOK' /\ BatchInv'
    BY <2>1, <2>2 DEF audio, OInv, TypeOK, DataOK, BatchInv
  <2> QED
    BY <2>1, <2>3, BargeInKeepsOInv
<1> QED
  BY <1>1, <1>2

\* VAD hears the end of a turn: nothing, a segment to queue, a session to end, or
\* a batch turn.
LEMMA EndOfTurnKeepsOInv ==
  ASSUME OInv, EndOfTurn
  PROVE  OInv'
<1>1. UNCHANGED <<said, scheduled, running, setting>> /\ run' = {} /\ Quiet /\ ~processing
  BY DEF EndOfTurn
<1>2. CASE SkipHandled \/ QueueSegment
  <2>1. DataOK' /\ BatchInv' /\ UNCHANGED <<flags, stack>>
    BY <1>1, <1>2 DEF SkipHandled, QueueSegment, flags, OInv, TypeOK, DataOK, BatchInv
  <2> QED
    BY <1>1, <2>1, BargeInKeepsOInv DEF flags
<1>3. CASE EndSession
  <2>1. ~Batch(setting) /\ ~Alone
    BY <1>3 DEF EndSession, OInv, BatchInv, Alone
  <2>2. DataOK' /\ BatchInv' /\ UNCHANGED flags
    BY <1>1, <1>3 DEF EndSession, flags, OInv, TypeOK, DataOK, BatchInv
  <2> DEFINE g == FrameAt("sessionEnd", run, session)
             f == [g EXCEPT !.retry = TRUE]
  <2>3. f \in Frame /\ f.pc = "sessionEnd" /\ ~f.granted /\ ~f.barged
    <3>1. g \in Frame /\ g.pc = "sessionEnd" /\ ~g.granted /\ ~g.barged
      BY NewFrame DEF OInv, TypeOK, DataOK, Pc, Sessions
    <3> HIDE DEF g
    <3> QED
      BY <3>1 DEF Frame
  <2>4. Spawn(f)
    BY <1>3 DEF EndSession
  <2> HIDE DEF f
  <2>5. FrameOK(setting, f)
    BY <2>1, <2>3 DEF FrameOK, Endings, Throwing
  <2> QED
    BY <1>1, <2>1, <2>2, <2>3, <2>4, <2>5, SpawnKeepsOInv DEF flags
<1>4. CASE StartBatchTurn
  <2>1. DataOK' /\ BatchInv' /\ processing' = TRUE /\ UNCHANGED <<speaking, cancelTts>>
    BY <1>1, <1>4 DEF StartBatchTurn, OInv, TypeOK, DataOK, BatchInv
  <2> DEFINE f == FrameAt("asr", run, {})
  <2>2. f \in Frame /\ f.pc = "asr" /\ ~f.granted /\ ~f.barged
    BY NewFrame DEF OInv, TypeOK, DataOK, Pc
  <2>3. Spawn(f) /\ ~speaking
    BY <1>4 DEF StartBatchTurn
  <2> HIDE DEF f
  <2>4. FrameOK(setting, f)
    BY <2>2 DEF FrameOK, Sessions, Endings, Throwing
  <2>5. Alone => \A u \in Task : stack[u] = <<>>
    BY <1>1, <2>3, NoTurnUncovered
  <2>6. Covered(f.pc, processing', speaking')
    BY <2>1, <2>2 DEF Covered, Voices
  <2> QED
    BY <1>1, <2>1, <2>2, <2>3, <2>4, <2>5, <2>6, SpawnKeepsOInv
<1> QED
  BY <1>2, <1>3, <1>4 DEF EndOfTurn

\* A predicted end, and the timer of the greeting or opener: not with batch turns.
LEMMA EventKeepsOInv ==
  ASSUME OInv, PredictedEnd \/ TimerFires
  PROVE  OInv'
<1>1. ~Batch(setting) /\ ~Alone
  BY DEF PredictedEnd, TimerFires, OInv, BatchInv, Batch, Alone
<1>2. PICK pc \in Pc, text \in SUBSET Utterance : Spawn(FrameAt(pc, {}, text)) /\ pc \in {"eventEnd", "proactive", "openerLlm"}
  <2>1. CASE PredictedEnd
    BY <2>1 DEF PredictedEnd, OInv, TypeOK, DataOK, Pc, Sessions
  <2>2. CASE TimerFires
    BY <2>2 DEF TimerFires, Pc, Voices
  <2> QED
    BY <2>1, <2>2
<1>3. DataOK' /\ setting' = setting
  BY DEF PredictedEnd, TimerFires, SpeakText, flags, audio, OInv, TypeOK, DataOK
<1>4. BatchInv'
  BY <1>1, <1>3 DEF BatchInv
<1> DEFINE f == FrameAt(pc, {}, text)
<1>5. f \in Frame /\ f.pc \in {"eventEnd", "proactive", "openerLlm"} /\ ~f.granted /\ ~f.barged
  BY <1>2, NewFrame
<1>6. Spawn(f)
  BY <1>2
<1> HIDE DEF f
<1>7. FrameOK(setting, f)
  BY <1>1, <1>5 DEF FrameOK, Endings, Throwing
<1> QED
  BY <1>1, <1>3, <1>4, <1>5, <1>6, <1>7, SpawnKeepsOInv

----------------------------------------------------------------------------
(* The steps of a turn                                                     *)

\* What every task knows of the frame that runs.
LEMMA TopFrame ==
  ASSUME OInv, NEW t \in Task, stack[t] # <<>>
  PROVE  /\ Top(t) \in Frame
         /\ FrameOK(setting, Top(t))
         /\ Alone => Covered(Top(t).pc, processing, speaking)
<1>1. Top(t) = stack[t][1] /\ Top(t) \in Frame /\ 1 \in 1 .. Len(stack[t])
  BY PopFrame DEF OInv, TypeOK, Top
<1> QED
  BY <1>1 DEF OInv, StacksOK, StackOK, CoverInv

\* A frame that goes on elsewhere.
LEMMA MovedFrame ==
  ASSUME NEW g \in Frame, NEW pc \in Pc
  PROVE  LET f == [g EXCEPT !.pc = pc]
         IN  /\ f \in Frame /\ f.pc = pc /\ f.granted = g.granted /\ f.barged = g.barged
             /\ f.text = g.text /\ f.seg = g.seg
  BY DEF Frame

\* A step that leaves the audio alone.
LEMMA AudioKept ==
  ASSUME OInv, UNCHANGED <<audio, said, scheduled, running, setting>>,
         processing' \in BOOLEAN, speaking' \in BOOLEAN, cancelTts' \in BOOLEAN
  PROVE  DataOK' /\ BatchInv'
  BY DEF audio, OInv, TypeOK, DataOK, BatchInv

\* runTurnCore with the transcript of f: its end, the floor or the LLM.
LEMMA EnterCoreKeepsOInv ==
  ASSUME OInv, NEW t \in Task, stack[t] # <<>>, NEW f \in Frame, EnterCore(t, f),
         f.pc \in Sessions \cup {"asr"}, FrameOK(setting, f), f.granted = Top(t).granted,
         Top(t).pc = f.pc,
         DataOK', BatchInv', UNCHANGED <<cancelTts, setting>>, Alone => processing'
  PROVE  OInv'
<1>1. PICK pc \in {"done", "floor", "llm"} :
        Continue(t, [f EXCEPT !.pc = pc]) /\ (pc = "floor" => Coordinated) /\ (pc = "llm" => ~Coordinated)
  BY DEF EnterCore
<1> DEFINE g == [f EXCEPT !.pc = pc]
<1>2. g \in Frame /\ g.pc = pc /\ g.granted = f.granted /\ g.barged = f.barged
  BY <1>1, MovedFrame DEF Pc, Unwinding
<1>3. Continue(t, g)
  BY <1>1
<1> HIDE DEF g
<1>4. FrameOK(setting, g)
  BY <1>1, <1>2 DEF FrameOK, Coordinated, Sessions, Endings, Throwing
<1>5. Holding(g) => Holding(Top(t))
  BY <1>2 DEF Holding, Sessions
<1>6. (Alone => Covered(g.pc, processing', speaking')) /\ g.pc \notin Voices
  BY <1>1, <1>2 DEF Covered, Voices
<1> QED
  BY <1>2, <1>3, <1>4, <1>5, <1>6, ContinueKeepsOInv

\* pushAudio tries a batch turn, or the task ends: not with batch turns only, or
\* under a coordinator.
LEMMA TryBatchKeepsOInv ==
  ASSUME OInv, NEW t \in Task, stack[t] # <<>>, TryBatch(t), ~Alone,
         UNCHANGED <<speaking, cancelTts, audio, said, scheduled, running, setting>>
  PROVE  OInv'
<1>1. Top(t) \in Frame
  BY TopFrame
<1>2. processing' \in BOOLEAN
  BY DEF TryBatch, OInv, TypeOK, DataOK
<1>3. DataOK' /\ BatchInv'
  BY <1>2, AudioKept DEF OInv, TypeOK, DataOK
<1>4. CASE Return(t)
  BY <1>3, <1>4, ReturnKeepsOInv
<1>5. CASE Continue(t, FrameAt("asr", Top(t).seg, {}))
  <2> DEFINE f == FrameAt("asr", Top(t).seg, {})
  <2>1. f \in Frame /\ f.pc = "asr" /\ ~f.granted /\ ~f.barged
    <3>1. Top(t).seg \in SUBSET Utterance
      BY <1>1 DEF Frame
    <3>2. "asr" \in Pc /\ {} \in SUBSET Utterance
      BY DEF Pc
    <3> QED
      BY <3>1, <3>2, NewFrame
  <2>2. Continue(t, f)
    BY <1>5
  <2> HIDE DEF f
  <2>3. FrameOK(setting, f) /\ ~Holding(f) /\ f.pc \notin Voices
    BY <2>1 DEF FrameOK, Sessions, Holding, Endings, Throwing, Voices
  <2> QED
    BY <1>3, <2>1, <2>2, <2>3, ContinueKeepsOInv
<1> QED
  BY <1>4, <1>5 DEF TryBatch

\* A streaming session has ended, or failed.
LEMMA SessionKeepsOInv ==
  ASSUME OInv, NEW t \in Task, SessionEnded(t) \/ SessionFailed(t)
  PROVE  OInv'
<1>1. /\ stack[t] # <<>> /\ Top(t).pc \in Sessions
      /\ UNCHANGED <<speaking, cancelTts, audio, said, scheduled, running, setting>>
  BY DEF SessionEnded, SessionFailed, At
<1>2. Top(t) \in Frame /\ FrameOK(setting, Top(t))
  BY <1>1, TopFrame
<1>3. ~Batch(setting) /\ ~Alone
  BY <1>1, <1>2 DEF FrameOK, Alone
<1>4. CASE SessionFailed(t)
  BY <1>1, <1>3, <1>4, TryBatchKeepsOInv DEF SessionFailed
<1>5. CASE SessionEnded(t)
  <2>1. processing' \in BOOLEAN
    BY <1>5 DEF SessionEnded, OInv, TypeOK, DataOK
  <2>2. DataOK' /\ BatchInv'
    BY <1>1, <2>1, AudioKept DEF OInv, TypeOK, DataOK
  <2>3. CASE Return(t)
    BY <1>1, <2>2, <2>3, ReturnKeepsOInv
  <2>4. CASE EnterCore(t, Top(t))
    BY <1>1, <1>2, <1>3, <2>2, <2>4, EnterCoreKeepsOInv
  <2> QED
    BY <1>5, <2>3, <2>4 DEF SessionEnded
<1> QED
  BY <1>4, <1>5

\* PersonaPlex with what was transcribed: it asks for the floor, or speaks.
LEMMA EnterPersonaPlexKeepsOInv ==
  ASSUME OInv, NEW t \in Task, stack[t] # <<>>, Top(t).pc = "asr",
         setting.backend = "personaplex",
         NEW text \in SUBSET Utterance, EnterPersonaPlex(t, text),
         UNCHANGED <<audio, said, scheduled, running, setting>>
  PROVE  OInv'
<1> DEFINE f == [Top(t) EXCEPT !.text = text]
<1>1. Top(t) \in Frame /\ FrameOK(setting, Top(t)) /\ (Alone => Covered(Top(t).pc, processing, speaking))
  BY TopFrame
<1>2. f \in Frame /\ f.pc = "asr" /\ f.granted = Top(t).granted /\ f.barged = Top(t).barged
  BY <1>1 DEF Frame
<1>3. \/ Continue(t, [f EXCEPT !.pc = "done"]) /\ UNCHANGED flags
      \/ Coordinated /\ Continue(t, [f EXCEPT !.pc = "ppFloor"]) /\ UNCHANGED flags
      \/ ~Coordinated /\ Continue(t, [f EXCEPT !.pc = "pp"]) /\ BeginSpeech
  BY DEF EnterPersonaPlex
<1> HIDE DEF f
<1>4. ~f.barged
  BY <1>1, <1>2 DEF FrameOK
<1>5. CASE \E pc \in {"done", "ppFloor"} :
        /\ pc = "ppFloor" => Coordinated
        /\ Continue(t, [f EXCEPT !.pc = pc]) /\ UNCHANGED flags
  <2>0. PICK pc \in {"done", "ppFloor"} :
        /\ pc = "ppFloor" => Coordinated
        /\ Continue(t, [f EXCEPT !.pc = pc]) /\ UNCHANGED flags
    BY <1>5
  <2> DEFINE g == [f EXCEPT !.pc = pc]
  <2>1. g \in Frame /\ g.pc = pc /\ g.granted = f.granted /\ g.barged = f.barged
    BY <1>2, <2>0, MovedFrame DEF Pc, Unwinding
  <2>2. Continue(t, g)
    BY <2>0
  <2> HIDE DEF g
  <2>3. FrameOK(setting, g)
    BY <1>1, <1>2, <1>4, <2>0, <2>1 DEF FrameOK, Coordinated, Sessions, Endings, Throwing
  <2>4. Holding(g) => Holding(Top(t))
    BY <1>2, <2>1 DEF Holding
  <2>5. Covered(g.pc, processing', speaking') /\ g.pc \notin Voices
    BY <2>0, <2>1 DEF Covered, Voices
  <2>6. DataOK' /\ BatchInv' /\ cancelTts' = cancelTts /\ setting' = setting
    BY <2>0, AudioKept DEF flags, OInv, TypeOK, DataOK
  <2> QED
    BY <2>1, <2>2, <2>3, <2>4, <2>5, <2>6, ContinueKeepsOInv
<1>6. CASE ~Coordinated /\ Continue(t, [f EXCEPT !.pc = "pp"]) /\ BeginSpeech
  <2> DEFINE g == [f EXCEPT !.pc = "pp"]
  <2>1. g \in Frame /\ g.pc = "pp" /\ g.granted = f.granted /\ g.barged = f.barged
    BY <1>2, MovedFrame DEF Pc, Voices
  <2>2. Continue(t, g)
    BY <1>6
  <2> HIDE DEF g
  <2>3. FrameOK(setting, g)
    BY <1>1, <1>2, <1>4, <1>6, <2>1 DEF FrameOK, Coordinated, Sessions, Endings, Throwing
  <2>4. Holding(g) => Holding(Top(t))
    BY <1>2, <2>1 DEF Holding
  <2>5. processing' = FALSE /\ speaking' = TRUE /\ cancelTts' = FALSE
    BY <1>6 DEF BeginSpeech
  <2>6. Covered(g.pc, processing', speaking')
    BY <2>1, <2>5 DEF Covered
  <2>7. DataOK' /\ BatchInv' /\ setting' = setting
    BY <2>5, AudioKept
  <2>8. Batch(setting) => \A u \in Task \ {t} : ~Speaks(u)
    BY <1>6, OthersSilent
  <2> QED
    BY <1>4, <2>1, <2>2, <2>3, <2>4, <2>6, <2>7, <2>8, ContinueKeepsOInv
<1> QED
  BY <1>3, <1>5, <1>6

\* The batch transcript, or none.
LEMMA TranscriptKeepsOInv ==
  ASSUME OInv, NEW t \in Task, Transcribed(t) \/ AsrFailed(t)
  PROVE  OInv'
<1>1. /\ stack[t] # <<>> /\ Top(t).pc = "asr"
      /\ UNCHANGED <<audio, said, scheduled, running, setting>>
  BY DEF Transcribed, AsrFailed, At
<1>2. Top(t) \in Frame /\ FrameOK(setting, Top(t)) /\ (Alone => Covered(Top(t).pc, processing, speaking))
  BY <1>1, TopFrame
<1>3. Top(t).seg \in SUBSET Utterance
  BY <1>2 DEF Frame
<1>4. CASE setting.backend = "personaplex"
  <2>1. PICK text \in SUBSET Utterance : EnterPersonaPlex(t, text)
    BY <1>3, <1>4 DEF Transcribed, AsrFailed
  <2> QED
    BY <1>1, <1>4, <2>1, EnterPersonaPlexKeepsOInv
<1>5. CASE setting.backend # "personaplex"
  <2>1. UNCHANGED flags /\ DataOK' /\ BatchInv'
    <3>1. UNCHANGED flags
      BY <1>5 DEF Transcribed, AsrFailed
    <3> QED
      BY <1>1, <3>1, AudioKept DEF flags, OInv, TypeOK, DataOK
  <2>2. CASE EnterCore(t, [Top(t) EXCEPT !.text = Top(t).seg])
    <3> DEFINE f == [Top(t) EXCEPT !.text = Top(t).seg]
    <3>1. f \in Frame /\ f.pc = "asr" /\ f.granted = Top(t).granted /\ f.barged = Top(t).barged
      BY <1>1, <1>2, <1>3 DEF Frame
    <3>2. EnterCore(t, f)
      BY <2>2
    <3> HIDE DEF f
    <3>3. FrameOK(setting, f)
      BY <1>1, <1>2, <3>1 DEF FrameOK
    <3>4. Alone => processing'
      BY <1>1, <1>2, <2>1 DEF Covered, flags
    <3> QED
      BY <1>1, <2>1, <3>1, <3>2, <3>3, <3>4, EnterCoreKeepsOInv DEF flags
  <2>3. CASE Goto(t, "done")
    <3> DEFINE f == [Top(t) EXCEPT !.pc = "done"]
    <3>1. f \in Frame /\ f.pc = "done" /\ f.granted = Top(t).granted /\ f.barged = Top(t).barged
      BY <1>2, MovedFrame DEF Pc, Unwinding
    <3>2. Continue(t, f)
      BY <2>3 DEF Goto
    <3> HIDE DEF f
    <3>3. FrameOK(setting, f) /\ f.pc \notin Voices /\ Covered(f.pc, processing', speaking')
      BY <1>2, <3>1 DEF FrameOK, Sessions, Voices, Covered, Endings, Throwing
    <3>4. Holding(f) => Holding(Top(t))
      BY <1>1, <3>1 DEF Holding
    <3> QED
      BY <1>1, <2>1, <3>1, <3>2, <3>3, <3>4, ContinueKeepsOInv DEF flags
  <2> QED
    BY <1>5, <2>2, <2>3 DEF Transcribed, AsrFailed
<1> QED
  BY <1>4, <1>5

\* The coordinator refuses the floor, or grants it when no frame here has it.
LEMMA FloorKeepsOInv ==
  ASSUME OInv, NEW t \in Task, FloorAnswered(t)
  PROVE  OInv'
<1>1. /\ stack[t] # <<>> /\ Top(t).pc \in {"floor", "ppFloor"}
      /\ UNCHANGED <<audio, said, scheduled, running, setting>>
  BY DEF FloorAnswered, At
<1>2. Top(t) \in Frame /\ FrameOK(setting, Top(t))
  BY <1>1, TopFrame
<1>3. Coordinated /\ ~Alone /\ ~Top(t).barged
  BY <1>1, <1>2 DEF FrameOK, Alone, Coordinated
<1>4. CASE \E pc \in {"done", "throwing"} : Goto(t, pc) /\ UNCHANGED flags
  <2>0. PICK pc \in {"done", "throwing"} : Goto(t, pc) /\ UNCHANGED flags
    BY <1>4
  <2> DEFINE f == [Top(t) EXCEPT !.pc = pc]
  <2>1. f \in Frame /\ f.pc = pc /\ f.granted = Top(t).granted /\ f.barged = Top(t).barged
    BY <1>2, <2>0, MovedFrame DEF Pc, Unwinding
  <2>2. Continue(t, f)
    BY <2>0 DEF Goto
  <2> HIDE DEF f
  <2>3. FrameOK(setting, f) /\ f.pc \notin Voices
    BY <1>2, <1>3, <2>0, <2>1 DEF FrameOK, Sessions, Voices, Coordinated, Endings, Throwing
  <2>4. Holding(f) => Holding(Top(t))
    BY <1>1, <2>1 DEF Holding
  <2>5. DataOK' /\ BatchInv'
    BY <1>1, <1>4, AudioKept DEF flags, OInv, TypeOK, DataOK
  <2> QED
    BY <1>1, <1>3, <1>4, <2>1, <2>2, <2>3, <2>4, <2>5, ContinueKeepsOInv DEF flags
<1>5. CASE /\ ~HoldsFloor /\ Top(t).pc = "floor"
           /\ Continue(t, [Top(t) EXCEPT !.pc = "llm", !.granted = TRUE]) /\ UNCHANGED flags
  <2> DEFINE f == [Top(t) EXCEPT !.pc = "llm", !.granted = TRUE]
  <2>1. f \in Frame /\ f.pc = "llm" /\ f.granted /\ f.barged = Top(t).barged
    BY <1>2 DEF Frame, Pc
  <2>2. Continue(t, f)
    BY <1>5
  <2> HIDE DEF f
  <2>3. FrameOK(setting, f) /\ f.pc \notin Voices
    BY <1>3, <2>1 DEF FrameOK, Sessions, Voices, Coordinated, Endings, Throwing
  <2>4. DataOK' /\ BatchInv'
    BY <1>1, <1>5, AudioKept DEF flags, OInv, TypeOK, DataOK
  <2> QED
    BY <1>1, <1>3, <1>5, <2>1, <2>2, <2>3, <2>4, ContinueKeepsOInv DEF flags
<1>6. CASE /\ ~HoldsFloor /\ Top(t).pc = "ppFloor"
           /\ Continue(t, [Top(t) EXCEPT !.pc = "pp", !.granted = TRUE]) /\ BeginSpeech
  <2> DEFINE f == [Top(t) EXCEPT !.pc = "pp", !.granted = TRUE]
  <2>1. f \in Frame /\ f.pc = "pp" /\ f.granted /\ f.barged = Top(t).barged
    BY <1>2 DEF Frame, Pc, Voices
  <2>2. Continue(t, f)
    BY <1>6
  <2> HIDE DEF f
  <2>3. Batch(setting) => \A u \in Task \ {t} : ~Speaks(u)
    BY <1>1, <1>6, OthersSilent
  <2>4. FrameOK(setting, f)
    BY <1>3, <2>1 DEF FrameOK, Sessions, Coordinated, Endings, Throwing
  <2>5. processing' = FALSE /\ speaking' = TRUE /\ cancelTts' = FALSE
    BY <1>6 DEF BeginSpeech
  <2>6. DataOK' /\ BatchInv'
    BY <1>1, <2>5, AudioKept
  <2> QED
    BY <1>1, <1>3, <1>6, <2>1, <2>2, <2>3, <2>4, <2>5, <2>6, ContinueKeepsOInv
<1> QED
  <2>1. At(t, {"floor"}) <=> Top(t).pc = "floor"
    BY <1>1 DEF At
  <2> QED
    BY <1>1, <1>4, <1>5, <1>6, <2>1 DEF FloorAnswered

\* The end of the core: to the coordinator when the floor was granted.
LEMMA LeavingFrame ==
  ASSUME NEW g \in Frame, FrameOK(setting, g)
  PROVE  LET f == [g EXCEPT !.pc = IF g.granted THEN "endTurn" ELSE "done"]
         IN  /\ f \in Frame /\ FrameOK(setting, f) /\ f.granted = g.granted
             /\ f.pc \in {"endTurn", "done"}
<1> DEFINE pc == IF g.granted THEN "endTurn" ELSE "done"
           f == [g EXCEPT !.pc = pc]
<1>1. pc \in Pc /\ (pc = "endTurn" => g.granted) /\ pc \in {"endTurn", "done"}
  BY DEF Pc, Endings, Unwinding
<1> HIDE DEF pc
<1>2. f \in Frame /\ f.pc = pc /\ f.granted = g.granted /\ f.barged = g.barged
  BY <1>1, MovedFrame
<1>3. FrameOK(setting, f)
  BY <1>1, <1>2 DEF FrameOK, Sessions, Endings, Throwing
<1> QED
  BY <1>1, <1>2, <1>3 DEF pc

\* The LLM has answered: the reply begins, and only its turn can be speaking.
LEMMA LlmKeepsOInv ==
  ASSUME OInv, NEW t \in Task, LlmAnswered(t)
  PROVE  OInv'
<1>1. /\ stack[t] # <<>> /\ Top(t).pc = "llm" /\ BeginSpeech
      /\ UNCHANGED <<audio, said, scheduled, running, setting>>
  BY DEF LlmAnswered, At
<1>2. Top(t) \in Frame /\ FrameOK(setting, Top(t))
  BY <1>1, TopFrame
<1>3. processing' = FALSE /\ speaking' = TRUE /\ cancelTts' = FALSE
  BY <1>1 DEF BeginSpeech
<1>4. DataOK' /\ BatchInv'
  BY <1>1, <1>3, AudioKept
<1>5. Coordinated => Holding(Top(t))
  BY <1>1, <1>2 DEF FrameOK, Holding, Coordinated
<1>6. Batch(setting) => \A u \in Task \ {t} : ~Speaks(u)
  <2>1. 1 \in 1 .. Len(stack[t]) /\ Top(t) = stack[t][1]
    BY <1>1, PopFrame DEF OInv, TypeOK, Top
  <2> QED
    BY <1>1, <1>5, <2>1, OthersSilent
<1>7. CASE \E pc \in {"speak", "say"} : Goto(t, pc)
  <2>1. PICK pc \in {"speak", "say"} : Goto(t, pc)
    BY <1>7
  <2> DEFINE f == [Top(t) EXCEPT !.pc = pc]
  <2>2. f \in Frame /\ f.pc = pc /\ f.granted = Top(t).granted /\ f.barged = Top(t).barged
    BY <1>2, <2>1, MovedFrame DEF Pc, Voices
  <2>3. Continue(t, f)
    BY <2>1 DEF Goto
  <2> HIDE DEF f
  <2>4. FrameOK(setting, f)
    BY <1>1, <1>2, <2>1, <2>2 DEF FrameOK, Sessions, Endings, Throwing
  <2>5. ~f.barged /\ (Holding(f) => Holding(Top(t)))
    BY <1>1, <1>2, <2>2 DEF FrameOK, Holding
  <2>6. Covered(f.pc, processing', speaking')
    BY <1>3, <2>1, <2>2 DEF Covered
  <2> QED
    BY <1>1, <1>4, <1>6, <2>2, <2>3, <2>4, <2>5, <2>6, ContinueKeepsOInv
<1>8. CASE LeaveCore(t, Top(t))
  <2> DEFINE f == [Top(t) EXCEPT !.pc = IF Top(t).granted THEN "endTurn" ELSE "done"]
  <2>1. f \in Frame /\ FrameOK(setting, f) /\ f.granted = Top(t).granted /\ f.pc \in {"endTurn", "done"}
    BY <1>2, LeavingFrame
  <2>2. Continue(t, f)
    BY <1>8 DEF LeaveCore
  <2> HIDE DEF f
  <2>3. f.pc \notin Voices /\ Covered(f.pc, processing', speaking') /\ (Holding(f) => Holding(Top(t)))
    BY <1>1, <2>1 DEF Covered, Voices, Holding
  <2> QED
    BY <1>1, <1>4, <1>6, <2>1, <2>2, <2>3, ContinueKeepsOInv
<1> QED
  BY <1>7, <1>8 DEF LlmAnswered

\* A reply ends, of the pipeline or of PersonaPlex: it holds the floor still.
LEMMA SpeechEndsKeepsOInv ==
  ASSUME OInv, NEW t \in Task, stack[t] # <<>>, Top(t).pc \in {"speak", "say", "pp"},
         NEW pc \in {"after", "afterVoice", "ppEnd"}, NEW barged \in BOOLEAN,
         Continue(t, [Top(t) EXCEPT !.pc = pc, !.barged = barged]),
         pc = "ppEnd" => Top(t).granted,
         pc = "after" => Top(t).pc = "speak",
         speaking' = FALSE, UNCHANGED <<processing, cancelTts, audio, said, scheduled, running, setting>>
  PROVE  OInv'
<1> DEFINE f == [Top(t) EXCEPT !.pc = pc, !.barged = barged]
<1>1. Top(t) \in Frame /\ FrameOK(setting, Top(t))
  BY TopFrame
<1>2. f \in Frame /\ f.pc = pc /\ f.granted = Top(t).granted
  BY <1>1 DEF Frame, Pc, Unwinding, Endings
<1>3. Continue(t, f)
  OBVIOUS
<1> HIDE DEF f
<1>4. FrameOK(setting, f) /\ f.pc \notin Voices /\ Covered(f.pc, processing', speaking')
  BY <1>1, <1>2 DEF FrameOK, Sessions, Voices, Covered, Endings, Throwing
<1>5. Holding(f) => Holding(Top(t))
  BY <1>2 DEF Holding
<1>6. DataOK' /\ BatchInv'
  BY AudioKept DEF OInv, TypeOK, DataOK
<1> QED
  BY <1>2, <1>3, <1>4, <1>5, <1>6, ContinueKeepsOInv

\* The reply of the pipeline, or of PersonaPlex, is over.
LEMMA ReplyKeepsOInv ==
  ASSUME OInv, NEW t \in Task, ReplyOver(t) \/ PersonaPlexOver(t)
  PROVE  OInv'
<1>1. CASE ReplyOver(t)
  <2>1. /\ stack[t] # <<>> /\ Top(t).pc \in {"speak", "say"} /\ speaking' = FALSE
        /\ UNCHANGED <<processing, cancelTts, audio, said, scheduled, running, setting>>
    BY <1>1 DEF ReplyOver, At
  <2>2. PICK barged \in {FALSE, cancelTts /\ At(t, {"speak"})} :
          Continue(t, [Top(t) EXCEPT !.pc = IF @ = "speak" THEN "after" ELSE "afterVoice",
                                     !.barged = barged])
    BY <1>1 DEF ReplyOver
  <2>3. barged \in BOOLEAN
    BY <2>2 DEF OInv, TypeOK, DataOK, At
  <2>4. PICK pc \in {"after", "afterVoice"} : pc = IF Top(t).pc = "speak" THEN "after" ELSE "afterVoice"
    OBVIOUS
  <2>5. Continue(t, [Top(t) EXCEPT !.pc = pc, !.barged = barged])
    BY <2>2, <2>4
  <2> QED
    BY <2>1, <2>3, <2>4, <2>5, SpeechEndsKeepsOInv
<1>2. CASE PersonaPlexOver(t)
  <2>1. /\ stack[t] # <<>> /\ Top(t).pc = "pp" /\ speaking' = FALSE
        /\ UNCHANGED <<processing, cancelTts, audio, said, scheduled, running, setting>>
    BY <1>2 DEF PersonaPlexOver, At
  <2>2. PICK pc \in {"afterVoice", "ppEnd"} :
          /\ Continue(t, [Top(t) EXCEPT !.pc = pc, !.barged = FALSE])
          /\ pc = "ppEnd" => Top(t).granted
    BY <1>2 DEF PersonaPlexOver
  <2> QED
    BY <2>1, <2>2, SpeechEndsKeepsOInv
<1> QED
  BY <1>1, <1>2

\* The coordinator has ended the turn, which holds the floor no more.
LEMMA EndTurnKeepsOInv ==
  ASSUME OInv, NEW t \in Task, EndTurnDone(t)
  PROVE  OInv'
<1>1. /\ stack[t] # <<>> /\ UNCHANGED <<flags, audio, said, scheduled, running, setting>>
  BY DEF EndTurnDone, At
<1>2. PICK pc \in {"afterVoice", "throwing", "done"} :
        /\ Continue(t, [Top(t) EXCEPT !.pc = pc, !.granted = FALSE])
        /\ pc = "throwing" => Top(t).pc \in Throwing
  BY DEF EndTurnDone, At, Throwing
<1> DEFINE f == [Top(t) EXCEPT !.pc = pc, !.granted = FALSE]
<1>3. Top(t) \in Frame /\ FrameOK(setting, Top(t))
  BY <1>1, TopFrame
<1>4. f \in Frame /\ f.pc = pc /\ ~f.granted /\ f.barged = Top(t).barged
  BY <1>2, <1>3 DEF Frame, Pc, Unwinding
<1>5. Continue(t, f)
  BY <1>2
<1> HIDE DEF f
<1>6. FrameOK(setting, f) /\ f.pc \notin Voices /\ Covered(f.pc, processing', speaking') /\ ~Holding(f)
  BY <1>2, <1>3, <1>4 DEF FrameOK, Sessions, Voices, Covered, Holding, Endings, Throwing
<1>7. DataOK' /\ BatchInv'
  BY <1>1, AudioKept DEF flags, OInv, TypeOK, DataOK
<1> QED
  BY <1>1, <1>4, <1>5, <1>6, <1>7, ContinueKeepsOInv DEF flags

\* A frame of PersonaPlex that fell back calls the core.
LEMMA FallBackKeepsOInv ==
  ASSUME OInv, NEW t \in Task, stack[t] # <<>>, Top(t).pc \in {"pp", "ppRelease"}, FallBack(t),
         UNCHANGED <<flags, audio, said, scheduled, running, setting>>
  PROVE  OInv'
<1>1. /\ Top(t) \in Frame /\ FrameOK(setting, Top(t))
      /\ (Alone => Covered(Top(t).pc, processing, speaking))
  BY TopFrame
<1>2. PICK pc \in {"floor", "llm"} :
        /\ pc = "floor" => Coordinated
        /\ pc = "llm" => ~Coordinated
        /\ stack' = [stack EXCEPT ![t] =
             <<FrameAt(pc, Top(t).seg, Top(t).text), [Head(@) EXCEPT !.pc = "fellBack"]>> \o Tail(@)]
  BY DEF FallBack
<1> DEFINE g == [Top(t) EXCEPT !.pc = "fellBack"]
           f == FrameAt(pc, Top(t).seg, Top(t).text)
           rest == Tail(stack[t])
           below == <<g>> \o rest
           s == <<f>> \o below
<1>3. g \in Frame /\ g.pc = "fellBack" /\ g.granted = Top(t).granted
  BY <1>1, MovedFrame DEF Pc, Unwinding
<1>4. f \in Frame /\ f.pc = pc /\ ~f.granted /\ ~f.barged
  <2>1. Top(t).seg \in SUBSET Utterance /\ Top(t).text \in SUBSET Utterance
    BY <1>1 DEF Frame
  <2>2. pc \in Pc
    BY <1>2 DEF Pc
  <2> QED
    BY <2>1, <2>2, NewFrame
<1>5. stack[t] \in Seq(Frame) /\ StackOK(setting, stack[t])
  BY DEF OInv, TypeOK, StacksOK
<1>6. /\ rest \in Seq(Frame) /\ Top(t) = stack[t][1] /\ Len(stack[t]) \in Nat \ {0}
      /\ Len(rest) = Len(stack[t]) - 1
      /\ \A i \in 1 .. Len(stack[t]) - 1 : rest[i] = stack[t][i + 1]
      /\ StackOK(setting, rest) /\ (rest # <<>> => Head(rest).pc \in Calling)
  BY <1>5, PopFrame, PopOK DEF Top
<1>7. stack' = [stack EXCEPT ![t] = <<f, g>> \o rest]
  BY <1>2 DEF Top
<1> HIDE DEF f, g, rest
<1>8. <<f, g>> \o rest = s
  <2>1. ASSUME NEW x \in Frame, NEW y \in Frame, NEW r \in Seq(Frame)
        PROVE  <<x, y>> \o r = <<x>> \o (<<y>> \o r)
    <3>1. <<x>> \in Seq(Frame) /\ <<y>> \in Seq(Frame)
      OBVIOUS
    <3>2. <<x, y>> = <<x>> \o <<y>>
      BY TwoFrames
    <3>3. (<<x>> \o <<y>>) \o r = <<x>> \o (<<y>> \o r)
      BY <3>1, ConcatAssociative
    <3> QED
      BY <3>2, <3>3
  <2> QED
    BY <1>3, <1>4, <1>6, <2>1
<1>9. FrameOK(setting, g)
  BY <1>1, <1>3 DEF FrameOK, Sessions, Endings, Throwing
<1>10. /\ below \in Seq(Frame) /\ below # <<>> /\ Head(below) = g /\ below[1] = g
       /\ Len(below) = Len(rest) + 1
       /\ \A i \in 2 .. Len(rest) + 1 : below[i] = rest[i - 1]
  BY <1>3, <1>6, PushFrame
<1>11. StackOK(setting, below)
  BY <1>3, <1>6, <1>9, PushOK
<1> HIDE DEF below
<1>12. FrameOK(setting, f)
  BY <1>2, <1>4 DEF FrameOK, Coordinated, Sessions, Endings, Throwing
<1>13. StackOK(setting, s)
  BY <1>3, <1>4, <1>10, <1>11, <1>12, PushOK DEF Calling
<1>14. /\ s \in Seq(Frame) /\ s # <<>> /\ Head(s) = f /\ s[1] = f
       /\ Len(s) = Len(below) + 1
       /\ \A i \in 2 .. Len(below) + 1 : s[i] = below[i - 1]
  BY <1>4, <1>10, PushFrame
<1> HIDE DEF s
<1>15. ASSUME NEW i \in 1 .. Len(s), Holding(s[i])
       PROVE  i + (-1) \in 1 .. Len(stack[t]) /\ Holding(stack[t][i + (-1)])
  <2>1. i # 1 /\ i # 2
    BY <1>3, <1>4, <1>10, <1>14, <1>15 DEF Holding
  <2>2. PICK n \in Nat : n = Len(rest)
    BY <1>6
  <2>3. /\ Len(s) = n + 2 /\ Len(stack[t]) = n + 1 /\ i \in 3 .. n + 2
    BY <1>6, <1>10, <1>14, <2>1, <2>2
  <2>4. s[i] = below[i - 1] /\ i - 1 \in 2 .. Len(rest) + 1
    BY <1>10, <1>14, <2>2, <2>3
  <2>5. s[i] = rest[(i - 1) - 1] /\ (i - 1) - 1 \in 1 .. Len(stack[t]) - 1
    BY <1>10, <2>2, <2>3, <2>4
  <2>6. s[i] = stack[t][((i - 1) - 1) + 1]
    BY <1>6, <2>5
  <2>7. ((i - 1) - 1) + 1 = i + (-1) /\ i + (-1) \in 1 .. Len(stack[t])
    BY <2>3
  <2> QED
    BY <1>15, <2>6, <2>7
<1>16. \E d \in {-1, 0, 1} : \A i \in 1 .. Len(s) :
              Holding(s[i]) => i + d \in 1 .. Len(stack[t]) /\ Holding(stack[t][i + d])
  BY <1>15
<1>17. DataOK' /\ BatchInv'
  BY AudioKept DEF flags, OInv, TypeOK, DataOK
<1>18. f.pc \notin Voices /\ (Alone => Covered(f.pc, processing', speaking'))
  <2>1. Alone => Top(t).pc = "pp" /\ speaking
    BY <1>1 DEF FrameOK, Covered, Alone, Coordinated, Voices
  <2> QED
    BY <1>2, <1>4, <2>1 DEF Covered, Voices, flags
<1> QED
  BY <1>7, <1>8, <1>13, <1>14, <1>16, <1>17, <1>18, TaskMoves DEF flags

\* PersonaPlex fails, with or without a floor to release first.
LEMMA PersonaPlexKeepsOInv ==
  ASSUME OInv, NEW t \in Task, PersonaPlexFails(t) \/ Released(t)
  PROVE  OInv'
<1>1. /\ stack[t] # <<>> /\ Top(t).pc \in {"pp", "ppRelease"}
      /\ UNCHANGED <<flags, audio, said, scheduled, running, setting>>
  BY DEF PersonaPlexFails, Released, At
<1>2. CASE FallBack(t)
  BY <1>1, <1>2, FallBackKeepsOInv
<1>3. CASE Top(t).pc = "pp" /\ Coordinated /\ Goto(t, "ppRelease")
  <2> DEFINE f == [Top(t) EXCEPT !.pc = "ppRelease"]
  <2>1. Top(t) \in Frame /\ FrameOK(setting, Top(t))
    BY <1>1, TopFrame
  <2>2. f \in Frame /\ f.pc = "ppRelease" /\ f.granted = Top(t).granted /\ f.barged = Top(t).barged
    BY <2>1, MovedFrame DEF Pc, Endings
  <2>3. Continue(t, f)
    BY <1>3 DEF Goto
  <2> HIDE DEF f
  <2>4. FrameOK(setting, f) /\ f.pc \notin Voices /\ ~Alone
    BY <1>3, <2>1, <2>2 DEF FrameOK, Sessions, Voices, Alone, Coordinated
  <2>5. Holding(f) => Holding(Top(t))
    BY <1>3, <2>2 DEF Holding
  <2>6. DataOK' /\ BatchInv'
    BY <1>1, AudioKept DEF flags, OInv, TypeOK, DataOK
  <2> QED
    BY <1>1, <2>2, <2>3, <2>4, <2>5, <2>6, ContinueKeepsOInv DEF flags
<1> QED
  BY <1>2, <1>3 DEF PersonaPlexFails, Released, At

----------------------------------------------------------------------------
(* Returns, greeting and opener                                            *)

\* A queued segment is taken up by the frame that found it.
LEMMA RunPendingKeepsOInv ==
  ASSUME OInv, NEW t \in Task, RunPending(t)
  PROVE  OInv'
<1>1. /\ stack[t] # <<>> /\ Top(t).pc \in Calling
      /\ processing' = TRUE /\ pendingSegment' = {}
      /\ UNCHANGED <<speaking, cancelTts, session, handled, run, said, scheduled, running, setting>>
  BY DEF RunPending, At, Calling
<1> DEFINE f == FrameAt("asr", pendingSegment, {})
<1>2. f \in Frame /\ f.pc = "asr" /\ ~f.granted /\ ~f.barged
  <2>1. pendingSegment \in SUBSET Utterance /\ "asr" \in Pc /\ {} \in SUBSET Utterance
    BY DEF OInv, TypeOK, DataOK, Pc
  <2> QED
    BY <2>1, NewFrame
<1>3. Call(t, f)
  BY DEF RunPending
<1> HIDE DEF f
<1>4. FrameOK(setting, f) /\ ~Holding(f) /\ Covered(f.pc, processing', speaking')
  BY <1>1, <1>2 DEF FrameOK, Sessions, Holding, Covered, Voices, Endings, Throwing
<1>5. DataOK' /\ BatchInv'
  BY <1>1 DEF OInv, TypeOK, DataOK, BatchInv
<1> QED
  BY <1>1, <1>2, <1>3, <1>4, <1>5, CallKeepsOInv

\* A frame that goes on where it neither speaks nor waits for anything that
\* needs a grant, and has the floor only as before.
LEMMA GotoKeepsOInv ==
  ASSUME OInv, NEW t \in Task, stack[t] # <<>>, NEW pc \in {"done", "drain", "ppClosing", "rejecting"},
         Goto(t, pc),
         pc = "rejecting" => Coordinated,
         pc = "ppClosing" => Top(t).granted,
         Top(t).pc \in {"fellBack", "ppClosing", "ppThrowEnd"} => pc = "ppClosing" \/ ~Top(t).granted,
         processing' \in BOOLEAN, speaking' \in BOOLEAN,
         UNCHANGED <<cancelTts, audio, said, scheduled, running, setting>>
  PROVE  OInv'
<1> DEFINE f == [Top(t) EXCEPT !.pc = pc]
<1>1. Top(t) \in Frame /\ FrameOK(setting, Top(t))
  BY TopFrame
<1>2. f \in Frame /\ f.pc = pc /\ f.granted = Top(t).granted /\ f.barged = Top(t).barged
  BY <1>1, MovedFrame DEF Pc, Unwinding, Endings
<1>3. Continue(t, f)
  BY DEF Goto
<1> HIDE DEF f
<1>4. FrameOK(setting, f) /\ f.pc \notin Voices /\ Covered(f.pc, processing', speaking')
  BY <1>1, <1>2 DEF FrameOK, Sessions, Voices, Covered, Endings, Throwing, Coordinated
<1>5. Holding(f) => Holding(Top(t))
  BY <1>2 DEF Holding
<1>6. DataOK' /\ BatchInv'
  BY AudioKept DEF OInv, TypeOK, DataOK
<1> QED
  BY <1>2, <1>3, <1>4, <1>5, <1>6, ContinueKeepsOInv

\* The frame that called goes on: where it neither speaks nor calls the LLM, or as
\* the voice of a turn that has the floor.
LEMMA ResumeKeepsOInv ==
  ASSUME OInv, NEW t \in Task, stack[t] # <<>>, Len(stack[t]) > 1, Coordinated,
         NEW pc \in {"after", "say", "throwEnd", "ppThrowEnd", "throwing", "rejecting"},
         Resume(t, pc),
         pc \in {"after", "say"} => stack[t][2].pc = "after",
         pc \in {"throwEnd", "ppThrowEnd"} => stack[t][2].granted,
         stack[t][2].pc = "fellBack" => pc \in {"ppThrowEnd", "throwing"} /\ (pc = "throwing" => ~stack[t][2].granted),
         processing' \in BOOLEAN, speaking' \in BOOLEAN, cancelTts' \in BOOLEAN,
         UNCHANGED <<audio, said, scheduled, running, setting>>,
         cancelTts' = cancelTts \/ pc = "say"
  PROVE  OInv'
<1> DEFINE r == Tail(stack[t])
           rest == Tail(r)
           f == [stack[t][2] EXCEPT !.pc = pc, !.barged = FALSE]
           s == <<f>> \o rest
<1>1. stack[t] \in Seq(Frame) /\ StackOK(setting, stack[t])
  BY DEF OInv, TypeOK, StacksOK
<1>2. /\ r \in Seq(Frame) /\ Len(stack[t]) \in Nat \ {0} /\ Len(r) = Len(stack[t]) - 1
      /\ \A i \in 1 .. Len(stack[t]) - 1 : r[i] = stack[t][i + 1]
  BY <1>1, PopFrame
<1>2a. StackOK(setting, r)
  BY <1>1, PopOK
<1> HIDE DEF r
<1>3. StackOK(setting, r) /\ r # <<>> /\ r[1] = stack[t][2]
  <2>1. 1 \in 1 .. Len(stack[t]) - 1 /\ 1 + 1 = 2
    BY <1>2
  <2>2. r[1] = stack[t][2] /\ Len(r) > 0
    BY <1>2, <2>1
  <2>3. r # <<>>
    BY <1>2, <2>2, EmptySeq
  <2> QED
    BY <1>2a, <2>2, <2>3
<1>4. /\ rest \in Seq(Frame) /\ r[1] \in Frame /\ Len(r) \in Nat \ {0} /\ Len(rest) = Len(r) - 1
      /\ \A i \in 1 .. Len(r) - 1 : rest[i] = r[i + 1]
  BY <1>2, <1>3, PopFrame
<1>5. StackOK(setting, rest) /\ (rest # <<>> => Head(rest).pc \in Calling)
  BY <1>2, <1>3, PopOK
<1>6. FrameOK(setting, stack[t][2]) /\ stack[t][2].pc \in Calling
  <2>1. 2 \in 1 .. Len(stack[t]) /\ 2 \in 2 .. Len(stack[t])
    BY <1>2
  <2> QED
    BY <1>1, <2>1 DEF StackOK
<1>7. f \in Frame /\ f.pc = pc /\ f.granted = stack[t][2].granted /\ ~f.barged
  BY <1>3, <1>4 DEF Frame, Pc, Voices, Endings, Unwinding
<1>8. stack' = [stack EXCEPT ![t] = s]
  BY DEF Resume, r
<1> HIDE DEF f, rest
<1>9. FrameOK(setting, f)
  BY <1>6, <1>7 DEF FrameOK, Sessions, Endings, Throwing, Coordinated
<1>10. StackOK(setting, s)
  BY <1>4, <1>5, <1>7, <1>9, PushOK
<1>11. /\ s \in Seq(Frame) /\ s # <<>> /\ Head(s) = f /\ s[1] = f /\ Len(s) = Len(rest) + 1
       /\ \A i \in 2 .. Len(rest) + 1 : s[i] = rest[i - 1]
  BY <1>4, <1>7, PushFrame
<1> HIDE DEF s
<1>12. ASSUME NEW i \in 1 .. Len(s), Holding(s[i])
       PROVE  i + 1 \in 1 .. Len(stack[t]) /\ Holding(stack[t][i + 1])
  <2>1. Len(stack[t]) = Len(s) + 1 /\ Len(s) \in Nat /\ i \in 1 .. Len(r)
    BY <1>2, <1>4, <1>11
  <2>2. CASE i = 1
    <3>1. Holding(f)
      BY <1>11, <1>12, <2>2
    <3>2. Holding(stack[t][2])
      BY <1>6, <1>7, <3>1 DEF Holding, Calling
    <3> QED
      BY <2>1, <2>2, <3>2
  <2>3. CASE i # 1
    <3>1. i \in 2 .. Len(rest) + 1 /\ i - 1 \in 1 .. Len(r) - 1 /\ (i - 1) + 1 = i
      BY <1>4, <2>1, <2>3
    <3>2. s[i] = r[i]
      BY <1>4, <1>11, <3>1
    <3>3. r[i] = stack[t][i + 1]
      BY <1>2, <2>1
    <3> QED
      BY <1>12, <2>1, <3>2, <3>3
  <2> QED
    BY <2>2, <2>3
<1>13. \E d \in {-1, 0, 1} : \A i \in 1 .. Len(s) :
              Holding(s[i]) => i + d \in 1 .. Len(stack[t]) /\ Holding(stack[t][i + d])
  BY <1>12
<1>14. DataOK' /\ BatchInv'
  BY AudioKept
<1>15. pc = "say" => (Batch(setting) => \A u \in Task \ {t} : ~Speaks(u))
  <2> SUFFICES ASSUME pc = "say" PROVE Batch(setting) => \A u \in Task \ {t} : ~Speaks(u)
    OBVIOUS
  <2>1. Holding(stack[t][2])
    BY <1>6 DEF FrameOK, Holding, Coordinated
  <2>2. 2 \in 1 .. Len(stack[t])
    BY <1>2
  <2> QED
    BY <2>1, <2>2, OthersSilent
<1>16. ~Alone
  BY DEF Alone
<1> QED
  BY <1>7, <1>8, <1>10, <1>11, <1>13, <1>14, <1>15, <1>16, TaskMoves

\* What a queued turn throws goes to its caller, or to pushAudio.
LEMMA RejectsKeepsOInv ==
  ASSUME OInv, NEW t \in Task, Rejects(t)
  PROVE  OInv'
<1>1. /\ stack[t] # <<>> /\ Top(t).pc = "rejecting"
      /\ UNCHANGED <<audio, said, scheduled, running, setting>>
  BY DEF Rejects, At
<1>2. Top(t) \in Frame /\ FrameOK(setting, Top(t))
  BY <1>1, TopFrame
<1>3. Coordinated /\ ~Alone
  BY <1>1, <1>2 DEF FrameOK, Alone, Coordinated, Throwing
<1>4. processing \in BOOLEAN /\ speaking \in BOOLEAN /\ cancelTts \in BOOLEAN
  BY DEF OInv, TypeOK, DataOK
<1>5. CASE RejectsCaller(t)
  <2>1. Len(stack[t]) > 1
    BY <1>5 DEF RejectsCaller, CalledAt
  <2>2. CASE Resume(t, "after") /\ stack[t][2].pc = "after" /\ speaking' = FALSE /\ UNCHANGED <<processing, cancelTts>>
    BY <1>1, <1>3, <1>4, <2>1, <2>2, ResumeKeepsOInv
  <2>3. CASE Resume(t, "say") /\ stack[t][2].pc = "after" /\ BeginSpeech
    BY <1>1, <1>3, <1>4, <2>1, <2>3, ResumeKeepsOInv DEF BeginSpeech
  <2>4. CASE /\ stack[t][2].pc = "afterVoice" /\ UNCHANGED flags
             /\ Resume(t, IF stack[t][2].granted THEN "throwEnd" ELSE "throwing")
    BY <1>1, <1>3, <1>4, <2>1, <2>4, ResumeKeepsOInv DEF flags
  <2>5. CASE /\ stack[t][2].pc = "fellBack" /\ speaking' = FALSE /\ UNCHANGED <<processing, cancelTts>>
             /\ Resume(t, IF stack[t][2].granted THEN "ppThrowEnd" ELSE "throwing")
    BY <1>1, <1>3, <1>4, <2>1, <2>5, ResumeKeepsOInv
  <2>6. CASE stack[t][2].pc = "drain" /\ Resume(t, "rejecting") /\ UNCHANGED flags
    BY <1>1, <1>3, <1>4, <2>1, <2>6, ResumeKeepsOInv DEF flags
  <2> QED
    BY <1>5, <2>2, <2>3, <2>4, <2>5, <2>6 DEF RejectsCaller, CalledAt
<1>6. CASE RejectsTask(t)
  BY <1>1, <1>3, <1>6, TryBatchKeepsOInv DEF RejectsTask
<1> QED
  BY <1>5, <1>6 DEF Rejects

\* A rejection that nobody handles leaves nothing.
LEMMA UnhandledKeepsOInv ==
  ASSUME OInv, NEW t \in Task, Unhandled(t)
  PROVE  OInv'
<1>1. \A u \in Task : stack'[u] = <<>> /\ Len(stack'[u]) = 0
  BY DEF Unhandled
<1>2. stack' \in [Task -> Seq(Frame)]
  BY EmptySeq DEF Unhandled
<1>3. TypeOK'
  BY <1>2 DEF Unhandled, TypeOK, DataOK, OInv
<1>4. StacksOK' /\ FloorInv' /\ SingleTask' /\ CoverInv' /\ BargeInv'
  BY <1>1 DEF StacksOK, StackOK, FloorInv, SingleTask, CoverInv, BargeInv, Speaks, At
<1>5. BatchInv'
  BY DEF Unhandled, BatchInv
<1> QED
  BY <1>3, <1>4, <1>5 DEF OInv

\* What is over at once.
LEMMA UnwindKeepsOInv ==
  ASSUME OInv, NEW t \in Task, Unwind(t)
  PROVE  OInv'
<1>1. CASE RunPending(t)
  BY <1>1, RunPendingKeepsOInv
<1>2. CASE AfterReply(t)
  <2>1. /\ stack[t] # <<>> /\ Top(t).pc \in {"after", "afterVoice"}
        /\ speaking' = (speaking /\ ~Top(t).barged) /\ LeaveCore(t, Top(t))
        /\ UNCHANGED <<processing, cancelTts, audio, said, scheduled, running, setting>>
    BY <1>2 DEF AfterReply, At
  <2>2. Top(t) \in Frame /\ FrameOK(setting, Top(t))
    BY <2>1, TopFrame
  <2> DEFINE f == [Top(t) EXCEPT !.pc = IF Top(t).granted THEN "endTurn" ELSE "done"]
  <2>3. f \in Frame /\ FrameOK(setting, f) /\ f.granted = Top(t).granted /\ f.pc \in {"endTurn", "done"}
    BY <2>2, LeavingFrame
  <2>4. Continue(t, f)
    BY <2>1 DEF LeaveCore
  <2> HIDE DEF f
  <2>5. f.pc \notin Voices /\ Covered(f.pc, processing', speaking') /\ (Holding(f) => Holding(Top(t)))
    BY <2>1, <2>3 DEF Covered, Voices, Holding
  <2>6. speaking' \in BOOLEAN
    BY <2>1
  <2>7. DataOK' /\ BatchInv'
    BY <2>1, <2>6, AudioKept DEF OInv, TypeOK, DataOK
  <2> QED
    BY <2>1, <2>3, <2>4, <2>5, <2>7, ContinueKeepsOInv
<1>3. CASE TurnDone(t)
  <2>1. /\ stack[t] # <<>> /\ Top(t).pc = "done" /\ processing' \in BOOLEAN
        /\ UNCHANGED <<speaking, cancelTts, audio, said, scheduled, running, setting>>
    BY <1>3 DEF TurnDone, At, OInv, TypeOK, DataOK
  <2>2. speaking' \in BOOLEAN
    BY <2>1 DEF OInv, TypeOK, DataOK
  <2>3. CASE Return(t)
    <3>1. DataOK' /\ BatchInv'
      BY <2>1, <2>2, AudioKept DEF OInv, TypeOK, DataOK
    <3> QED
      BY <2>1, <2>3, <3>1, ReturnKeepsOInv
  <2>4. CASE Goto(t, "drain")
    BY <2>1, <2>2, <2>4, GotoKeepsOInv
  <2> QED
    BY <1>3, <2>3, <2>4 DEF TurnDone
<1>4. CASE Drained(t)
  <2>1. /\ stack[t] # <<>> /\ Return(t) /\ UNCHANGED <<flags, audio, said, scheduled, running, setting>>
    BY <1>4 DEF Drained, At
  <2>2. DataOK' /\ BatchInv'
    BY <2>1, AudioKept DEF flags, OInv, TypeOK, DataOK
  <2> QED
    BY <2>1, <2>2, ReturnKeepsOInv DEF flags
<1>5. CASE FellBack(t)
  <2>1. /\ stack[t] # <<>> /\ Top(t).pc = "fellBack" /\ speaking' = FALSE
        /\ Goto(t, IF Top(t).granted THEN "ppClosing" ELSE "done")
        /\ UNCHANGED <<processing, cancelTts, audio, said, scheduled, running, setting>>
    BY <1>5 DEF FellBack, At
  <2>2. processing' \in BOOLEAN
    BY <2>1 DEF OInv, TypeOK, DataOK
  <2> QED
    BY <2>1, <2>2, GotoKeepsOInv
<1>6. CASE Thrown(t)
  <2>1. /\ stack[t] # <<>> /\ Top(t).pc = "throwing" /\ Goto(t, "rejecting")
        /\ processing' \in BOOLEAN
        /\ UNCHANGED <<speaking, cancelTts, audio, said, scheduled, running, setting>>
    BY <1>6 DEF Thrown, At
  <2>2. Coordinated /\ speaking' \in BOOLEAN
    BY <2>1, TopFrame DEF FrameOK, Coordinated, Throwing, OInv, TypeOK, DataOK
  <2> QED
    BY <2>1, <2>2, GotoKeepsOInv
<1>7. CASE Rejects(t)
  BY <1>7, RejectsKeepsOInv
<1>8. CASE Unhandled(t)
  BY <1>8, UnhandledKeepsOInv
<1> QED
  BY <1>1, <1>2, <1>3, <1>4, <1>5, <1>6, <1>7, <1>8 DEF Unwind

\* The greeting or opener: not with batch turns.
LEMMA TextKeepsOInv ==
  ASSUME OInv, NEW t \in Task, OpenerWritten(t) \/ TextSpoken(t) \/ TextFails(t)
  PROVE  OInv'
<1>1. /\ stack[t] # <<>> /\ Top(t).pc \in {"openerLlm", "proactive"}
      /\ UNCHANGED <<processing, audio, said, scheduled, running, setting>>
  BY DEF OpenerWritten, TextSpoken, TextFails, At, flags
<1>2. Top(t) \in Frame /\ FrameOK(setting, Top(t))
  BY <1>1, TopFrame
<1>3. ~Batch(setting) /\ ~Alone
  BY <1>1, <1>2 DEF FrameOK, Alone
<1>4. DataOK' /\ BatchInv'
  <2>1. processing' \in BOOLEAN /\ speaking' \in BOOLEAN /\ cancelTts' \in BOOLEAN
    BY <1>1 DEF OpenerWritten, TextSpoken, TextFails, SpeakText, flags, OInv, TypeOK, DataOK
  <2> QED
    BY <1>1, <2>1, AudioKept
<1>5. CASE Return(t) /\ cancelTts' = cancelTts
  BY <1>1, <1>4, <1>5, ReturnKeepsOInv
<1>6. CASE \E pc \in {"proactive", "drain"} : Goto(t, pc)
  <2>1. PICK pc \in {"proactive", "drain"} : Goto(t, pc)
    BY <1>6
  <2> DEFINE f == [Top(t) EXCEPT !.pc = pc]
  <2>2. f \in Frame /\ f.pc = pc /\ f.granted = Top(t).granted
    BY <1>2, <2>1, MovedFrame DEF Pc, Unwinding, Voices
  <2>3. Continue(t, f)
    BY <2>1 DEF Goto
  <2> HIDE DEF f
  <2>4. FrameOK(setting, f)
    BY <1>2, <1>3, <2>1, <2>2 DEF FrameOK, Sessions, Endings, Throwing
  <2>5. Holding(f) => Holding(Top(t))
    BY <1>1, <2>2 DEF Holding
  <2> QED
    BY <1>1, <1>3, <1>4, <2>2, <2>3, <2>4, <2>5, ContinueKeepsOInv
<1> QED
  BY <1>5, <1>6 DEF OpenerWritten, TextSpoken, TextFails, flags

----------------------------------------------------------------------------
(* The theorems                                                            *)

\* The invariant holds when the process starts.
LEMMA InitOInv ==
  ASSUME Init
  PROVE  OInv
<1>1. TypeOK
  <2>1. scheduled \in BOOLEAN
    BY DEF Init
  <2>2. said \in 0 .. MaxUtterances
    BY BoundsAssumption DEF Init
  <2>3. stack \in [Task -> Seq(Frame)]
    BY EmptySeq DEF Init
  <2> QED
    BY <2>1, <2>2, <2>3 DEF Init, TypeOK, DataOK
<1>2. \A t \in Task : stack[t] = <<>> /\ Len(stack[t]) = 0
  BY DEF Init
<1>3. StacksOK /\ FloorInv /\ SingleTask /\ CoverInv /\ BargeInv
  BY <1>2 DEF StacksOK, StackOK, FloorInv, SingleTask, CoverInv, BargeInv, Speaks, At
<1>4. BatchInv
  BY DEF Init, BatchInv, Batch
<1> QED
  BY <1>1, <1>3, <1>4 DEF OInv

\* Every step keeps it.
LEMMA StepKeepsOInv ==
  ASSUME OInv, [Next]_vars
  PROVE  OInv'
<1>1. CASE UserSpeaks \/ UserGoesOn
  BY <1>1, UserKeepsOInv
<1>2. CASE EndOfTurn
  BY <1>2, EndOfTurnKeepsOInv
<1>3. CASE PredictedEnd \/ TimerFires
  BY <1>3, EventKeepsOInv
<1>4. ASSUME NEW t \in Task, TaskStep(t) PROVE OInv'
  <2>1. CASE Unwind(t)
    BY <2>1, UnwindKeepsOInv
  <2>2. CASE SessionEnded(t) \/ SessionFailed(t)
    BY <2>2, SessionKeepsOInv
  <2>3. CASE Transcribed(t) \/ AsrFailed(t)
    BY <2>3, TranscriptKeepsOInv
  <2>4. CASE FloorAnswered(t)
    BY <2>4, FloorKeepsOInv
  <2>5. CASE LlmAnswered(t)
    BY <2>5, LlmKeepsOInv
  <2>6. CASE ReplyOver(t) \/ PersonaPlexOver(t)
    BY <2>6, ReplyKeepsOInv
  <2>7. CASE EndTurnDone(t)
    BY <2>7, EndTurnKeepsOInv
  <2>8. CASE PersonaPlexFails(t) \/ Released(t)
    BY <2>8, PersonaPlexKeepsOInv
  <2>9. CASE OpenerWritten(t) \/ TextSpoken(t) \/ TextFails(t)
    BY <2>9, TextKeepsOInv
  <2> QED
    BY <1>4, <2>1, <2>2, <2>3, <2>4, <2>5, <2>6, <2>7, <2>8, <2>9 DEF TaskStep, Awaited
<1>5. CASE UNCHANGED vars
  <2>1. DataOK' /\ BatchInv' /\ UNCHANGED <<processing, speaking, cancelTts, stack, setting>>
    BY <1>5 DEF vars, flags, audio, OInv, TypeOK, DataOK, BatchInv
  <2> QED
    BY <2>1, BargeInKeepsOInv
<1> QED
  BY <1>1, <1>2, <1>3, <1>4, <1>5 DEF Next

\* It holds throughout.
LEMMA OrchestratorInvariance == Spec => []OInv
<1> USE DEF Spec
<1>1. Init => OInv
  BY InitOInv
<1>2. OInv /\ [Next]_vars => OInv'
  BY StepKeepsOInv
<1> QED
  BY <1>1, <1>2, PTL

\* While a batch turn without a coordinator is under way, processing or speaking
\* says so, whatever fails and however many segments were queued: pushAudio never
\* starts a second one next to it.
THEOREM TurnCover == Spec => []TurnsAreCovered
<1>1. OInv => TurnsAreCovered
  <2> SUFFICES ASSUME OInv, BatchTurnsOnly, ~Coordinated, NEW t \in Task,
                      At(t, {"asr", "llm"} \cup Voices)
               PROVE  processing \/ speaking
    BY DEF TurnsAreCovered
  <2>1. Alone /\ stack[t] # <<>>
    BY DEF Alone, Batch, BatchTurnsOnly, Coordinated, At
  <2> QED
    BY <2>1, TopFrame DEF Covered, At
<1> QED
  BY <1>1, OrchestratorInvariance, PTL

\* With a coordinator, what answers the user is spoken in a turn that was granted:
\* by PersonaPlex, by the pipeline that it fell back to, by the segments that were
\* queued meanwhile, and the apology after one of those threw.  Greetings and
\* openers are spoken without.
THEOREM GrantedReplies == Spec => []RepliesAreGranted
<1>1. OInv => RepliesAreGranted
  <2> SUFFICES ASSUME OInv, Coordinated, NEW t \in Task, At(t, Voices \ {"proactive"})
               PROVE  Top(t).granted
    BY DEF RepliesAreGranted
  <2> QED
    BY TopFrame DEF FrameOK, Coordinated, At, Voices
<1> QED
  BY <1>1, OrchestratorInvariance, PTL

\* With batch turns no two replies are spoken at a time, in any task and at any
\* depth of turns that were queued behind each other.
THEOREM SingleVoice == Spec => []OneVoice
<1>1. OInv => OneVoice
  <2> SUFFICES ASSUME OInv, BatchTurnsOnly, NEW t \in Task, NEW u \in Task, Speaks(t), Speaks(u)
               PROVE  t = u
    BY DEF OneVoice
  <2>1. Batch(setting) /\ stack[t] # <<>> /\ Top(t).pc \in Voices
    BY DEF Batch, BatchTurnsOnly, Coordinated, Speaks, At
  <2>2. FrameOK(setting, Top(t))
    BY <2>1, TopFrame
  <2>3. Coordinated => Holding(Top(t))
    BY <2>1, <2>2 DEF FrameOK, Holding, Voices, Coordinated, Sessions
  <2>4. 1 \in 1 .. Len(stack[t]) /\ Top(t) = stack[t][1]
    BY <2>1, PopFrame DEF OInv, TypeOK, Top
  <2>5. \A v \in Task \ {t} : ~Speaks(v)
    BY <2>1, <2>3, <2>4, OthersSilent
  <2> QED
    BY <2>5
<1> QED
  BY <1>1, OrchestratorInvariance, PTL

\* With batch turns, speech that the user spoke into stays cancelled until its
\* loop has seen it: no other turn begins to speak and puts cancelTts back.
THEOREM BargeInHolds == Spec => []BargedStaysCancelled
<1>1. OInv => BargedStaysCancelled
  BY DEF OInv, BargeInv, BargedStaysCancelled, Batch, BatchTurnsOnly, Coordinated
<1> QED
  BY <1>1, OrchestratorInvariance, PTL
===============================================================================
