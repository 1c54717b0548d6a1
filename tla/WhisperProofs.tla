--------------------------- MODULE WhisperProofs ---------------------------
(***************************************************************************)
(* Every call of the local Whisper adapter hears its own audio, and no     *)
(* audio file is removed under the worker, for any calls and any number of *)
(* workers that die.                                                       *)
(***************************************************************************)
EXTENDS WhisperWorker, SequenceTheorems, TLAPS

Stage == {"idle", "writing", "ensuring", "awaiting", "unlinking", "done"}
Request == [id : Nat \ {0}, of : Call]
Result == Call \cup {"none", Failure}
Reply == [id : Nat \ {0}, result : Result]

TypeOK ==
  /\ stage \in [Call -> Stage]
  /\ outcome \in [Call -> Result]
  /\ file \subseteq Call
  /\ worker \in BOOLEAN
  /\ nextId \in Nat \ {0}
  /\ process \in {"none", "starting", "ready", "dead"}
  /\ serving \in Request \cup {NoRequest}
  /\ stdin \in Seq(Request) /\ stdout \in Seq(Reply)

\* The map: numbers below nextId, a call has at most one, and has written its file.
MapInv ==
  /\ DOMAIN pending \subseteq 1 .. nextId - 1
  /\ \A i \in DOMAIN pending :
       /\ pending[i] \in Call
       /\ stage[pending[i]] \in {"awaiting", "unlinking", "done"}
  /\ \A i, j \in DOMAIN pending : pending[i] = pending[j] => i = j

FileInv == \A c \in Call : stage[c] \in {"ensuring", "awaiting"} => c \in file

\* A number that is on its way is in the map, for a call that still waits.
Awaited(id) == id \in DOMAIN pending /\ stage[pending[id]] = "awaiting"

\* Requests and answers under way belong to the call the map says.
RequestOK(r) == Awaited(r.id) /\ pending[r.id] = r.of
ReplyOK(a) == Awaited(a.id) /\ a.result \in {Failure, pending[a.id]}

PipeInv ==
  /\ \A i \in 1 .. Len(stdin) : RequestOK(stdin[i])
  /\ serving # NoRequest => RequestOK(serving)
  /\ \A i \in 1 .. Len(stdout) : ReplyOK(stdout[i])

\* The numbers on their way out, being served and on their way in are in order,
\* so that none is there twice.
OrderInv ==
  /\ \A i, j \in 1 .. Len(stdin) : i < j => stdin[i].id < stdin[j].id
  /\ \A i, j \in 1 .. Len(stdout) : i < j => stdout[i].id < stdout[j].id
  /\ \A i \in 1 .. Len(stdout), j \in 1 .. Len(stdin) : stdout[i].id < stdin[j].id
  /\ serving # NoRequest =>
       /\ \A i \in 1 .. Len(stdin) : serving.id < stdin[i].id
       /\ \A i \in 1 .. Len(stdout) : stdout[i].id < serving.id

\* Without a process nothing is under way, and a dead one serves nothing.
ProcessInv ==
  /\ process = "none" <=> ~worker
  /\ ~worker => stdin = <<>> /\ stdout = <<>>
  /\ process \notin {"starting", "ready"} => serving = NoRequest

\* The inductive invariant.
WInv ==
  /\ TypeOK
  /\ MapInv
  /\ FileInv
  /\ PipeInv
  /\ OrderInv
  /\ ProcessInv
  /\ TranscriptIsOwn

----------------------------------------------------------------------------
(* Calls                                                                   *)

\* A call moves on that neither waits for an answer nor begins to, next to a
\* worker that stays or is started.
LEMMA CallMoves ==
  ASSUME WInv, NEW c \in Call, NEW s \in Stage \ {"awaiting"}, NEW r \in {"none", Failure, c},
         stage[c] # "awaiting",
         stage[c] \in {"unlinking", "done"} => s \in {"unlinking", "done"},
         stage' = [stage EXCEPT ![c] = s], outcome' = [outcome EXCEPT ![c] = r],
         file' \subseteq Call, \A d \in Call \ {c} : d \in file => d \in file',
         s = "ensuring" => c \in file',
         UNCHANGED <<nextId, pending>>,
         UNCHANGED <<worker, process, serving, stdin, stdout>> \/ StartWorker
  PROVE  WInv'
<1>1. /\ stage \in [Call -> Stage] /\ outcome \in [Call -> Result] /\ TypeOK /\ MapInv
      /\ stage'[c] = s /\ \A d \in Call \ {c} : stage'[d] = stage[d] /\ outcome'[d] = outcome[d]
      /\ outcome'[c] = r
  BY DEF WInv, TypeOK
<1>2. TypeOK'
  <2>1. stage' \in [Call -> Stage] /\ outcome' \in [Call -> Result]
    BY <1>1 DEF Result
  <2>2. CASE UNCHANGED <<worker, process, serving, stdin, stdout>>
    BY <1>1, <2>1, <2>2 DEF TypeOK
  <2>3. CASE StartWorker
    BY <1>1, <2>1, <2>3, EmptySeq DEF TypeOK, StartWorker
  <2> QED
    BY <2>1, <2>2, <2>3
<1>3. MapInv'
  BY <1>1 DEF MapInv
<1>4. FileInv'
  BY <1>1 DEF WInv, FileInv
<1>5. \A id : Awaited(id) => Awaited(id)'
  BY <1>1 DEF Awaited, MapInv
<1>6. PipeInv' /\ OrderInv' /\ ProcessInv'
  <2>1. CASE UNCHANGED <<worker, process, serving, stdin, stdout>>
    BY <1>5, <2>1 DEF WInv, PipeInv, RequestOK, ReplyOK, OrderInv, ProcessInv
  <2>2. CASE StartWorker
    <3>1. /\ stdin' = <<>> /\ stdout' = <<>> /\ serving' = NoRequest /\ worker' = TRUE
          /\ process' \in {"starting", "dead"} /\ Len(stdin') = 0 /\ Len(stdout') = 0
      BY <2>2 DEF StartWorker
    <3> QED
      BY <3>1 DEF PipeInv, OrderInv, ProcessInv
  <2> QED
    BY <2>1, <2>2
<1>7. TranscriptIsOwn'
  BY <1>1 DEF WInv, TranscriptIsOwn
<1> QED
  BY <1>2, <1>3, <1>4, <1>6, <1>7 DEF WInv

\* The map with one more number.
LEMMA MapGrows ==
  ASSUME WInv, NEW c \in Call, pending' = WithRequest(c)
  PROVE  /\ DOMAIN pending' = DOMAIN pending \cup {nextId} /\ nextId \notin DOMAIN pending
         /\ pending'[nextId] = c /\ \A i \in DOMAIN pending : pending'[i] = pending[i]
<1>1. nextId \in Nat \ {0} /\ nextId \notin DOMAIN pending
  BY DEF WInv, TypeOK, MapInv
<1> QED
  BY <1>1 DEF WithRequest

\* A request goes out, with a number above all that are under way, or fails
\* without a worker.
LEMMA SendKeepsWInv ==
  ASSUME WInv, NEW c \in Call, stage[c] \in {"writing", "ensuring"}, Send(c),
         file' \subseteq Call, file \subseteq file', c \in file',
         UNCHANGED <<worker, process, serving, stdout>>
  PROVE  WInv'
<1>1. /\ TypeOK /\ MapInv /\ FileInv /\ PipeInv /\ OrderInv /\ ProcessInv /\ TranscriptIsOwn
      /\ stage \in [Call -> Stage] /\ outcome \in [Call -> Result] /\ nextId \in Nat \ {0}
  BY DEF WInv, TypeOK
<1>2. /\ DOMAIN pending' = DOMAIN pending \cup {nextId} /\ nextId \notin DOMAIN pending
      /\ pending'[nextId] = c /\ \A i \in DOMAIN pending : pending'[i] = pending[i]
      /\ nextId' = nextId + 1
  BY MapGrows DEF Send
<1>3. PICK s \in {"awaiting", "unlinking"} :
        /\ stage'[c] = s /\ \A d \in Call \ {c} : stage'[d] = stage[d] /\ outcome'[d] = outcome[d]
        /\ stage' \in [Call -> Stage]
        /\ outcome' \in [Call -> Result] /\ outcome'[c] \in {outcome[c], Failure}
        /\ worker <=> s = "awaiting"
  BY <1>1 DEF Send, Settle, Stage, Result
<1>4. \A i \in DOMAIN pending : pending[i] \in Call \ {c}
  BY <1>1 DEF MapInv
<1>5. MapInv'
  BY <1>1, <1>2, <1>3, <1>4 DEF MapInv
<1>6. FileInv'
  BY <1>1, <1>3 DEF FileInv
<1>7. \A id : Awaited(id) => Awaited(id)' /\ pending'[id] = pending[id]
  BY <1>2, <1>3, <1>4 DEF Awaited
<1>8. TranscriptIsOwn'
  BY <1>1, <1>3 DEF TranscriptIsOwn
<1>9. CASE ~worker
  <2>1. UNCHANGED stdin
    BY <1>9 DEF Send
  <2>2. TypeOK'
    BY <1>1, <1>2, <1>3, <2>1 DEF TypeOK
  <2>3. PipeInv' /\ OrderInv' /\ ProcessInv'
    BY <1>1, <1>7, <2>1 DEF PipeInv, RequestOK, ReplyOK, OrderInv, ProcessInv
  <2> QED
    BY <1>5, <1>6, <1>8, <2>2, <2>3 DEF WInv
<1>10. CASE worker
  <2>0. PICK k \in Nat \ {0} : k = nextId
    BY <1>1
  <2> DEFINE q == [id |-> k, of |-> c]
  <2>1. q \in Request /\ q.id = k /\ q.of = c
    BY DEF Request
  <2>2. stdin' = Append(stdin, q)
    BY <1>10, <2>0 DEF Send
  <2> HIDE DEF q
  <2>3. stdin \in Seq(Request) /\ stdout \in Seq(Reply)
    BY <1>1 DEF TypeOK
  <2>4. /\ stdin' \in Seq(Request) /\ Len(stdin') = Len(stdin) + 1
        /\ stdin'[Len(stdin) + 1] = q /\ \A i \in 1 .. Len(stdin) : stdin'[i] = stdin[i]
    BY <2>1, <2>2, <2>3, AppendProperties
  <2>5. PICK n \in Nat : n = Len(stdin)
    BY <2>3
  <2>6. \A i \in 1 .. n + 1 : i # n + 1 => i \in 1 .. n
    OBVIOUS
  <2>7. TypeOK'
    BY <1>1, <1>2, <1>3, <2>4 DEF TypeOK
  <2>8. RequestOK(q)'
    BY <1>2, <1>3, <1>10, <2>0, <2>1 DEF Awaited, RequestOK
  <2>9. PipeInv'
    <3>1. (\A i \in 1 .. Len(stdin) : RequestOK(stdin[i]))'
      <4> SUFFICES ASSUME NEW i \in 1 .. n + 1, NEW x, x = stdin'[i] PROVE RequestOK(x)'
        BY <2>4, <2>5
      <4>1. CASE i = n + 1
        BY <2>4, <2>5, <2>8, <4>1
      <4>2. CASE i # n + 1
        <5>1. RequestOK(x)
          BY <1>1, <2>4, <2>5, <2>6, <4>2 DEF PipeInv
        <5> QED
          BY <1>7, <5>1 DEF RequestOK
      <4> QED
        BY <4>1, <4>2
    <3>2. (serving # NoRequest => RequestOK(serving))'
      BY <1>1, <1>7 DEF PipeInv, RequestOK
    <3>3. (\A i \in 1 .. Len(stdout) : ReplyOK(stdout[i]))'
      BY <1>1, <1>7 DEF PipeInv, ReplyOK
    <3> QED
      BY <3>1, <3>2, <3>3 DEF PipeInv
  <2>10. /\ \A i \in 1 .. n : stdin[i].id \in Nat /\ stdin[i].id < nextId
         /\ \A i \in 1 .. Len(stdout) : stdout[i].id < nextId
         /\ serving # NoRequest => serving.id < nextId
    BY <1>1, <2>5 DEF PipeInv, RequestOK, ReplyOK, Awaited, MapInv
  <2>11. OrderInv'
    <3>1. \A i \in 1 .. n : stdin'[i].id = stdin[i].id
      BY <2>4, <2>5
    <3>2. stdin'[n + 1].id = nextId /\ Len(stdin') = n + 1
      BY <2>0, <2>1, <2>4, <2>5
    <3>3. (\A i, j \in 1 .. Len(stdin) : i < j => stdin[i].id < stdin[j].id)'
      <4> SUFFICES ASSUME NEW i \in 1 .. n + 1, NEW j \in 1 .. n + 1, i < j
                   PROVE  stdin'[i].id < stdin'[j].id
        BY <3>2
      <4>1. i \in 1 .. n
        OBVIOUS
      <4>2. CASE j = n + 1
        BY <2>10, <3>1, <3>2, <4>1, <4>2
      <4>3. CASE j # n + 1
        BY <1>1, <2>5, <2>6, <3>1, <4>1, <4>3 DEF OrderInv
      <4> QED
        BY <4>2, <4>3
    <3>4. (\A i \in 1 .. Len(stdout), j \in 1 .. Len(stdin) : stdout[i].id < stdin[j].id)'
      BY <1>1, <2>5, <2>6, <2>10, <3>1, <3>2 DEF OrderInv
    <3>5. (serving # NoRequest => \A i \in 1 .. Len(stdin) : serving.id < stdin[i].id)'
      BY <1>1, <2>5, <2>6, <2>10, <3>1, <3>2 DEF OrderInv
    <3> QED
      BY <1>1, <3>3, <3>4, <3>5 DEF OrderInv
  <2>12. ProcessInv'
    BY <1>1, <1>10 DEF ProcessInv
  <2> QED
    BY <1>5, <1>6, <1>8, <2>7, <2>9, <2>11, <2>12 DEF WInv
<1> QED
  BY <1>1, <1>9, <1>10 DEF TypeOK

----------------------------------------------------------------------------
(* Answers and exits                                                       *)

\* A line arrives: it is for the call whose number it has, and for no other that
\* has anything under way.
LEMMA LineKeepsWInv ==
  ASSUME WInv, Line
  PROVE  WInv'
<1>1. /\ TypeOK /\ MapInv /\ FileInv /\ PipeInv /\ OrderInv /\ ProcessInv /\ TranscriptIsOwn
      /\ stage \in [Call -> Stage] /\ outcome \in [Call -> Result]
      /\ stdin \in Seq(Request) /\ stdout \in Seq(Reply)
      /\ worker /\ stdout # <<>>
      /\ UNCHANGED <<file, worker, nextId, process, serving, stdin>>
  BY DEF WInv, TypeOK, Line
<1>2. PICK n \in Nat : n = Len(stdout) /\ n # 0
  BY <1>1, EmptySeq
<1>3. PICK h \in Reply : h = Head(stdout)
  BY <1>1, HeadTailProperties
<1>4. /\ h = stdout[1] /\ stdout' \in Seq(Reply) /\ Len(stdout') = n - 1
      /\ \A i \in 1 .. n - 1 : stdout'[i] = stdout[i + 1]
  BY <1>1, <1>2, <1>3, HeadTailProperties DEF Line
<1>5. ReplyOK(h)
  BY <1>1, <1>2, <1>4 DEF PipeInv
<1>6. PICK c \in Call : c = pending[h.id] /\ stage[c] = "awaiting"
  BY <1>1, <1>5 DEF ReplyOK, Awaited, MapInv
<1>7. Answered(h) = {h.id} /\ {pending[i] : i \in Answered(h)} = {c}
  BY <1>5, <1>6 DEF Answered, ReplyOK, Awaited
<1>8. /\ pending' = [i \in DOMAIN pending \ {h.id} |-> pending[i]]
      /\ Settle({c}, h.result)
  BY <1>3, <1>7 DEF Line
<1>9. /\ stage'[c] = "unlinking" /\ outcome'[c] = h.result
      /\ \A d \in Call \ {c} : stage'[d] = stage[d] /\ outcome'[d] = outcome[d]
      /\ stage' \in [Call -> Stage] /\ outcome' \in [Call -> Result]
  <2>1. h.result \in Result
    BY DEF Reply
  <2> QED
    BY <1>1, <1>8, <2>1 DEF Settle, Stage
<1>10. \A i \in DOMAIN pending' : i \in DOMAIN pending /\ pending'[i] = pending[i] /\ pending[i] \in Call \ {c}
  BY <1>1, <1>5, <1>6, <1>8 DEF MapInv, ReplyOK, Awaited
<1>11. TypeOK'
  BY <1>1, <1>4, <1>9 DEF TypeOK
<1>12. MapInv'
  BY <1>1, <1>9, <1>10 DEF MapInv
<1>13. FileInv'
  BY <1>1, <1>9 DEF FileInv
<1>14. \A id : Awaited(id) /\ id # h.id => Awaited(id)' /\ pending'[id] = pending[id]
  BY <1>8, <1>9, <1>10 DEF Awaited
<1>15. /\ \A i \in 1 .. n - 1 : i \in 1 .. n /\ i + 1 \in 1 .. n /\ 1 < i + 1
       /\ 1 \in 1 .. n
  BY <1>2
<1>16. /\ \A i \in 1 .. Len(stdin) : h.id < stdin[i].id /\ h.id # stdin[i].id
       /\ \A i \in 1 .. n - 1 : h.id < stdout[i + 1].id /\ h.id # stdout[i + 1].id
       /\ serving # NoRequest => h.id < serving.id /\ h.id # serving.id
  <2>1. /\ \A i \in 1 .. Len(stdin) : h.id < stdin[i].id
        /\ \A i \in 1 .. n - 1 : h.id < stdout[i + 1].id
        /\ serving # NoRequest => h.id < serving.id
    BY <1>1, <1>2, <1>4, <1>15 DEF OrderInv
  <2>2. h.id \in Nat
    BY DEF Reply
  <2>3. /\ \A i \in 1 .. Len(stdin) : stdin[i].id \in Nat
        /\ \A i \in 1 .. n - 1 : stdout[i + 1].id \in Nat
        /\ serving # NoRequest => serving.id \in Nat
    <3>1. \A i \in 1 .. Len(stdin) : stdin[i] \in Request
      BY <1>1
    <3>2. \A i \in 1 .. n - 1 : stdout[i + 1] \in Reply
      BY <1>1, <1>2, <1>15
    <3>3. serving # NoRequest => serving \in Request
      BY <1>1 DEF TypeOK
    <3> QED
      BY <3>1, <3>2, <3>3 DEF Request, Reply
  <2> QED
    BY <2>1, <2>2, <2>3
<1>17. PipeInv'
  <2>1. (\A i \in 1 .. Len(stdin) : RequestOK(stdin[i]))'
    BY <1>1, <1>14, <1>16 DEF PipeInv, RequestOK
  <2>2. (serving # NoRequest => RequestOK(serving))'
    BY <1>1, <1>14, <1>16 DEF PipeInv, RequestOK
  <2>3. (\A i \in 1 .. Len(stdout) : ReplyOK(stdout[i]))'
    <3> SUFFICES ASSUME NEW i \in 1 .. n - 1, NEW x, x = stdout'[i] PROVE ReplyOK(x)'
      BY <1>4
    <3>1. x = stdout[i + 1] /\ ReplyOK(x) /\ x.id # h.id
      BY <1>1, <1>2, <1>4, <1>15, <1>16 DEF PipeInv
    <3> QED
      BY <1>14, <3>1 DEF ReplyOK
  <2> QED
    BY <2>1, <2>2, <2>3 DEF PipeInv
<1>18. OrderInv'
  <2>1. (\A i, j \in 1 .. Len(stdout) : i < j => stdout[i].id < stdout[j].id)'
    <3> SUFFICES ASSUME NEW i \in 1 .. n - 1, NEW j \in 1 .. n - 1, i < j
                 PROVE  stdout'[i].id < stdout'[j].id
      BY <1>4
    <3>1. i + 1 \in 1 .. n /\ j + 1 \in 1 .. n /\ i + 1 < j + 1
      BY <1>2
    <3> QED
      BY <1>1, <1>2, <1>4, <3>1 DEF OrderInv
  <2>2. (\A i \in 1 .. Len(stdout), j \in 1 .. Len(stdin) : stdout[i].id < stdin[j].id)'
    BY <1>1, <1>2, <1>4, <1>15 DEF OrderInv
  <2>3. (serving # NoRequest => \A i \in 1 .. Len(stdout) : stdout[i].id < serving.id)'
    BY <1>1, <1>2, <1>4, <1>15 DEF OrderInv
  <2> QED
    BY <1>1, <2>1, <2>2, <2>3 DEF OrderInv
<1>19. ProcessInv'
  BY <1>1 DEF ProcessInv
<1>20. TranscriptIsOwn'
  BY <1>1, <1>5, <1>6, <1>9 DEF TranscriptIsOwn, ReplyOK
<1> QED
  BY <1>11, <1>12, <1>13, <1>17, <1>18, <1>19, <1>20 DEF WInv

\* The worker's exit: every request is rejected, and nothing is under way.
LEMMA ExitKeepsWInv ==
  ASSUME WInv, Exited
  PROVE  WInv'
<1>1. /\ TypeOK /\ MapInv /\ FileInv /\ ProcessInv /\ TranscriptIsOwn
      /\ stage \in [Call -> Stage] /\ outcome \in [Call -> Result]
      /\ process = "dead" /\ UNCHANGED <<file, nextId, serving>>
      /\ pending' = <<>> /\ worker' = FALSE /\ process' = "none" /\ stdin' = <<>> /\ stdout' = <<>>
  BY DEF WInv, TypeOK, Exited
<1>2. PICK calls : Settle(calls, Failure) /\ \A c \in calls : stage[c] = "awaiting"
  BY DEF Exited, RejectAll
<1>3. \A c \in Call : /\ stage'[c] \in {stage[c], "unlinking"} /\ stage'[c] \in Stage
                      /\ outcome'[c] \in {outcome[c], Failure} /\ outcome'[c] \in Result
  BY <1>1, <1>2 DEF Settle, Stage, Result
<1>4. stage' \in [Call -> Stage] /\ outcome' \in [Call -> Result]
  BY <1>2, <1>3 DEF Settle
<1>5. TypeOK'
  BY <1>1, <1>4, EmptySeq DEF TypeOK
<1>6. DOMAIN pending' = {} /\ Len(stdin') = 0 /\ Len(stdout') = 0 /\ serving' = NoRequest
  BY <1>1 DEF ProcessInv
<1>7. MapInv' /\ PipeInv' /\ OrderInv' /\ ProcessInv'
  BY <1>1, <1>6 DEF MapInv, PipeInv, OrderInv, ProcessInv
<1>8. FileInv' /\ TranscriptIsOwn'
  BY <1>1, <1>3 DEF FileInv, TranscriptIsOwn
<1> QED
  BY <1>5, <1>7, <1>8 DEF WInv

----------------------------------------------------------------------------
(* The worker                                                              *)

\* The worker takes the oldest request.
LEMMA ServeKeepsWInv ==
  ASSUME WInv, Serve
  PROVE  WInv'
<1>1. /\ TypeOK /\ MapInv /\ FileInv /\ PipeInv /\ OrderInv /\ ProcessInv /\ TranscriptIsOwn
      /\ stdin \in Seq(Request) /\ stdout \in Seq(Reply) /\ stdin # <<>>
      /\ process = "ready" /\ serving = NoRequest
      /\ UNCHANGED <<callVars, nodeVars, process, stdout>>
  BY DEF WInv, TypeOK, Serve
<1>2. UNCHANGED <<stage, outcome, file, worker, nextId, pending, process, stdout>>
  BY <1>1 DEF callVars, nodeVars
<1>3. PICK n \in Nat : n = Len(stdin) /\ n # 0
  BY <1>1, EmptySeq
<1>4. PICK h \in Request : h = Head(stdin)
  BY <1>1, HeadTailProperties
<1>5. /\ h = stdin[1] /\ serving' = h /\ stdin' \in Seq(Request) /\ Len(stdin') = n - 1
      /\ \A i \in 1 .. n - 1 : stdin'[i] = stdin[i + 1]
  BY <1>1, <1>3, <1>4, HeadTailProperties DEF Serve
<1>6. /\ \A i \in 1 .. n - 1 : i \in 1 .. n /\ i + 1 \in 1 .. n /\ 1 < i + 1
      /\ 1 \in 1 .. n
  BY <1>3
<1>7. TypeOK'
  BY <1>1, <1>2, <1>5 DEF TypeOK
<1>8. MapInv' /\ FileInv' /\ TranscriptIsOwn'
  BY <1>1, <1>2 DEF MapInv, FileInv, TranscriptIsOwn
<1>9. ProcessInv'
  BY <1>1, <1>2 DEF ProcessInv
<1>10. \A id : Awaited(id) => Awaited(id)'
  BY <1>2 DEF Awaited
<1>11. PipeInv'
  <2>1. (\A i \in 1 .. Len(stdin) : RequestOK(stdin[i]))'
    <3> SUFFICES ASSUME NEW i \in 1 .. n - 1, NEW x, x = stdin'[i] PROVE RequestOK(x)'
      BY <1>5
    <3>1. RequestOK(x)
      BY <1>1, <1>3, <1>5, <1>6 DEF PipeInv
    <3> QED
      BY <1>2, <1>10, <3>1 DEF RequestOK
  <2>2. (serving # NoRequest => RequestOK(serving))'
    <3>1. RequestOK(h)
      BY <1>1, <1>3, <1>5, <1>6 DEF PipeInv
    <3> QED
      BY <1>2, <1>5, <1>10, <3>1 DEF RequestOK
  <2>3. (\A i \in 1 .. Len(stdout) : ReplyOK(stdout[i]))'
    BY <1>1, <1>2, <1>10 DEF PipeInv, ReplyOK
  <2> QED
    BY <2>1, <2>2, <2>3 DEF PipeInv
<1>12. OrderInv'
  <2>1. (\A i, j \in 1 .. Len(stdin) : i < j => stdin[i].id < stdin[j].id)'
    <3> SUFFICES ASSUME NEW i \in 1 .. n - 1, NEW j \in 1 .. n - 1, i < j
                 PROVE  stdin'[i].id < stdin'[j].id
      BY <1>5
    <3>1. i + 1 \in 1 .. n /\ j + 1 \in 1 .. n /\ i + 1 < j + 1
      BY <1>3
    <3> QED
      BY <1>1, <1>3, <1>5, <3>1 DEF OrderInv
  <2>2. (\A i \in 1 .. Len(stdout), j \in 1 .. Len(stdin) : stdout[i].id < stdin[j].id)'
    BY <1>1, <1>2, <1>3, <1>5, <1>6 DEF OrderInv
  <2>3. (\A i \in 1 .. Len(stdin) : serving.id < stdin[i].id)'
    BY <1>1, <1>3, <1>5, <1>6 DEF OrderInv
  <2>4. (\A i \in 1 .. Len(stdout) : stdout[i].id < serving.id)'
    BY <1>1, <1>2, <1>3, <1>5, <1>6 DEF OrderInv
  <2>5. (\A i, j \in 1 .. Len(stdout) : i < j => stdout[i].id < stdout[j].id)'
    BY <1>1, <1>2 DEF OrderInv
  <2> QED
    BY <2>1, <2>2, <2>3, <2>4, <2>5 DEF OrderInv
<1> QED
  BY <1>7, <1>8, <1>9, <1>11, <1>12 DEF WInv

\* The worker answers what it was serving: its answer is the newest on the way.
LEMMA AnswerKeepsWInv ==
  ASSUME WInv, Answer
  PROVE  WInv'
<1>1. /\ TypeOK /\ MapInv /\ FileInv /\ PipeInv /\ OrderInv /\ ProcessInv /\ TranscriptIsOwn
      /\ stdin \in Seq(Request) /\ stdout \in Seq(Reply)
      /\ process = "ready" /\ serving \in Request /\ serving # NoRequest /\ serving' = NoRequest
      /\ UNCHANGED <<callVars, nodeVars, process, stdin>>
  BY DEF WInv, TypeOK, Answer
<1>2. UNCHANGED <<stage, outcome, file, worker, nextId, pending, process, stdin>>
  BY <1>1 DEF callVars, nodeVars
<1>3. PICK s \in Request : s = serving
  BY <1>1
<1>4. RequestOK(s) /\ s.id \in Nat \ {0} /\ s.of \in Call
  BY <1>1, <1>3 DEF PipeInv, Request
<1>5. PICK r \in {Failure} \cup ({s.of} \cap file) :
        stdout' = Append(stdout, [id |-> s.id, result |-> r])
  BY <1>3 DEF Answer
<1> DEFINE a == [id |-> s.id, result |-> r]
<1>6. a \in Reply /\ a.id = s.id /\ a.result = r
  BY <1>4 DEF Reply, Result
<1>7. stdout' = Append(stdout, a)
  BY <1>5
<1> HIDE DEF a
<1>8. PICK n \in Nat : n = Len(stdout)
  BY <1>1
<1>9. /\ stdout' \in Seq(Reply) /\ Len(stdout') = n + 1 /\ stdout'[n + 1] = a
      /\ \A i \in 1 .. n : stdout'[i] = stdout[i]
  BY <1>1, <1>6, <1>7, <1>8, AppendProperties
<1>10. \A i \in 1 .. n + 1 : i # n + 1 => i \in 1 .. n
  OBVIOUS
<1>11. TypeOK'
  BY <1>1, <1>2, <1>9 DEF TypeOK
<1>12. MapInv' /\ FileInv' /\ TranscriptIsOwn'
  BY <1>1, <1>2 DEF MapInv, FileInv, TranscriptIsOwn
<1>13. ProcessInv'
  BY <1>1, <1>2 DEF ProcessInv
<1>14. \A id : Awaited(id) => Awaited(id)'
  BY <1>2 DEF Awaited
<1>15. ReplyOK(a)'
  BY <1>2, <1>4, <1>6, <1>14 DEF ReplyOK, RequestOK
<1>16. PipeInv'
  <2>1. (\A i \in 1 .. Len(stdin) : RequestOK(stdin[i]))'
    BY <1>1, <1>2, <1>14 DEF PipeInv, RequestOK
  <2>2. (\A i \in 1 .. Len(stdout) : ReplyOK(stdout[i]))'
    <3> SUFFICES ASSUME NEW i \in 1 .. n + 1, NEW x, x = stdout'[i] PROVE ReplyOK(x)'
      BY <1>9
    <3>1. CASE i = n + 1
      BY <1>9, <1>15, <3>1
    <3>2. CASE i # n + 1
      <4>1. ReplyOK(x)
        BY <1>1, <1>8, <1>9, <1>10, <3>2 DEF PipeInv
      <4> QED
        BY <1>2, <1>14, <4>1 DEF ReplyOK
    <3> QED
      BY <3>1, <3>2
  <2> QED
    BY <1>1, <2>1, <2>2 DEF PipeInv
<1>17. OrderInv'
  <2>1. /\ \A i \in 1 .. n : stdout'[i].id = stdout[i].id /\ stdout[i].id < s.id
        /\ \A i \in 1 .. Len(stdin) : s.id < stdin[i].id
        /\ stdout'[n + 1].id = s.id
    BY <1>1, <1>3, <1>6, <1>8, <1>9 DEF OrderInv
  <2>2. (\A i, j \in 1 .. Len(stdout) : i < j => stdout[i].id < stdout[j].id)'
    <3> SUFFICES ASSUME NEW i \in 1 .. n + 1, NEW j \in 1 .. n + 1, i < j
                 PROVE  stdout'[i].id < stdout'[j].id
      BY <1>9
    <3>1. i \in 1 .. n
      OBVIOUS
    <3>2. CASE j = n + 1
      BY <2>1, <3>1, <3>2
    <3>3. CASE j # n + 1
      BY <1>1, <1>8, <1>10, <2>1, <3>1, <3>3 DEF OrderInv
    <3> QED
      BY <3>2, <3>3
  <2>3. (\A i \in 1 .. Len(stdout), j \in 1 .. Len(stdin) : stdout[i].id < stdin[j].id)'
    <3> SUFFICES ASSUME NEW i \in 1 .. n + 1, NEW j \in 1 .. Len(stdin)
                 PROVE  stdout'[i].id < stdin[j].id
      BY <1>2, <1>9
    <3>1. CASE i = n + 1
      BY <2>1, <3>1
    <3>2. CASE i # n + 1
      BY <1>1, <1>8, <1>10, <2>1, <3>2 DEF OrderInv
    <3> QED
      BY <3>1, <3>2
  <2>4. (\A i, j \in 1 .. Len(stdin) : i < j => stdin[i].id < stdin[j].id)'
    BY <1>1, <1>2 DEF OrderInv
  <2> QED
    BY <1>1, <2>2, <2>3, <2>4 DEF OrderInv
<1> QED
  BY <1>11, <1>12, <1>13, <1>16, <1>17 DEF WInv

\* The model is loaded, or the worker dies with what it was serving.
LEMMA ProcessKeepsWInv ==
  ASSUME WInv, Loaded \/ Dies
  PROVE  WInv'
<1>1. /\ TypeOK /\ MapInv /\ FileInv /\ PipeInv /\ OrderInv /\ ProcessInv /\ TranscriptIsOwn
      /\ UNCHANGED <<stage, outcome, file, worker, nextId, pending, stdin, stdout>>
      /\ serving' \in {serving, NoRequest} /\ process' \in {"ready", "dead"}
      /\ process # "none" /\ (process' = "dead" => serving' = NoRequest)
  BY DEF WInv, Loaded, Dies, callVars, nodeVars
<1>2. TypeOK' /\ MapInv' /\ FileInv' /\ TranscriptIsOwn' /\ ProcessInv'
  BY <1>1 DEF TypeOK, MapInv, FileInv, TranscriptIsOwn, ProcessInv
<1>3. \A id : Awaited(id) => Awaited(id)'
  BY <1>1 DEF Awaited
<1>4. PipeInv'
  BY <1>1, <1>3 DEF PipeInv, RequestOK, ReplyOK
<1>5. OrderInv'
  BY <1>1 DEF OrderInv
<1> QED
  BY <1>1, <1>2, <1>4, <1>5 DEF WInv

----------------------------------------------------------------------------
(* Steps                                                                   *)

\* The inductive invariant holds at the start.
LEMMA InitWInv == WhisperInit => WInv
<1> SUFFICES ASSUME WhisperInit PROVE WInv
  OBVIOUS
<1>1. Len(stdin) = 0 /\ Len(stdout) = 0 /\ DOMAIN pending = {} /\ serving = NoRequest
  BY DEF WhisperInit
<1>2. TypeOK
  <2>1. stage \in [Call -> Stage] /\ outcome \in [Call -> Result]
    BY DEF WhisperInit, Stage, Result
  <2>2. stdin \in Seq(Request) /\ stdout \in Seq(Reply)
    BY EmptySeq DEF WhisperInit
  <2>3. file = {} /\ worker = FALSE /\ nextId = 1
    BY DEF WhisperInit
  <2>4. process \in {"none", "starting", "ready", "dead"} /\ serving \in Request \cup {NoRequest}
    BY DEF WhisperInit
  <2>5. file \subseteq Call
    BY <2>3
  <2>6. worker \in BOOLEAN
    BY <2>3
  <2>7. nextId \in Nat \ {0}
    BY <2>3
  <2> QED
    BY <2>1, <2>2, <2>4, <2>5, <2>6, <2>7 DEF TypeOK
<1>3. MapInv /\ PipeInv /\ OrderInv
  BY <1>1 DEF MapInv, PipeInv, OrderInv
<1>4. FileInv /\ ProcessInv /\ TranscriptIsOwn
  BY DEF WhisperInit, FileInv, ProcessInv, TranscriptIsOwn
<1> QED
  BY <1>2, <1>3, <1>4 DEF WInv

\* What Settle does with a single call.
LEMMA SettleOne ==
  ASSUME WInv, NEW c \in Call, Settle({c}, Failure)
  PROVE  /\ stage' = [stage EXCEPT ![c] = "unlinking"]
         /\ outcome' = [outcome EXCEPT ![c] = Failure]
BY DEF Settle, WInv, TypeOK

\* A step of a call keeps the invariant.
LEMMA CallStepKeepsWInv ==
  ASSUME WInv, NEW c \in Call, Transcribe(c) \/ CallStep(c)
  PROVE  WInv'
<1>0. /\ stage \in [Call -> Stage] /\ outcome \in [Call -> Result] /\ file \subseteq Call
      /\ outcome[c] \in {"none", Failure, c}
      /\ outcome = [outcome EXCEPT ![c] = outcome[c]]
  BY DEF WInv, TypeOK, TranscriptIsOwn
<1>1. CASE Transcribe(c)
  <2>1. PICK s \in {"writing", "done"}, r \in {outcome[c], Failure} :
          stage' = [stage EXCEPT ![c] = s] /\ outcome' = [outcome EXCEPT ![c] = r]
    BY <1>0, <1>1 DEF Transcribe
  <2>2. stage[c] = "idle" /\ UNCHANGED <<file, nextId, pending, worker, process, serving, stdin, stdout>>
    BY <1>1 DEF Transcribe, nodeVars, workerVars
  <2> QED
    BY <1>0, <2>1, <2>2, CallMoves DEF Stage
<1>2. CASE FileWritten(c)
  <2>1. stage[c] = "writing" /\ file' = file \cup {c}
    BY <1>2 DEF FileWritten
  <2>2. CASE worker /\ Send(c) /\ UNCHANGED <<worker, process, serving, stdout, deaths>>
    BY <1>0, <2>1, <2>2, SendKeepsWInv
  <2>3. CASE /\ StartWorker /\ stage' = [stage EXCEPT ![c] = "ensuring"]
             /\ UNCHANGED <<outcome, nextId, pending, deaths>>
    <3>1. outcome' = [outcome EXCEPT ![c] = outcome[c]]
      BY <1>0, <2>3
    <3> QED
      BY <1>0, <2>1, <2>3, <3>1, CallMoves DEF Stage
  <2>4. CASE Settle({c}, Failure) /\ UNCHANGED <<nodeVars, workerVars>>
    <3>1. UNCHANGED <<nextId, pending, worker, process, serving, stdin, stdout>>
      BY <2>4 DEF nodeVars, workerVars
    <3> QED
      BY <1>0, <2>1, <2>4, <3>1, SettleOne, CallMoves DEF Stage
  <2> QED
    BY <1>2, <2>2, <2>3, <2>4 DEF FileWritten
<1>3. CASE WriteFails(c)
  <2>1. /\ stage[c] = "writing" /\ Settle({c}, Failure)
        /\ UNCHANGED <<file, nextId, pending, worker, process, serving, stdin, stdout>>
    BY <1>3 DEF WriteFails, nodeVars, workerVars
  <2> QED
    BY <1>0, <2>1, SettleOne, CallMoves DEF Stage
<1>4. CASE Ensured(c)
  <2>1. stage[c] = "ensuring" /\ c \in file
    BY <1>4 DEF Ensured, WInv, FileInv
  <2> QED
    BY <1>0, <1>4, <2>1, SendKeepsWInv DEF Ensured
<1>5. CASE Unlinked(c)
  <2>1. /\ stage[c] = "unlinking" /\ stage' = [stage EXCEPT ![c] = "done"] /\ file' = file \ {c}
        /\ UNCHANGED <<outcome, nextId, pending, worker, process, serving, stdin, stdout>>
    BY <1>5 DEF Unlinked, nodeVars, workerVars
  <2>2. outcome' = [outcome EXCEPT ![c] = outcome[c]]
    BY <1>0, <2>1
  <2> QED
    BY <1>0, <2>1, <2>2, CallMoves DEF Stage
<1> QED
  BY <1>1, <1>2, <1>3, <1>4, <1>5 DEF CallStep

\* Every step keeps the invariant.
LEMMA StepKeepsWInv == WInv /\ [WhisperNext]_whisperVars => WInv'
<1> SUFFICES ASSUME WInv, [WhisperNext]_whisperVars PROVE WInv'
  OBVIOUS
<1>1. CASE \E c \in Call : Transcribe(c) \/ CallStep(c)
  BY <1>1, CallStepKeepsWInv
<1>2. CASE UNCHANGED whisperVars
  <2>1. UNCHANGED <<stage, outcome, file, worker, nextId, pending, process, serving, stdin, stdout>>
    BY <1>2 DEF whisperVars, callVars, nodeVars, workerVars
  <2>2. TypeOK' /\ MapInv' /\ FileInv' /\ TranscriptIsOwn' /\ ProcessInv' /\ OrderInv'
    BY <2>1 DEF WInv, TypeOK, MapInv, FileInv, TranscriptIsOwn, ProcessInv, OrderInv
  <2>3. PipeInv'
    BY <2>1 DEF WInv, PipeInv, RequestOK, ReplyOK, Awaited
  <2> QED
    BY <2>2, <2>3 DEF WInv
<1> QED
  BY <1>1, <1>2, LineKeepsWInv, ExitKeepsWInv, ServeKeepsWInv, AnswerKeepsWInv, ProcessKeepsWInv
     DEF WhisperNext

\* The inductive invariant of the adapter and its worker.
LEMMA WhisperInvariance == WhisperSpec => []WInv
<1> QED
  BY InitWInv, StepKeepsWInv, PTL DEF WhisperSpec

----------------------------------------------------------------------------
(* Theorems                                                                *)

\* A call that returns a transcript returns that of its own audio, whatever
\* calls overlap with it and whenever workers die.
THEOREM TranscriptSafety == WhisperSpec => []TranscriptIsOwn
<1>1. WInv => TranscriptIsOwn
  BY DEF WInv
<1> QED
  BY <1>1, WhisperInvariance, PTL

\* The finally of transcribe() never removes a file that the worker may still
\* open: a request under way is one whose call waits.
THEOREM FileSafety == WhisperSpec => []FileOutlivesItsRequest
<1>1. WInv => FileOutlivesItsRequest
  <2> SUFFICES ASSUME WInv, NEW r \in Range(stdin) \cup ({serving} \ {NoRequest}) PROVE r.of \in file
    BY DEF FileOutlivesItsRequest
  <2>1. RequestOK(r)
    BY DEF WInv, TypeOK, PipeInv, Range
  <2>2. r.of \in Call /\ stage[r.of] = "awaiting"
    BY <2>1 DEF WInv, MapInv, RequestOK, Awaited
  <2> QED
    BY <2>2 DEF WInv, FileInv
<1> QED
  BY <1>1, WhisperInvariance, PTL
===============================================================================
