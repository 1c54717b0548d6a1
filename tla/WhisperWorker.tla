--------------------------- MODULE WhisperWorker ---------------------------
(***************************************************************************)
(* The local Whisper adapter (adapters/asr/whisper-local.ts) and the       *)
(* Python worker it keeps (scripts/whisper_local_worker.py).               *)
(*                                                                         *)
(* Calls of transcribe() run next to each other: a batch turn, and         *)
(* streaming sessions that end.  Each writes its audio to a file, sends    *)
(* the worker a line with the file's name and a number, and removes the    *)
(* file when it has an answer.  The worker answers in order, and may fail  *)
(* to start or die at any moment; its exit reaches Node later, and a line  *)
(* it wrote before may be lost with it.  A call that finds no worker starts*)
(* one and goes on 10 ms later, whatever has become of it.  Nobody listens *)
(* for the errors of the process and of its stdin: they end Node.          *)
(***************************************************************************)
EXTENDS Naturals, FiniteSets, SequencesExt

CONSTANTS
  Call,          \* calls of transcribe()
  MaxDeaths      \* bound: workers that die

ASSUME WhisperAssumption == IsFiniteSet(Call) /\ MaxDeaths \in Nat

VARIABLES
  stage,         \* where a call is
  outcome,       \* what it will return: the call whose audio it heard, or a failure
  file,          \* calls whose audio file exists
  worker,        \* this.worker is set
  nextId,        \* this.nextId
  pending,       \* this.pending: request number -> call
  unhandled,     \* an error event or a rejection that nobody handles: Node exits
  process,       \* the worker's process
  serving,       \* the request it reads the file of
  stdin, stdout, \* requests and answers under way
  deaths         \* workers that have died

callVars == <<stage, outcome, file>>
nodeVars == <<worker, nextId, pending, unhandled>>
workerVars == <<process, serving, stdin, stdout, deaths>>
whisperVars == <<callVars, nodeVars, workerVars>>

NoRequest == [id |-> 0]
Failure == "failure"

WhisperInit ==
  /\ stage = [c \in Call |-> "idle"]
  /\ outcome = [c \in Call |-> "none"]
  /\ file = {}
  /\ worker = FALSE
  /\ nextId = 1
  /\ pending = << >>
  /\ unhandled = FALSE
  /\ process = "none"
  /\ serving = NoRequest
  /\ stdin = << >> /\ stdout = << >>
  /\ deaths = 0

Running == ~unhandled

\* A call has its result and removes its file: the finally of transcribe().
Settle(calls, result) ==
  /\ outcome' = [c \in Call |-> IF c \in calls THEN result ELSE outcome[c]]
  /\ stage' = [c \in Call |-> IF c \in calls THEN "unlinking" ELSE stage[c]]

----------------------------------------------------------------------------
(* transcribe() *)

\* An unsupported format is refused at once; else the file is written.
Transcribe(c) ==
  /\ Running /\ stage[c] = "idle"
  /\ \/ stage' = [stage EXCEPT ![c] = "writing"] /\ UNCHANGED outcome
     \/ /\ stage' = [stage EXCEPT ![c] = "done"]
        /\ outcome' = [outcome EXCEPT ![c] = Failure]
  /\ UNCHANGED <<file, nodeVars, workerVars>>

\* startWorker: stopWorker finds no worker, and the process gets new pipes.  A
\* process that cannot be spawned emits "error" in place of "exit".
StartWorker ==
  /\ worker' = TRUE
  /\ \/ process' = "starting" /\ UNCHANGED unhandled
     \/ process' = "dead" /\ unhandled' = TRUE
  /\ serving' = NoRequest /\ stdin' = << >> /\ stdout' = << >>

\* The map with the next number for call c.
WithRequest(c) == [i \in DOMAIN pending \cup {nextId} |-> IF i = nextId THEN c ELSE pending[i]]

\* Faulty variant: the answer is returned and not awaited, and the finally runs.
SendWithoutWaiting(c) ==
  /\ pending' = WithRequest(c)
  /\ nextId' = nextId + 1
  /\ stdin' = Append(stdin, [id |-> nextId, of |-> c])
  /\ Settle({c}, c)
  /\ UNCHANGED unhandled

\* transcribeFile after ensureWorker.  Without a worker the write throws; the
\* entry in `pending` stays.  To a worker that has died and whose exit is not
\* reported yet the write fails later, with an error event of stdin.
Send(c) ==
  /\ pending' = WithRequest(c)
  /\ nextId' = nextId + 1
  /\ unhandled' = (worker /\ process = "dead")
  /\ IF worker
     THEN /\ stage' = [stage EXCEPT ![c] = "awaiting"]
          /\ stdin' = Append(stdin, [id |-> nextId, of |-> c])
          /\ UNCHANGED outcome
     ELSE Settle({c}, Failure) /\ UNCHANGED stdin

\* The file is written.  With a worker the request goes out at once; else the
\* call starts one, if the script exists, and waits 10 ms.
FileWritten(c) ==
  /\ Running /\ stage[c] = "writing"
  /\ file' = file \cup {c}
  /\ \/ /\ worker /\ Send(c)
        /\ UNCHANGED <<worker, process, serving, stdout, deaths>>
     \/ /\ ~worker /\ StartWorker
        /\ stage' = [stage EXCEPT ![c] = "ensuring"]
        /\ UNCHANGED <<outcome, nextId, pending, deaths>>
     \/ /\ ~worker /\ Settle({c}, Failure)
        /\ UNCHANGED <<nodeVars, workerVars>>

WriteFails(c) ==
  /\ Running /\ stage[c] = "writing"
  /\ Settle({c}, Failure)
  /\ UNCHANGED <<file, nodeVars, workerVars>>

\* The 10 ms of ensureWorker are over.
Ensured(c) ==
  /\ Running /\ stage[c] = "ensuring"
  /\ Send(c)
  /\ UNCHANGED <<file, worker, process, serving, stdout, deaths>>

\* The file is gone and the call returns.
Unlinked(c) ==
  /\ Running /\ stage[c] = "unlinking"
  /\ stage' = [stage EXCEPT ![c] = "done"]
  /\ file' = file \ {c}
  /\ UNCHANGED <<outcome, nodeVars, workerVars>>

----------------------------------------------------------------------------
(* Events of the worker *)

\* Faulty variant: requests are answered in order, so no number is compared.
OldestAnswered(answer) == {i \in DOMAIN pending : \A j \in DOMAIN pending : i <= j}

\* The request a line is about, if it is still pending.
Answered(answer) == {answer.id} \cap DOMAIN pending

\* rl.on("line")
Line ==
  /\ Running /\ worker /\ stdout # << >>
  /\ LET ids == Answered(Head(stdout))
     IN  /\ pending' = [i \in DOMAIN pending \ ids |-> pending[i]]
         /\ Settle({pending[i] : i \in ids}, Head(stdout).result)
  /\ stdout' = Tail(stdout)
  /\ UNCHANGED <<file, worker, nextId, unhandled, process, serving, stdin, deaths>>

\* Faulty variant: the pending map is cleared, as in stopWorker.
Forget(calls) == UNCHANGED <<stage, outcome>>

RejectAll(calls) == Settle({c \in calls : stage[c] = "awaiting"}, Failure)

\* child.on("exit"): every pending request is rejected, also one whose call has
\* thrown before it could await it.
Exited ==
  /\ Running /\ worker /\ process = "dead"
  /\ RejectAll(Range(pending))
  /\ unhandled' = (\E c \in Range(pending) : stage[c] # "awaiting")
  /\ pending' = << >>
  /\ worker' = FALSE
  /\ process' = "none"
  /\ stdin' = << >> /\ stdout' = << >>
  /\ UNCHANGED <<file, nextId, serving, deaths>>

----------------------------------------------------------------------------
(* The worker *)

\* The model is loaded.  (A fatal startup error is Dies.)
Loaded ==
  /\ process = "starting"
  /\ process' = "ready"
  /\ UNCHANGED <<callVars, nodeVars, serving, stdin, stdout, deaths>>

Serve ==
  /\ process = "ready" /\ serving = NoRequest /\ stdin # << >>
  /\ serving' = Head(stdin)
  /\ stdin' = Tail(stdin)
  /\ UNCHANGED <<callVars, nodeVars, process, stdout, deaths>>

\* What the file holds is transcribed, or an exception reported.
Answer ==
  /\ process = "ready" /\ serving # NoRequest
  /\ \E result \in {Failure} \cup ({serving.of} \cap file) :
       stdout' = Append(stdout, [id |-> serving.id, result |-> result])
  /\ serving' = NoRequest
  /\ UNCHANGED <<callVars, nodeVars, process, stdin, deaths>>

Dies ==
  /\ process \in {"starting", "ready"} /\ deaths < MaxDeaths
  /\ process' = "dead"
  /\ serving' = NoRequest
  /\ deaths' = deaths + 1
  /\ UNCHANGED <<callVars, nodeVars, stdin, stdout>>

CallStep(c) == FileWritten(c) \/ WriteFails(c) \/ Ensured(c) \/ Unlinked(c)

WhisperNext ==
  \/ \E c \in Call : Transcribe(c) \/ CallStep(c)
  \/ Line \/ Exited
  \/ Loaded \/ Serve \/ Answer \/ Dies

WhisperSpec == WhisperInit /\ [][WhisperNext]_whisperVars

\* Timers, file operations and events come; a live worker works.
WhisperFairness ==
  /\ \A c \in Call : WF_whisperVars(CallStep(c))
  /\ WF_whisperVars(Line) /\ WF_whisperVars(Exited)
  /\ WF_whisperVars(Loaded) /\ WF_whisperVars(Serve) /\ WF_whisperVars(Answer)

FairWhisperSpec == WhisperSpec /\ WhisperFairness

----------------------------------------------------------------------------
(* Properties *)

\* A call that returns a transcript returns that of its own audio, although
\* calls overlap, workers die with answers under way and a call that threw
\* leaves its number in the map.
TranscriptIsOwn == \A c \in Call : outcome[c] \in {"none", Failure, c}

\* While a worker may still open a call's audio file, the file is there: the
\* finally of transcribe() never runs under a request that is being served.
FileOutlivesItsRequest ==
  process \in {"starting", "ready"} =>
    \A r \in Range(stdin) \cup ({serving} \ {NoRequest}) : r.of \in file

\* Every call returns or throws although there is no timeout, unless Node exits:
\* because the worker cannot be spawned (whisper-local.ts:152), because a request
\* is written to a worker that has died unnoticed (116), or because an entry that
\* nobody awaits is rejected (162).  A worker that dies in any other state leaves
\* no call waiting.
TranscribeReturns == \A c \in Call : stage[c] = "writing" ~> (stage[c] = "done" \/ unhandled)
=============================================================================
