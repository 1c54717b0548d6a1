---------------------------- MODULE RoomSession ----------------------------
(***************************************************************************)
(* The life of one bot process: RoomClient's join and leave                *)
(* (src/room/client.ts, ws.ts, api.ts), main.ts around them, the launcher  *)
(* scripts/run-multi-agent.js and scripts/voices-kill.js, with the         *)
(* presence of the joined bot (Presence).                                  *)
(*                                                                         *)
(* A Ctrl-C in the launcher's terminal reaches the bot twice, from the     *)
(* terminal and from the launcher, and voices-kill may interrupt it again: *)
(* each SIGINT runs the handler, so leave() overlaps with itself.          *)
(* External: the Podium server, which keeps the bot in the room until it   *)
(* is told that the bot leaves, and the operating system.  wsOpen says     *)
(* something from connect() on.                                            *)
(***************************************************************************)
EXTENDS Presence

CONSTANTS
  MaxEvents,    \* bound: user.joined messages on their way at a time
  SessionFaults \* "api": requests are refused; "start": the browser fails

ASSUME MaxEventsAssumption == MaxEvents \in Nat
ASSUME SessionFaultsAssumption == SessionFaults \subseteq {"api", "start"}

\* Who sends SIGINT to the bot, each once.
Signal == {"terminal", "launcher", "killer"}

VARIABLES
  stage,        \* of main() and join(): what it awaits; "main" after it
  joinTimer,    \* the 15 s of joinOutpost: "off", "on"
  joinEvents,   \* user.joined messages on their way: the bot's "own", or "other"
  room,         \* Podium has the bot "out" of the outpost, "asked", "in"
  leaving,      \* each SIGINT's leave(): "none", "jitsi", "api"
  proc,         \* the bot's process: "up", "dying" by SIGKILL, "gone"
  exit,         \* how it ended: "none", "clean", "error", "signal"
  launcher,     \* "up", "interrupted", "gone"
  pidFile,      \* the PID file of the bot exists
  killer        \* voices-kill: what it does next

joinVars == <<stage, joinTimer, joinEvents>>
procVars == <<leaving, proc, exit>>
toolVars == <<launcher, pidFile, killer>>
sessionVars == <<vars, joinVars, room, procVars, toolVars>>

\* The launcher has spawned the bot and written its PID file.
SessionInit ==
  /\ Init
  /\ stage = "profile" /\ joinTimer = "off" /\ joinEvents = <<>>
  /\ leaving = [s \in Signal |-> "none"]
  /\ room = "out"
  /\ proc = "up" /\ exit = "none"
  /\ launcher = "up" /\ pidFile = TRUE /\ killer = "idle"

\* The process ends, and with it what it kept in memory, which is as at the
\* start here; the system closes its sockets.
Exit(how) ==
  /\ proc' = "gone"
  /\ exit' = how
  /\ wsOpen' = FALSE
  /\ activeAllowedCount' = 0 /\ forceMuted' = FALSE
  /\ utterances' = [u \in Utterance |-> "none"]
  /\ tts' = [u \in Utterance |-> "new"]
  /\ phase' = "joined" /\ remaining' = "unknown" /\ snapshot' = serverTime
  /\ inbox' = <<>>
  /\ stage' = "profile" /\ joinTimer' = "off" /\ joinEvents' = <<>>
  /\ leaving' = [s \in Signal |-> "none"]
  /\ UNCHANGED <<isCreator, roomShows, serverTime, changes>>

----------------------------------------------------------------------------
(* join()                                                                  *)

\* The request that join() awaits is answered, or the connection made.
Awaits(what) == proc = "up" /\ stage = what

Proceed(to) ==
  /\ stage' = to
  /\ UNCHANGED <<vars, joinEvents, room, procVars, toolVars>>

AfterJoin == IF isCreator THEN "creator" ELSE "jitsi"

ProfileAnswered == Awaits("profile") /\ Proceed("outpost") /\ UNCHANGED joinTimer
OutpostAnswered == Awaits("outpost") /\ Proceed("connect") /\ UNCHANGED joinTimer
Connected == Awaits("connect") /\ Proceed("member") /\ UNCHANGED joinTimer
CreatorAnswered == Awaits("creator") /\ Proceed("jitsi") /\ UNCHANGED joinTimer
JitsiStarted == Awaits("jitsi") /\ Proceed("main") /\ UNCHANGED joinTimer

\* joinOutpost: the timer, the handler and JOIN, which is skipped unless open.
MemberAdded ==
  /\ Awaits("member")
  /\ stage' = "join"
  /\ joinTimer' = "on"
  /\ room' = IF wsOpen THEN "asked" ELSE room
  /\ UNCHANGED <<vars, joinEvents, procVars, toolVars>>

\* A request is refused, connect() rejects or start() throws: main().catch.
JoinFails ==
  /\ \/ \E what \in {"profile", "outpost", "member", "creator"} : "api" \in SessionFaults /\ Awaits(what)
     \/ "start" \in SessionFaults /\ (Awaits("connect") \/ Awaits("jitsi"))
  /\ Exit("error")
  /\ UNCHANGED <<room, toolVars>>

\* "Join timeout" rejects.
JoinTimesOut ==
  /\ proc = "up" /\ joinTimer = "on"
  /\ Exit("error")
  /\ UNCHANGED <<room, toolVars>>

Resolve == stage' = AfterJoin /\ joinTimer' = "off"

\* Faulty variants: whoever joined is taken for the bot; the wait is over with
\* the first user.joined although it goes on when it is not the bot's.
ResolveForAnyone(who) == Resolve
ResolveForgetsTimer(who) ==
  /\ joinTimer' = "off"
  /\ stage' = IF who = "own" THEN AfterJoin ELSE stage

\* Address or uuid match the bot's.
HandleJoinEvent(who) ==
  \/ who = "own" /\ Resolve
  \/ who = "other" /\ UNCHANGED <<stage, joinTimer>>

\* joinOutpost's handler; later the message concerns nobody here.
JoinEvent ==
  /\ proc = "up" /\ joinEvents # <<>>
  /\ joinEvents' = Tail(joinEvents)
  /\ IF stage = "join" THEN HandleJoinEvent(Head(joinEvents)) ELSE UNCHANGED <<stage, joinTimer>>
  /\ UNCHANGED <<vars, room, procVars, toolVars>>

----------------------------------------------------------------------------
(* The Podium server                                                       *)

\* It may also answer JOIN with an error, or never.
ServerJoins ==
  /\ room = "asked" /\ wsOpen
  /\ room' = "in"
  /\ joinEvents' = Append(joinEvents, "own")
  /\ UNCHANGED <<vars, stage, joinTimer, procVars, toolVars>>

OtherJoins ==
  /\ Awaits("join") /\ wsOpen
  /\ Len(joinEvents) < MaxEvents
  /\ joinEvents' = Append(joinEvents, "other")
  /\ UNCHANGED <<vars, stage, joinTimer, room, procVars, toolVars>>

\* What is on its way to the bot is lost with the connection.
SessionConnectionLost ==
  /\ proc = "up" /\ stage \notin {"profile", "outpost", "connect", "main"}
  /\ ConnectionLost
  /\ joinEvents' = <<>>
  /\ UNCHANGED <<stage, joinTimer, room, procVars, toolVars>>

----------------------------------------------------------------------------
(* SIGINT                                                                  *)

\* Faulty variant: a handler that finds leave() under way does not wait for it.
InterruptHandledOnce(s) ==
  \/ /\ \A t \in Signal : leaving[t] = "none"
     /\ leaving' = [leaving EXCEPT ![s] = "jitsi"]
     /\ UNCHANGED <<vars, joinVars, proc, exit>>
  \/ (\E t \in Signal : leaving[t] # "none") /\ Exit("clean")

\* The handler of main.ts: leave() starts with the Jitsi room.
InterruptHandled(s) ==
  /\ leaving' = [leaving EXCEPT ![s] = "jitsi"]
  /\ UNCHANGED <<vars, joinVars, proc, exit>>

\* main() installs the handler at its end; until then the default action.
Interrupt(s) ==
  /\ leaving[s] = "none"
  /\ \/ proc = "up" /\ Live /\ InterruptHandled(s)
     \/ proc = "up" /\ ~Live /\ Exit("signal")
     \/ proc # "up" /\ UNCHANGED <<vars, joinVars, procVars>>
  /\ UNCHANGED room

\* jitsi.leave() is over: LEAVE on the WebSocket, then the request.
LeaveJitsi(s) ==
  /\ proc = "up" /\ leaving[s] = "jitsi"
  /\ leaving' = [leaving EXCEPT ![s] = "api"]
  /\ room' = IF wsOpen THEN "out" ELSE room
  /\ UNCHANGED <<vars, joinVars, proc, exit, toolVars>>

\* The server takes the bot out; then ws.close() and process.exit(0).
LeaveAnswered(s) ==
  /\ proc = "up" /\ leaving[s] = "api"
  /\ room' = "out"
  /\ Exit("clean")
  /\ UNCHANGED toolVars

\* leave() rejects in a handler nobody awaits: an unhandled rejection.
LeaveRefused(s) ==
  /\ "api" \in SessionFaults \/ room = "out"
  /\ proc = "up" /\ leaving[s] = "api"
  /\ Exit("error")
  /\ UNCHANGED <<room, toolVars>>

----------------------------------------------------------------------------
(* The launcher and voices-kill                                            *)

\* Ctrl-C: the terminal interrupts the bot and the launcher,
CtrlC ==
  /\ launcher = "up"
  /\ launcher' = "interrupted"
  /\ Interrupt("terminal")
  /\ UNCHANGED <<pidFile, killer>>

\* whose handler interrupts the bot again and exits at once.
LauncherExits ==
  /\ launcher = "interrupted"
  /\ launcher' = "gone"
  /\ Interrupt("launcher")
  /\ UNCHANGED <<pidFile, killer>>

ChildExit ==
  /\ launcher # "gone" /\ proc = "gone" /\ pidFile
  /\ pidFile' = FALSE
  /\ UNCHANGED <<vars, joinVars, room, procVars, launcher, killer>>

\* killPid, with its sleeps between the steps; `next` is what it does after.
Kill(at, next, unlink) ==
  /\ killer = at
  /\ killer' = next
  /\ pidFile' = (pidFile /\ ~unlink)
  /\ UNCHANGED launcher

\* Faulty variant: the PID file goes whatever became of the process.
UnlinkAlways == TRUE

\* After the last look: "sigkill_ok" and not "still_alive".
UnlinkAfterKill == proc = "gone"

\* isAlive takes every error of kill(pid, 0) for a process that is gone
\* (voices-kill.js:28): EPERM, of another user's bot, is left out, and so is a PID
\* file that holds no number, which the script removes (line 78).
KillerFinds ==
  /\ pidFile
  /\ \/ proc = "gone" /\ Kill("idle", "done", TRUE)
     \/ proc # "gone" /\ Kill("idle", "sigint", FALSE)
  /\ UNCHANGED <<vars, joinVars, room, procVars>>

\* "sigint_failed" when the process ended since isAlive.
KillerInterrupts ==
  /\ \/ proc = "gone" /\ Kill("sigint", "done", FALSE)
     \/ proc # "gone" /\ Kill("sigint", "check", FALSE)
  /\ Interrupt("killer")

\* Faulty variant: SIGINT only.
CheckOnly ==
  /\ Kill("check", "done", proc = "gone")
  /\ UNCHANGED <<vars, joinVars, room, procVars>>

KillerChecks ==
  /\ \/ proc = "gone" /\ Kill("check", "done", TRUE)
     \/ proc # "gone" /\ Kill("check", "sigkill", FALSE)
  /\ UNCHANGED <<vars, joinVars, room, procVars>>

KillerKills ==
  /\ \/ proc = "gone" /\ Kill("sigkill", "done", FALSE) /\ UNCHANGED proc
     \/ proc = "up" /\ Kill("sigkill", "look", FALSE) /\ proc' = "dying"
  /\ UNCHANGED <<vars, joinVars, room, leaving, exit>>

KillerLooks ==
  /\ Kill("look", "done", UnlinkAfterKill)
  /\ UNCHANGED <<vars, joinVars, room, procVars>>

\* The system carries SIGKILL out.
Dies ==
  /\ proc = "dying"
  /\ Exit("signal")
  /\ UNCHANGED <<room, toolVars>>

----------------------------------------------------------------------------

\* What the joined bot does besides (Presence).
PresenceStep ==
  /\ proc = "up" /\ stage = "main"
  /\ Next
  /\ UNCHANGED <<joinVars, room, procVars, toolVars>>

JoinStep ==
  \/ ProfileAnswered \/ OutpostAnswered \/ Connected \/ MemberAdded
  \/ JoinEvent \/ CreatorAnswered \/ JitsiStarted

KillerStep == KillerInterrupts \/ KillerChecks \/ KillerKills \/ KillerLooks

SessionNext ==
  \/ JoinStep \/ JoinFails \/ JoinTimesOut
  \/ ServerJoins \/ OtherJoins \/ SessionConnectionLost
  \/ CtrlC \/ LauncherExits \/ ChildExit
  \/ \E s \in Signal : LeaveJitsi(s) \/ LeaveAnswered(s) \/ LeaveRefused(s)
  \/ KillerFinds \/ KillerStep \/ Dies
  \/ PresenceStep

\* Requests and connect() are answered or fail (fetch and the socket give up by
\* themselves), timers fire, and voices-kill and the system go on.  Nothing is
\* assumed of the server's user.joined or of leave().
SessionSpec ==
  /\ SessionInit /\ [][SessionNext]_sessionVars
  /\ WF_sessionVars(JoinStep) /\ WF_sessionVars(JoinTimesOut)
  /\ WF_sessionVars(KillerStep)
  /\ WF_sessionVars(Dies)

----------------------------------------------------------------------------
(* Properties                                                              *)

\* join() goes on only once Podium has this bot in the room, whoever else joins
\* in the meantime (ws.ts:96-107), and until its own leave() Podium keeps it.
JoinedIsInRoom ==
  stage \in {"creator", "jitsi", "main"} /\ (\A s \in Signal : leaving[s] \in {"none", "jitsi"})
    => room = "in"

\* A bot that ends by itself with success has left the outpost, however often
\* it was interrupted while leave() was under way (main.ts:331, client.ts:153).
CleanExitHasLeft == exit = "clean" => room = "out"

\* The launcher and voices-kill remove the PID file only of a process that is
\* gone: "Remove PID files once the process is confirmed dead" (voices-kill.js:8).
PidFileOutlivesBot == ~pidFile => proc = "gone"

\* Starting up comes to an end: the bot is in the room with its browser, or its
\* process ends, also when Podium never answers JOIN.
JoinSettles == <>(stage = "main" \/ proc = "gone")

\* A process that voices-kill found alive ends, also when leave() hangs.
KillSucceeds == killer = "sigint" ~> proc = "gone"
============================================================================
