--------------------------- MODULE DaemonLifecycle ---------------------------
(***************************************************************************)
(* One profile of the machine: the daemon processes that compete for it    *)
(* (cmd/abdim/main.go runDaemonServe, internal/daemon/runtime.go), the two *)
(* SDK logins of each (internal/bridge/loginmgr.go, .../abdim/adapter.go), *)
(* the lock and socket they share (internal/profile/lock_unix.go,          *)
(* internal/ipc/socket.go), the files setup writes (internal/profile), and *)
(* the commands that start, stop and call the daemon                       *)
(* (cmd/abdim/lifecycle.go, cmd/abdim/setup.go).                           *)
(*                                                                         *)
(* A command starts at most one daemon, which bears its name; First is a   *)
(* daemon of an earlier command.  pc[d], the next step of process d:       *)
(*   unborn, dead           not started, ended                             *)
(*   profile, user, bot     reads that file; SIGTERM kills it              *)
(*   lock                   AcquireLock                                    *)
(*   initUser, loginUser, initBot, loginBot    the two LoginMgr.Start      *)
(*   listen                 ipc.Listen                                     *)
(*   ready                  Start returned, the caller writes its response *)
(*   serving                Serve accepts                                  *)
(*   draining               Serve closed, waits for its connections        *)
(*   closing, stopBot, stopUser, unlock                                    *)
(*                          Shutdown, or failStart from stopBot on         *)
(* stage[c], the next step of command c: the calls of daemon.status are    *)
(* call, probeStop, pollStop, probeStart and pollStart.                    *)
(***************************************************************************)
EXTENDS Naturals, FiniteSets

CONSTANTS Cli,         \* the commands given, in any order and at once
          First, None,
          Plans,       \* what the commands are: a subset of [Cli -> Kind]
          MaxCrashes   \* bound: daemons killed without a chance to clean up

Kind == {"start", "stop", "restart", "setup", "call"}
Daemon == Cli \cup {First}
Identity == {"user", "bot"}
File == {"profile"} \cup Identity

ASSUME DaemonLifecycleAssumption ==
  /\ First \notin Cli /\ None \notin Cli \cup {First}
  /\ Plans \subseteq [Cli -> Kind]
  /\ MaxCrashes \in Nat

VARIABLES
  pc, term,    \* of each daemon: its next step, whether its context is done
  conf,        \* what it read: file -> the setup that wrote it, or None
  lock,        \* the process that holds the flock, or None
  sdk,         \* <<process, identity>> of the SDK contexts allocated
  path,        \* the process whose socket the socket file is, or None
  listening,   \* the processes whose socket is open
  conn,        \* of each command: its connection and how far the call got
  disk,        \* file -> the setup that wrote it; None: missing or empty
  kind, stage, \* of each command: what it is, its next step
  late,        \* its waitCtx is done
  said, about, \* what it printed in the end, and of which daemon
  crashes

system == <<lock, sdk, path, listening>>
process == <<pc, term, conf>>
command == <<stage, late, said, about>>
vars == <<process, system, conn, disk, kind, command, crashes>>

InitStage == [user |-> "initUser", bot |-> "initBot"]
LoginStage == [user |-> "loginUser", bot |-> "loginBot"]
AfterLogin == [user |-> "initBot", bot |-> "listen"]
AfterFile == [profile |-> "user", user |-> "bot", bot |-> "lock"]

Starting == {"initUser", "loginUser", "initBot", "loginBot", "listen"}
Serving == {"ready", "serving", "draining"}
Stopping == {"closing", "stopBot", "stopUser", "unlock"}
Step == File \cup Starting \cup Serving \cup Stopping \cup {"unborn", "lock", "dead"}

Asking == {"call", "probeStop", "pollStop", "probeStart", "pollStart"}
Writing == {"putUser", "putBot", "save"}
Stage == Asking \cup Writing \cup {"spawn", "done"}
Verdict == {"running", "already", "stopped", "not running", "answered",
            "unavailable", "failed"}
NoConn == [to |-> None, st |-> "none"]
Answered == {"ready", "stopped"}

FirstStage == [start |-> "probeStart", stop |-> "probeStop", restart |-> "probeStop",
               setup |-> "probeStop", call |-> "call"]

\* Nothing is configured yet; or First's setup was the last one, and First is
\* serving, or it stopped.
Init == /\ \E old \in {None, First}, up \in BOOLEAN :
             /\ up => old = First
             /\ disk = [f \in File |-> old]
             /\ pc = [d \in Daemon |-> IF up /\ d = First THEN "serving" ELSE "unborn"]
             /\ conf = [d \in Daemon |-> [f \in File |-> IF up /\ d = First THEN old ELSE None]]
             /\ lock = (IF up THEN First ELSE None)
             /\ sdk = (IF up THEN {First} \X Identity ELSE {})
             /\ path = (IF up THEN First ELSE None)
             /\ listening = (IF up THEN {First} ELSE {})
        /\ term = [d \in Daemon |-> FALSE]
        /\ conn = [c \in Cli |-> NoConn]
        /\ kind \in Plans
        /\ stage = [c \in Cli |-> FirstStage[kind[c]]]
        /\ late = [c \in Cli |-> FALSE]
        /\ said = [c \in Cli |-> None] /\ about = [c \in Cli |-> None]
        /\ crashes = 0

Goto(d, step) == pc' = [pc EXCEPT ![d] = step]

\* The connections of d that end with an error for the client.
Reset(d, states) ==
  conn' = [c \in Cli |-> IF conn[c].to = d /\ conn[c].st \in states
                         THEN [conn[c] EXCEPT !.st = "reset"] ELSE conn[c]]

\* The process ends.  The system takes its flock, sockets and memory; the
\* socket file stays.  An answer already written can still be read.
End(d) == /\ Goto(d, "dead")
          /\ lock' = (IF lock = d THEN None ELSE lock)
          /\ sdk' = sdk \ ({d} \X Identity)
          /\ listening' = listening \ {d}
          /\ Reset(d, {"pending", "accepted"})
          /\ UNCHANGED <<term, conf, path>>

-----------------------------------------------------------------------------
\* The daemon: what it reads, and SIGTERM, which it handles from "lock" on.

Load(d) == /\ pc[d] = "profile" /\ disk.profile # None
           /\ conf' = [conf EXCEPT ![d].profile = disk.profile]
           /\ Goto(d, AfterFile.profile)
           /\ UNCHANGED <<term, system, conn>>

PrepareIdentity(d, i) ==
  /\ pc[d] = i /\ disk[i] # None
  /\ conf' = [conf EXCEPT ![d][i] = disk[i]]
  /\ Goto(d, AfterFile[i])
  /\ UNCHANGED <<term, system, conn>>

\* A file is missing, or another part cannot be put together.
ServeFails(d) == pc[d] \in File /\ End(d)

\* SIGTERM kills a process that has not come to NotifyContext; it holds nothing.
Signal(d) == /\ \/ pc[d] \in File /\ Goto(d, "dead") /\ UNCHANGED term
                \/ pc[d] = "dead" /\ UNCHANGED <<pc, term>>
                \/ pc[d] \notin File \cup {"dead"} /\ UNCHANGED pc
                   /\ term' = [term EXCEPT ![d] = TRUE]
             /\ UNCHANGED <<conf, system>>

-----------------------------------------------------------------------------
\* Runtime.Start: the lock, the two logins, the socket.  What fails goes on
\* at "stopBot", with the calls failStart makes.

\* Mutant: the lock file's content decides, not the lock itself.
AcquireLockEvenHeld(d) ==
  /\ pc[d] = "lock" /\ lock' = d /\ Goto(d, "initUser")
  /\ UNCHANGED <<term, conf, sdk, path, listening, conn>>

AcquireLock(d) ==
  /\ pc[d] = "lock"
  /\ \/ lock = None /\ lock' = d /\ Goto(d, "initUser")
     \/ UNCHANGED lock /\ Goto(d, "stopBot")
  /\ UNCHANGED <<term, conf, sdk, path, listening, conn>>

InitSDK(d, i) ==
  /\ pc[d] = InitStage[i]
  /\ \/ ~term[d] /\ sdk' = sdk \cup {<<d, i>>} /\ Goto(d, LoginStage[i])
     \/ UNCHANGED sdk /\ Goto(d, "stopBot")
  /\ UNCHANGED <<term, conf, lock, path, listening, conn>>

\* The service accepts a token for its own account only.
TokenAccepted(d, i) == conf[d][i] = conf[d].profile

\* Mutant: the error of Login is not looked at.
LoginReleasesOnly(d, i) ==
  /\ pc[d] = LoginStage[i] /\ Goto(d, AfterLogin[i])
  /\ \/ TokenAccepted(d, i) /\ UNCHANGED sdk
     \/ sdk' = sdk \ {<<d, i>>}
  /\ UNCHANGED <<term, conf, lock, path, listening, conn>>

\* A login that fails releases its own SDK context (failAndRelease).
Login(d, i) ==
  /\ pc[d] = LoginStage[i]
  /\ \/ TokenAccepted(d, i) /\ Goto(d, AfterLogin[i]) /\ UNCHANGED sdk
     \/ sdk' = sdk \ {<<d, i>>} /\ Goto(d, "stopBot")
  /\ UNCHANGED <<term, conf, lock, path, listening, conn>>

\* An old socket is removed, then its own bound; either may fail.
Listen(d) == /\ pc[d] = "listen"
             /\ \/ /\ path' = d /\ listening' = listening \cup {d}
                   /\ Goto(d, "ready")
                \/ path' \in {path, None} /\ UNCHANGED listening /\ Goto(d, "stopBot")
             /\ UNCHANGED <<term, conf, lock, sdk, conn>>

\* The response is written, or Shutdown is called at once.
WriteResponse(d) == /\ pc[d] = "ready"
                    /\ Goto(d, "serving") \/ Goto(d, "closing")
                    /\ UNCHANGED <<term, conf, system, conn>>

-----------------------------------------------------------------------------
\* Server.Serve and Close.

Accept(d, c) == /\ pc[d] = "serving" /\ d \in listening
                /\ conn[c] = [to |-> d, st |-> "pending"]
                /\ conn' = [conn EXCEPT ![c].st = "accepted"]
                /\ UNCHANGED <<process, system>>

\* daemon.status through the dispatcher; Shutdown sets r.state first.
Handle(d, c) ==
  /\ conn[c] = [to |-> d, st |-> "accepted"]
  /\ conn' = [conn EXCEPT ![c].st = IF pc[d] \in Serving THEN "ready" ELSE "stopped"]
  /\ UNCHANGED <<process, system>>

\* The socket file goes first, whosever it is, then the socket with its backlog.
CloseListener(d) == /\ path' = IF d \in listening THEN None ELSE path
                    /\ listening' = listening \ {d}
                    /\ Reset(d, {"pending"})

\* Mutant: Serve does not watch its context.
ContextUnwatched(d) == FALSE

ContextDone(d) == /\ pc[d] = "serving" /\ term[d]
                  /\ CloseListener(d) /\ Goto(d, "draining")
                  /\ UNCHANGED <<term, conf, lock, sdk>>

\* s.paths.Wait: a connection lasts until the client closes it.
Drained(d) == /\ pc[d] = "draining"
              /\ \A c \in Cli : conn[c].to = d => conn[c].st \notin Answered \cup {"accepted"}
              /\ Goto(d, "stopBot")
              /\ UNCHANGED <<term, conf, system, conn>>

\* Accept fails for another reason: Serve returns without waiting.
AcceptFails(d) == /\ pc[d] = "serving" /\ Goto(d, "closing")
                  /\ UNCHANGED <<term, conf, system, conn>>

-----------------------------------------------------------------------------
\* Runtime.Shutdown, and the same calls in failStart.

CloseServer(d) == /\ pc[d] = "closing"
                  /\ CloseListener(d) /\ Goto(d, "stopBot")
                  /\ UNCHANGED <<term, conf, lock, sdk>>

\* Mutant: the lock goes before the bot and the user.
StopBotAfterLock(d) ==
  /\ pc[d] = "stopBot" /\ Goto(d, "stopUser")
  /\ sdk' = sdk \ {<<d, "bot">>} /\ lock' = (IF lock = d THEN None ELSE lock)
  /\ UNCHANGED <<term, conf, path, listening, conn>>

\* inbound.Shutdown, then bot.Shutdown.
StopBot(d) == /\ pc[d] = "stopBot" /\ Goto(d, "stopUser")
              /\ sdk' = sdk \ {<<d, "bot">>}
              /\ UNCHANGED <<term, conf, lock, path, listening, conn>>

StopUser(d) == /\ pc[d] = "stopUser" /\ Goto(d, "unlock")
               /\ sdk' = sdk \ {<<d, "user">>}
               /\ UNCHANGED <<term, conf, lock, path, listening, conn>>

\* The process ends with the lock's release; End frees it.
Release(d) == pc[d] = "unlock" /\ End(d)

\* The goroutine of runDaemonServe.
Main(d) == \/ Load(d) \/ \E i \in Identity : PrepareIdentity(d, i)
           \/ ServeFails(d)
           \/ AcquireLock(d) \/ \E i \in Identity : InitSDK(d, i) \/ Login(d, i)
           \/ Listen(d) \/ WriteResponse(d) \/ Drained(d)
           \/ CloseServer(d) \/ StopBot(d) \/ StopUser(d) \/ Release(d)

Serve(d, c) == Accept(d, c) \/ Handle(d, c)

Crash(d) == /\ crashes < MaxCrashes /\ pc[d] \notin {"unborn", "dead"}
            /\ crashes' = crashes + 1
            /\ End(d)
            /\ UNCHANGED <<disk, kind, command>>

-----------------------------------------------------------------------------
\* The commands.  Each call dials, waits for the answer and closes.


\* On to something that waits for a time of its own.
NextStage(c, s) == /\ stage' = [stage EXCEPT ![c] = s]
                   /\ late' = [late EXCEPT ![c] = FALSE]
                   /\ UNCHANGED <<said, about>>

Done(c, what, d) == /\ stage' = [stage EXCEPT ![c] = "done"]
                    /\ said' = [said EXCEPT ![c] = what]
                    /\ about' = [about EXCEPT ![c] = d]
                    /\ late' = [late EXCEPT ![c] = FALSE]

Dial(c) == /\ stage[c] \in Asking /\ conn[c] = NoConn
           /\ conn' = [conn EXCEPT ![c] = IF path \in listening /\ ~late[c]
                                          THEN [to |-> path, st |-> "pending"]
                                          ELSE [to |-> None, st |-> "reset"]]
           /\ UNCHANGED <<process, system, disk, command>>

\* Mutant: startDaemon polls without a deadline.
DeadlineOfStop(c) == /\ stage[c] = "pollStop"
                     /\ ~late[c] /\ late' = [late EXCEPT ![c] = TRUE]
                     /\ UNCHANGED <<process, system, conn, disk, stage, said, about>>

\* waitCtx of startDaemon (30 s) and stopDaemon (10 s), and the deadline it
\* puts on a connection.
Deadline(c) == /\ stage[c] \in {"pollStop", "pollStart"}
               /\ ~late[c] /\ late' = [late EXCEPT ![c] = TRUE]
               /\ UNCHANGED <<process, system, conn, disk, stage, said, about>>

Expire(c) == /\ late[c] /\ conn[c].st \in {"pending", "accepted"}
             /\ conn' = [conn EXCEPT ![c].st = "reset"]
             /\ UNCHANGED <<process, system, disk, command>>

\* readDaemonStatus returns: st is the state told, or "reset" for an error.
Returns(c, s, st) == /\ stage[c] = s /\ conn[c].st \in st
                     /\ conn' = [conn EXCEPT ![c] = NoConn]

\* runTypedCommand, runStatus.
CallReturns(c) == /\ Returns(c, "call", Answered \cup {"reset"})
                  /\ Done(c, IF conn[c].st = "reset" THEN "unavailable" ELSE "answered", None)
                  /\ UNCHANGED <<process, system, disk>>

\* What follows stopDaemon in runStop, runRestart and runSetupWith.
AfterStop(c, what) ==
  CASE kind[c] = "stop" -> Done(c, what, None)
    [] kind[c] = "restart" -> NextStage(c, "probeStart")
    [] kind[c] = "setup" -> NextStage(c, "putUser")

NotRunning(c) == /\ Returns(c, "probeStop", {"reset"})
                 /\ AfterStop(c, "not running")
                 /\ UNCHANGED <<process, system, disk>>

\* SIGTERM to the process that answered; one that ended since may be gone.
SendTerm(c) ==
  /\ Returns(c, "probeStop", Answered)
  /\ \/ Signal(conn[c].to) /\ NextStage(c, "pollStop")
     \/ /\ pc[conn[c].to] = "dead" /\ Done(c, "failed", None)
        /\ UNCHANGED <<process, system>>
  /\ UNCHANGED disk

Stopped(c) == /\ Returns(c, "pollStop", {"reset"})
              /\ AfterStop(c, "stopped")
              /\ UNCHANGED <<process, system, disk>>

\* The select takes the tick or the deadline, whichever is there.
StillRunning(c) ==
  /\ Returns(c, "pollStop", Answered)
  /\ UNCHANGED command \/ (late[c] /\ Done(c, "failed", None))
  /\ UNCHANGED <<process, system, disk>>

\* Setup's writes.  An error ends setup where it is, also one that comes after
\* the write.
Store(c, file, next, failed) ==
  /\ LET stored == [disk EXCEPT ![file] = c]
     IN  \/ disk' = stored /\ NextStage(c, next)
         \/ disk' \in {disk, stored} \cup failed /\ Done(c, "failed", None)
  /\ UNCHANGED <<process, system, conn>>

\* A token file is truncated first, and stays empty when the write fails; a
\* daemon that reads it in between fails as in ServeFails.
PutToken(c) == \/ stage[c] = "putUser" /\ Store(c, "user", "putBot", {[disk EXCEPT !.user = None]})
               \/ stage[c] = "putBot" /\ Store(c, "bot", "save", {[disk EXCEPT !.bot = None]})

\* The profile is renamed into its place.
Save(c) == stage[c] = "save" /\ Store(c, "profile", "probeStart", {})

AlreadyRunning(c) == /\ Returns(c, "probeStart", Answered)
                     /\ Done(c, "already", conn[c].to)
                     /\ UNCHANGED <<process, system, disk>>

ProbeFails(c) == /\ Returns(c, "probeStart", {"reset"})
                 /\ NextStage(c, "spawn")
                 /\ UNCHANGED <<process, system, disk>>

Spawn(c) == /\ stage[c] = "spawn"
            /\ \/ /\ disk.profile # None
                  /\ Goto(c, "profile") /\ NextStage(c, "pollStart")
               \/ UNCHANGED pc /\ Done(c, "failed", None)
            /\ UNCHANGED <<term, conf, system, conn, disk>>

Running(c) == /\ Returns(c, "pollStart", {"ready"})
              /\ Done(c, "running", conn[c].to)
              /\ UNCHANGED <<process, system, disk>>

\* Not ready, and the time is not up; signal 0 reaches a child that ended too,
\* while nobody has waited for it.
NotReady(c) ==
  /\ Returns(c, "pollStart", {"stopped", "reset"})
  /\ \/ ~late[c] /\ UNCHANGED command
     \/ pc[c] = "dead" /\ Done(c, "failed", None)
  /\ UNCHANGED <<process, system, disk>>

\* Mutant: the child is left alone when the time is up.
StartTimesOutQuietly(c) ==
  /\ late[c] /\ Returns(c, "pollStart", {"stopped", "reset"})
  /\ Done(c, "failed", None)
  /\ UNCHANGED <<process, system, disk>>

StartTimesOut(c) ==
  /\ late[c] /\ Returns(c, "pollStart", {"stopped", "reset"})
  /\ Signal(c) /\ Done(c, "failed", None)
  /\ UNCHANGED disk

Command(c) == \/ Dial(c) \/ Expire(c) \/ CallReturns(c)
              \/ NotRunning(c) \/ SendTerm(c) \/ Stopped(c) \/ StillRunning(c)
              \/ PutToken(c) \/ Save(c)
              \/ AlreadyRunning(c) \/ ProbeFails(c) \/ Spawn(c) \/ Running(c) \/ NotReady(c)
              \/ StartTimesOut(c)

-----------------------------------------------------------------------------
Daemons(A) == A /\ UNCHANGED <<disk, kind, command, crashes>>

Commands(A) == A /\ UNCHANGED <<kind, crashes>>

Next == \/ \E d \in Daemon : \/ Daemons(Main(d) \/ ContextDone(d) \/ AcceptFails(d))
                            \/ \E c \in Cli : Daemons(Serve(d, c))
                            \/ Crash(d)
        \/ \E c \in Cli : Commands(Command(c) \/ Deadline(c))

\* Goroutines and processes run, the calls Shutdown makes return (RunManager,
\* Inbound), a login has a timer, and time passes.  Nothing has to crash, no
\* accept has to fail.  Only the commands' calls can go on for ever (they poll):
\* one condition does for the steps of the daemons and the deadlines.
Fairness ==
  /\ WF_vars(\/ \E d \in Daemon : Daemons(Main(d) \/ ContextDone(d))
             \/ \E c \in Cli : Commands(Deadline(c)))
  /\ \A c \in Cli : /\ WF_vars(\E d \in Daemon : Daemons(Serve(d, c)))
                   /\ WF_vars(Commands(Command(c)))

Spec == Init /\ [][Next]_vars /\ Fairness

-----------------------------------------------------------------------------
\* Every variable has its type.
TypeOK ==
  /\ pc \in [Daemon -> Step] /\ term \in [Daemon -> BOOLEAN]
  /\ conf \in [Daemon -> [File -> Daemon \cup {None}]]
  /\ lock \in Daemon \cup {None} /\ sdk \subseteq Daemon \X Identity
  /\ path \in Daemon \cup {None} /\ listening \subseteq Daemon
  /\ conn \in [Cli -> [to : Daemon \cup {None},
                       st : {"none", "pending", "accepted", "reset"} \cup Answered]]
  /\ disk \in [File -> Daemon \cup {None}]
  /\ kind \in [Cli -> Kind] /\ stage \in [Cli -> Stage] /\ late \in [Cli -> BOOLEAN]
  /\ said \in [Cli -> Verdict \cup {None}] /\ about \in [Cli -> Daemon \cup {None}]
  /\ crashes \in 0..MaxCrashes

\* No process has an SDK context open, with the data directory and the token
\* that go with it, unless it holds the profile's lock (AcquireLock's comment,
\* docs/ARCHITECTURE.md:23): whatever fails half way through Start, whatever
\* is killed, and until the very end of Shutdown.
SdkUnderLock == \A s \in sdk : lock = s[1]

\* A daemon that listens can be reached: the socket file is its own and it
\* holds the lock.  Nobody's cleaning up, of a stale socket or at its own end,
\* takes away the file of the daemon that serves.
ListenerReachable == \A d \in listening : path = d /\ lock = d

\* A request is taken only by a daemon whose two identities are logged in and
\* that owns the profile (runtime.go, "It starts accepting RPC only after both
\* SDK identities are ready").
AcceptedWhenReady ==
  [][\A c \in Cli : conn[c].st = "pending" /\ conn'[c].st = "accepted"
       => {conn[c].to} \X Identity \subseteq sdk /\ lock = conn[c].to]_vars

\* A daemon that was told to stop ends, in whatever step the signal met it and
\* whoever is connected.
TermExits == <>[](\A d \in Daemon : term[d] => pc[d] = "dead")

\* A start that reports failure leaves no daemon of its own behind.
FailedStartEnds ==
  <>[](\A c \in Cli : said[c] = "failed" => pc[c] \in {"unborn", "dead"})

\* Every command returns.
CommandsReturn == <>(\A c \in Cli : stage[c] = "done")

\* "Setup complete" is about a daemon that runs what setup wrote (README.md:38),
\* as long as no other setup interferes, also when another command starts one.
SetupTakesEffect == \A c \in Cli :
  /\ kind[c] = "setup" /\ said[c] \in {"running", "already"} /\ about[c] \in Cli
  /\ \A b \in Cli \ {c} : kind[b] # "setup"
  => conf[about[c]] = [f \in File |-> c]
=============================================================================
