------------------------ MODULE DaemonLifecycleProofs ------------------------
(***************************************************************************)
(* Theorems of DaemonLifecycle, for any number of commands, daemons and    *)
(* crashes.                                                                *)
(*                                                                         *)
(* They rest on HoldsLock: from the lock it took to the end of its server  *)
(* a process is the one that holds it.  LoggedIn and ListensUp say what    *)
(* else a process has at which step, and Unspawned that a command starts   *)
(* its daemon once, so that no process begins anew with what it had.       *)
(***************************************************************************)
EXTENDS DaemonLifecycle, TLAPS

\* Both logins are done and none is undone.
Up == {"listen", "closing"} \cup Serving

\* From AcquireLock to the end of its server a process holds the lock.
HoldsLock == \A d \in Daemon : pc[d] \in Up \cup Starting => lock = d

\* A login that returned keeps its SDK context until Shutdown releases it.
LoggedIn ==
  \A d \in Daemon :
    /\ pc[d] \in Up \cup {"loginUser", "initBot", "loginBot"} => <<d, "user">> \in sdk
    /\ pc[d] \in Up \cup {"loginBot"} => <<d, "bot">> \in sdk

\* A socket is open only between Listen and the end of the server.
ListensUp == \A d \in listening : pc[d] \in {"ready", "serving", "closing"}

\* A command that has not come to Spawn has no daemon yet.
Unspawned == \A c \in Cli : stage[c] \notin {"pollStart", "done"} => pc[c] = "unborn"

\* Only the commands that stop a daemon come to stopDaemon.
Stops == {"probeStop", "pollStop"}

StopKind ==
  \A c \in Cli : stage[c] \in Stops => kind[c] \in {"stop", "restart", "setup"}

\* What the processes have of the system.
Held == HoldsLock /\ LoggedIn /\ ListensUp /\ SdkUnderLock /\ ListenerReachable

\* The inductive invariant.
IInv == TypeOK /\ Unspawned /\ StopKind /\ Held

-----------------------------------------------------------------------------
\* The initial state has every type.
LEMMA TypeInit == Init => TypeOK
<1> SUFFICES ASSUME Init PROVE TypeOK
  OBVIOUS
<1>1. PICK old \in {None, First}, up \in BOOLEAN :
        /\ up => old = First
        /\ disk = [f \in File |-> old]
        /\ pc = [d \in Daemon |-> IF up /\ d = First THEN "serving" ELSE "unborn"]
        /\ conf = [d \in Daemon |-> [f \in File |-> IF up /\ d = First THEN old ELSE None]]
        /\ lock = (IF up THEN First ELSE None)
        /\ sdk = (IF up THEN {First} \X Identity ELSE {})
        /\ path = (IF up THEN First ELSE None)
        /\ listening = (IF up THEN {First} ELSE {})
  BY DEF Init
<1>2. First \in Daemon /\ old \in Daemon \cup {None}
  BY DEF Daemon
<1>3. pc \in [Daemon -> Step] /\ term \in [Daemon -> BOOLEAN]
  BY <1>1 DEF Init, Step, Serving
<1>4. conf \in [Daemon -> [File -> Daemon \cup {None}]] /\ disk \in [File -> Daemon \cup {None}]
  BY <1>1, <1>2
<1>5. /\ lock \in Daemon \cup {None} /\ sdk \subseteq Daemon \X Identity
      /\ path \in Daemon \cup {None} /\ listening \subseteq Daemon
  BY <1>1, <1>2
<1>6. conn \in [Cli -> [to : Daemon \cup {None},
                        st : {"none", "pending", "accepted", "reset"} \cup Answered]]
  BY DEF Init, NoConn
<1>7. kind \in [Cli -> Kind]
  BY DaemonLifecycleAssumption DEF Init
<1>8. stage \in [Cli -> Stage]
  BY <1>7 DEF Init, FirstStage, Kind, Stage, Asking
<1>9. /\ late \in [Cli -> BOOLEAN] /\ said \in [Cli -> Verdict \cup {None}]
      /\ about \in [Cli -> Daemon \cup {None}] /\ crashes \in 0..MaxCrashes
  BY DaemonLifecycleAssumption DEF Init
<1> QED
  BY <1>3, <1>4, <1>5, <1>6, <1>7, <1>8, <1>9 DEF TypeOK

\* Resetting connections keeps their type.
LEMMA ResetType ==
  ASSUME TypeOK, NEW d, NEW states, Reset(d, states)
  PROVE  conn' \in [Cli -> [to : Daemon \cup {None},
                            st : {"none", "pending", "accepted", "reset"} \cup Answered]]
<1> SUFFICES ASSUME NEW c \in Cli
             PROVE  (IF conn[c].to = d /\ conn[c].st \in states
                       THEN [conn[c] EXCEPT !.st = "reset"] ELSE conn[c])
                      \in [to : Daemon \cup {None},
                           st : {"none", "pending", "accepted", "reset"} \cup Answered]
  BY DEF Reset
<1> QED
  BY DEF TypeOK

\* The end of a process keeps every type.
LEMMA EndType ==
  ASSUME TypeOK, NEW d \in Daemon, End(d), UNCHANGED <<disk, kind, command>>,
         crashes' \in 0..MaxCrashes
  PROVE  TypeOK'
<1>1. conn' \in [Cli -> [to : Daemon \cup {None},
                         st : {"none", "pending", "accepted", "reset"} \cup Answered]]
  BY ResetType DEF End
<1> QED
  BY <1>1 DEF TypeOK, End, Goto, Step, command

\* A step of a daemon keeps every type.
LEMMA DaemonType ==
  ASSUME TypeOK, NEW d \in Daemon,
         Main(d) \/ ContextDone(d) \/ AcceptFails(d) \/ \E c \in Cli : Serve(d, c),
         UNCHANGED <<disk, kind, command, crashes>>
  PROVE  TypeOK'
<1> USE DEF Step, File, Starting, Serving, Stopping, Identity
<1> DEFINE Conns == [Cli -> [to : Daemon \cup {None},
                             st : {"none", "pending", "accepted", "reset"} \cup Answered]]
<1>1. SUFFICES /\ pc' \in [Daemon -> Step] /\ term' \in [Daemon -> BOOLEAN]
               /\ conf' \in [Daemon -> [File -> Daemon \cup {None}]]
               /\ lock' \in Daemon \cup {None} /\ sdk' \subseteq Daemon \X Identity
               /\ path' \in Daemon \cup {None} /\ listening' \subseteq Daemon
               /\ conn' \in Conns
  BY DEF TypeOK, command
<1>2. CASE Load(d)
  BY <1>2 DEF Load, Goto, AfterFile, TypeOK, system
<1>3. CASE \E i \in Identity : PrepareIdentity(d, i)
  BY <1>3 DEF PrepareIdentity, Goto, AfterFile, TypeOK, system
<1>4. CASE ServeFails(d) \/ Release(d)
  BY <1>4, EndType DEF ServeFails, Release, TypeOK
<1>5. CASE AcquireLock(d)
  BY <1>5 DEF AcquireLock, Goto, TypeOK
<1>6. CASE \E i \in Identity : InitSDK(d, i) \/ Login(d, i)
  BY <1>6 DEF InitSDK, Login, Goto, LoginStage, AfterLogin, TypeOK
<1>7. CASE Listen(d) \/ StopBot(d) \/ StopUser(d)
  BY <1>7 DEF Listen, StopBot, StopUser, Goto, TypeOK
<1>8. CASE WriteResponse(d) \/ Drained(d) \/ AcceptFails(d)
  BY <1>8 DEF WriteResponse, Drained, AcceptFails, Goto, TypeOK, system
<1>9. CASE CloseServer(d) \/ ContextDone(d)
  <2>1. conn' \in Conns
    BY <1>9, ResetType DEF CloseServer, ContextDone, CloseListener
  <2> QED
    BY <1>9, <2>1 DEF CloseServer, ContextDone, CloseListener, Goto, TypeOK
<1>10. CASE \E c \in Cli : Serve(d, c)
  <2>1. PICK c \in Cli : Serve(d, c)
    BY <1>10
  <2>2. PICK st \in {"accepted", "ready", "stopped"} :
          conn' = [conn EXCEPT ![c] = [conn[c] EXCEPT !.st = st]]
    BY <2>1 DEF Serve, Accept, Handle
  <2>3. [conn[c] EXCEPT !.st = st] \in [to : Daemon \cup {None},
           st : {"none", "pending", "accepted", "reset"} \cup Answered]
    BY <2>2 DEF TypeOK, Answered
  <2>4. conn' \in Conns
    BY <2>2, <2>3 DEF TypeOK
  <2> QED
    BY <2>1, <2>4 DEF Serve, Accept, Handle, TypeOK, process, system
<1> QED
  BY <1>2, <1>3, <1>4, <1>5, <1>6, <1>7, <1>8, <1>9, <1>10 DEF Main

-----------------------------------------------------------------------------
\* The types of the connections, and of the variables of the commands.
Conns == [Cli -> [to : Daemon \cup {None},
                  st : {"none", "pending", "accepted", "reset"} \cup Answered]]

CommandOK == /\ stage \in [Cli -> Stage] /\ late \in [Cli -> BOOLEAN]
             /\ said \in [Cli -> Verdict \cup {None}]
             /\ about \in [Cli -> Daemon \cup {None}]

\* Where the next stage of a command can come from: stopDaemon is not begun
\* again, and a command that has started its daemon only ends.
Onwards(c) ==
  /\ \A b \in Cli \ {c} : stage'[b] = stage[b]
  /\ stage'[c] \in Stops => stage[c] \in Stops
  /\ stage[c] \in {"pollStart", "done"} => stage'[c] \in {"pollStart", "done"}

\* A command that goes on, or ends, keeps its types and starts nothing twice.
LEMMA StageMoves ==
  ASSUME TypeOK, NEW c \in Cli,
         \/ UNCHANGED command
         \/ \E s \in Stage : /\ NextStage(c, s) /\ stage[c] \notin {"pollStart", "done"}
                             /\ s \in Stops => stage[c] \in Stops
         \/ \E what \in Verdict, d \in Daemon \cup {None} : Done(c, what, d)
  PROVE  CommandOK' /\ Onwards(c)
<1>1. CASE UNCHANGED command
  BY <1>1 DEF TypeOK, command, CommandOK, Onwards
<1>2. CASE \E s \in Stage : /\ NextStage(c, s) /\ stage[c] \notin {"pollStart", "done"}
                            /\ s \in Stops => stage[c] \in Stops
  BY <1>2 DEF NextStage, TypeOK, CommandOK, Onwards
<1>3. CASE \E what \in Verdict, d \in Daemon \cup {None} : Done(c, what, d)
  BY <1>3 DEF Done, TypeOK, CommandOK, Onwards, Stage, Stops
<1> QED
  BY <1>1, <1>2, <1>3

\* What a step of command c may do to the daemons: start its own, or end one
\* that still reads its files.
Untouched(c) ==
  /\ UNCHANGED <<conf, system>>
  /\ \A d \in Daemon : \/ pc'[d] = pc[d]
                       \/ pc[d] \in File /\ pc'[d] = "dead"
                       \/ d = c /\ stage[c] = "spawn" /\ stage'[c] = "pollStart"
                          /\ pc'[d] = "profile"

\* SIGTERM leaves the system alone and ends only a process that still reads
\* its files.
LEMMA SignalMoves ==
  ASSUME TypeOK, NEW d, NEW c \in Cli, Signal(d)
  PROVE  /\ pc' \in [Daemon -> Step] /\ term' \in [Daemon -> BOOLEAN]
         /\ Untouched(c)
<1>1. \/ pc' = [pc EXCEPT ![d] = "dead"] /\ pc[d] \in File /\ term' = term
      \/ pc' = pc /\ (term' = term \/ term' = [term EXCEPT ![d] = TRUE])
  BY DEF Signal, Goto
<1> QED
  BY <1>1 DEF TypeOK, Signal, Step, Untouched

\* What follows stopDaemon goes on or ends.
LEMMA AfterStopMoves ==
  ASSUME TypeOK, StopKind, NEW c \in Cli, stage[c] \in Stops,
         NEW what \in Verdict, AfterStop(c, what)
  PROVE  CommandOK' /\ Onwards(c) /\ stage'[c] \notin Stops
<1>1. kind[c] \in {"stop", "restart", "setup"}
  BY DEF StopKind
<1>2. \/ Done(c, what, None)
      \/ NextStage(c, "probeStart")
      \/ NextStage(c, "putUser")
  BY <1>1 DEF AfterStop
<1>3. {"probeStart", "putUser"} \subseteq Stage \ Stops
  BY DEF Stage, Asking, Writing, Stops
<1>4. stage[c] \notin {"pollStart", "done"} /\ None \in Daemon \cup {None}
  BY DEF Stops
<1>5. CommandOK' /\ Onwards(c)
  BY <1>2, <1>3, <1>4, StageMoves
<1> QED
  BY <1>2, <1>3, <1>5 DEF Done, NextStage, TypeOK, Stops

\* A file of setup is written in full, or setup ends.
LEMMA StoreMoves ==
  ASSUME TypeOK, NEW c \in Cli, NEW file \in File, NEW next \in Stage \ Stops,
         NEW failed, failed \subseteq [File -> Daemon \cup {None}],
         stage[c] \in Writing, Store(c, file, next, failed)
  PROVE  /\ disk' \in [File -> Daemon \cup {None}]
         /\ CommandOK' /\ Onwards(c)
<1>1. [disk EXCEPT ![file] = c] \in [File -> Daemon \cup {None}]
  BY DEF TypeOK, Daemon
<1>2. disk' \in [File -> Daemon \cup {None}]
  BY <1>1 DEF Store, TypeOK
<1>3. NextStage(c, next) \/ Done(c, "failed", None)
  BY DEF Store
<1>4. stage[c] \notin {"pollStart", "done"} /\ "failed" \in Verdict
  BY DEF Writing, Verdict
<1> QED
  BY <1>2, <1>3, <1>4, StageMoves

\* A step of a command keeps every type and leaves the system alone.
LEMMA CommandMoves ==
  ASSUME TypeOK, StopKind, NEW c \in Cli, Command(c) \/ Deadline(c)
  PROVE  /\ pc' \in [Daemon -> Step] /\ term' \in [Daemon -> BOOLEAN]
         /\ conn' \in Conns /\ disk' \in [File -> Daemon \cup {None}]
         /\ CommandOK' /\ Onwards(c) /\ Untouched(c)
<1> DEFINE Quiet == UNCHANGED <<process, system>>
<1>1. Quiet => /\ pc' \in [Daemon -> Step] /\ term' \in [Daemon -> BOOLEAN]
               /\ Untouched(c)
  BY DEF TypeOK, process, Untouched
<1>2. UNCHANGED disk => disk' \in [File -> Daemon \cup {None}]
  BY DEF TypeOK
<1>3. UNCHANGED conn => conn' \in Conns
  BY DEF TypeOK, Conns
<1>4. ASSUME NEW s, NEW st, Returns(c, s, st) PROVE stage[c] = s /\ conn' \in Conns
  BY <1>4 DEF Returns, TypeOK, NoConn, Conns
<1>5. UNCHANGED command => CommandOK' /\ Onwards(c)
  BY StageMoves
<1>6. ASSUME NEW what \in Verdict, NEW d \in Daemon \cup {None}, Done(c, what, d)
      PROVE  CommandOK' /\ Onwards(c)
  BY <1>6, StageMoves
<1>7. ASSUME NEW s \in Stage \ Stops, NextStage(c, s), stage[c] \notin {"pollStart", "done"}
      PROVE  CommandOK' /\ Onwards(c)
  BY <1>7, StageMoves
<1>8. conn[c].to \in Daemon \cup {None}
  BY DEF TypeOK
<1>9. CASE Dial(c)
  <2>1. PICK to \in Daemon \cup {None}, st \in {"pending", "reset"} :
          conn' = [conn EXCEPT ![c] = [to |-> to, st |-> st]]
    BY <1>9 DEF Dial, TypeOK
  <2>2. conn' \in Conns
    BY <2>1 DEF TypeOK, Conns
  <2> QED
    BY <1>9, <1>1, <1>2, <1>5, <2>2 DEF Dial
<1>10. CASE Expire(c)
  <2>1. conn' \in Conns
    BY <1>10 DEF Expire, TypeOK, Conns
  <2> QED
    BY <1>10, <1>1, <1>2, <1>5, <2>1 DEF Expire
<1>11. CASE CallReturns(c)
  BY <1>11, <1>1, <1>2, <1>4, <1>6 DEF CallReturns, Verdict
<1>12. CASE NotRunning(c) \/ Stopped(c)
  BY <1>12, <1>1, <1>2, <1>4, AfterStopMoves DEF NotRunning, Stopped, Verdict, Stops
<1>13. CASE SendTerm(c)
  <2>1. stage[c] = "probeStop" /\ conn' \in Conns /\ disk' = disk
    BY <1>13, <1>4 DEF SendTerm
  <2>2. CASE Signal(conn[c].to) /\ NextStage(c, "pollStop")
    <3>1. CommandOK' /\ Onwards(c)
      BY <2>1, <2>2, StageMoves DEF Stage, Asking, Stops
    <3> QED
      BY <2>1, <2>2, <3>1, <1>2, SignalMoves
  <2>3. CASE Done(c, "failed", None) /\ Quiet
    BY <2>1, <2>3, <1>1, <1>2, <1>6 DEF Verdict
  <2> QED
    BY <1>13, <2>2, <2>3 DEF SendTerm
<1>14. CASE StillRunning(c)
  BY <1>14, <1>1, <1>2, <1>4, <1>5, <1>6 DEF StillRunning, Verdict
<1>15. CASE PutToken(c)
  <2>1. {[disk EXCEPT !.user = None]} \subseteq [File -> Daemon \cup {None}]
        /\ {[disk EXCEPT !.bot = None]} \subseteq [File -> Daemon \cup {None}]
    BY DEF TypeOK
  <2>2. /\ "user" \in File /\ "bot" \in File
        /\ "putBot" \in Stage \ Stops /\ "save" \in Stage \ Stops
        /\ "putUser" \in Writing /\ "putBot" \in Writing
    BY DEF File, Identity, Stage, Writing, Stops
  <2>3. disk' \in [File -> Daemon \cup {None}] /\ CommandOK' /\ Onwards(c)
    BY <1>15, <2>1, <2>2, StoreMoves DEF PutToken
  <2> QED
    BY <1>15, <1>1, <1>3, <2>3 DEF PutToken, Store
<1>16. CASE Save(c)
  <2>1. "profile" \in File /\ "probeStart" \in Stage \ Stops /\ "save" \in Writing
    BY DEF File, Stage, Asking, Writing, Stops
  <2>2. disk' \in [File -> Daemon \cup {None}] /\ CommandOK' /\ Onwards(c)
    BY <1>16, <2>1, StoreMoves DEF Save
  <2> QED
    BY <1>16, <1>1, <1>3, <2>2 DEF Save, Store
<1>17. CASE AlreadyRunning(c) \/ Running(c)
  BY <1>17, <1>1, <1>2, <1>4, <1>6, <1>8 DEF AlreadyRunning, Running, Verdict
<1>18. CASE ProbeFails(c)
  BY <1>18, <1>1, <1>2, <1>4, <1>7 DEF ProbeFails, Stage, Stops
<1>19. CASE Spawn(c)
  <2>1. UNCHANGED <<term, conf, system, conn, disk>> /\ stage[c] = "spawn"
    BY <1>19 DEF Spawn
  <2>2. CASE Goto(c, "profile") /\ NextStage(c, "pollStart")
    <3>1. CommandOK' /\ Onwards(c)
      BY <2>1, <2>2, StageMoves DEF Stage, Asking, Stops
    <3>2. stage'[c] = "pollStart"
      BY <2>2 DEF NextStage, TypeOK
    <3>3. pc' = [pc EXCEPT ![c] = "profile"] /\ c \in Daemon
      BY <2>2 DEF Goto, Daemon
    <3>4. pc' \in [Daemon -> Step] /\ Untouched(c)
      BY <2>1, <3>2, <3>3 DEF TypeOK, Untouched, Step, File
    <3> QED
      BY <2>1, <3>1, <3>4, <1>2, <1>3 DEF TypeOK
  <2>3. CASE UNCHANGED pc /\ Done(c, "failed", None)
    BY <2>1, <2>3, <1>1, <1>2, <1>3, <1>6 DEF Verdict, process
  <2> QED
    BY <1>19, <2>2, <2>3 DEF Spawn
<1>20. CASE NotReady(c)
  BY <1>20, <1>1, <1>2, <1>4, <1>5, <1>6 DEF NotReady, Verdict
<1>21. CASE StartTimesOut(c)
  BY <1>21, <1>2, <1>4, <1>6, SignalMoves DEF StartTimesOut, Verdict
<1>22. CASE Deadline(c)
  <2>1. CommandOK' /\ Onwards(c)
    BY <1>22 DEF Deadline, TypeOK, CommandOK, Onwards
  <2> QED
    BY <1>22, <1>1, <1>2, <1>3, <2>1 DEF Deadline
<1> QED
  BY <1>9, <1>10, <1>11, <1>12, <1>13, <1>14, <1>15, <1>16, <1>17, <1>18, <1>19,
     <1>20, <1>21, <1>22 DEF Command

-----------------------------------------------------------------------------
\* The invariant holds in the initial states.
LEMMA InvInit == Init => IInv
<1> SUFFICES ASSUME Init PROVE IInv
  OBVIOUS
<1>1. TypeOK
  BY TypeInit
<1>2. PICK old \in {None, First}, up \in BOOLEAN :
        /\ pc = [d \in Daemon |-> IF up /\ d = First THEN "serving" ELSE "unborn"]
        /\ lock = (IF up THEN First ELSE None)
        /\ sdk = (IF up THEN {First} \X Identity ELSE {})
        /\ path = (IF up THEN First ELSE None)
        /\ listening = (IF up THEN {First} ELSE {})
  BY DEF Init
<1>3. Unspawned
  BY <1>2, DaemonLifecycleAssumption DEF Unspawned, Daemon
<1>4. StopKind
  BY DaemonLifecycleAssumption DEF StopKind, Stops, Init, FirstStage, Kind
<1>5. HoldsLock /\ ListensUp /\ SdkUnderLock /\ ListenerReachable
  BY <1>2, DaemonLifecycleAssumption
     DEF HoldsLock, ListensUp, SdkUnderLock, ListenerReachable, Up, Starting, Serving, Daemon
<1>6. LoggedIn
  BY <1>2 DEF LoggedIn, Up, Serving, Identity, Daemon
<1> QED
  BY <1>1, <1>3, <1>4, <1>5, <1>6 DEF IInv, Held

\* Every step keeps every type.
LEMMA TypeNext == TypeOK /\ StopKind /\ [Next]_vars => TypeOK'
<1> SUFFICES ASSUME TypeOK, StopKind, [Next]_vars PROVE TypeOK'
  OBVIOUS
<1>1. CASE UNCHANGED vars
  BY <1>1 DEF TypeOK, vars, process, system, command
<1>2. ASSUME NEW d \in Daemon, Daemons(Main(d) \/ ContextDone(d) \/ AcceptFails(d))
      PROVE  TypeOK'
  BY <1>2, DaemonType DEF Daemons
<1>3. ASSUME NEW d \in Daemon, NEW c \in Cli, Daemons(Serve(d, c)) PROVE TypeOK'
  BY <1>3, DaemonType DEF Daemons
<1>4. ASSUME NEW d \in Daemon, Crash(d) PROVE TypeOK'
  <2>1. crashes' \in 0..MaxCrashes
    BY <1>4, DaemonLifecycleAssumption DEF Crash, TypeOK
  <2> QED
    BY <1>4, <2>1, EndType DEF Crash
<1>5. ASSUME NEW c \in Cli, Commands(Command(c) \/ Deadline(c)) PROVE TypeOK'
  BY <1>5, CommandMoves DEF Commands, Untouched, system, CommandOK, Conns, TypeOK
<1> QED
  BY <1>1, <1>2, <1>3, <1>4, <1>5 DEF Next

\* A step of a daemon is a step of a process that was started.
LEMMA OwnStep ==
  ASSUME TypeOK, NEW d \in Daemon,
         \/ Main(d) \/ ContextDone(d) \/ AcceptFails(d) \/ Crash(d)
         \/ \E c \in Cli : Serve(d, c)
  PROVE  \A e \in Daemon : pc'[e] = pc[e] \/ (e = d /\ pc[e] # "unborn")
<1> USE DEF Goto, TypeOK
<1>1. CASE Load(d) \/ \E i \in Identity : PrepareIdentity(d, i)
  BY <1>1 DEF Load, PrepareIdentity, Identity
<1>2. CASE ServeFails(d) \/ Release(d) \/ Crash(d)
  BY <1>2 DEF ServeFails, Release, Crash, End, File, Identity
<1>3. CASE AcquireLock(d) \/ Listen(d) \/ WriteResponse(d) \/ Drained(d)
  BY <1>3 DEF AcquireLock, Listen, WriteResponse, Drained
<1>4. CASE \E i \in Identity : InitSDK(d, i) \/ Login(d, i)
  BY <1>4 DEF InitSDK, Login, InitStage, LoginStage, Identity
<1>5. CASE CloseServer(d) \/ StopBot(d) \/ StopUser(d) \/ ContextDone(d) \/ AcceptFails(d)
  BY <1>5 DEF CloseServer, StopBot, StopUser, ContextDone, AcceptFails
<1>6. CASE \E c \in Cli : Serve(d, c)
  BY <1>6 DEF Serve, Accept, Handle, process
<1> QED
  BY <1>1, <1>2, <1>3, <1>4, <1>5, <1>6 DEF Main

\* No command starts its daemon twice, nor comes to stopDaemon unless it stops.
LEMMA UnspawnedNext == TypeOK /\ Unspawned /\ StopKind /\ [Next]_vars
                       => Unspawned' /\ StopKind'
<1> SUFFICES ASSUME TypeOK, Unspawned, StopKind, [Next]_vars
             PROVE  Unspawned' /\ StopKind'
  OBVIOUS
<1>1. CASE UNCHANGED vars
  BY <1>1 DEF Unspawned, StopKind, vars, process, command
<1>2. ASSUME NEW d \in Daemon,
             \/ Daemons(Main(d) \/ ContextDone(d) \/ AcceptFails(d))
             \/ \E c \in Cli : Daemons(Serve(d, c))
             \/ Crash(d)
      PROVE  Unspawned' /\ StopKind'
  <2>1. \A e \in Daemon : pc'[e] = pc[e] \/ (e = d /\ pc[e] # "unborn")
    BY <1>2, OwnStep DEF Daemons
  <2>2. UNCHANGED <<stage, kind>>
    BY <1>2 DEF Daemons, Crash, command
  <2> QED
    BY <2>1, <2>2 DEF Unspawned, StopKind, Daemon
<1>3. ASSUME NEW c \in Cli, Commands(Command(c) \/ Deadline(c))
      PROVE  Unspawned' /\ StopKind'
  <2>1. Onwards(c) /\ Untouched(c) /\ kind' = kind
    BY <1>3, CommandMoves DEF Commands
  <2>2. StopKind'
    BY <2>1 DEF StopKind, Onwards
  <2>3. Unspawned'
    BY <2>1 DEF Unspawned, Onwards, Untouched, Daemon, File, Identity
  <2> QED
    BY <2>2, <2>3
<1> QED
  BY <1>1, <1>2, <1>3 DEF Next

-----------------------------------------------------------------------------
\* The end of a process takes only what was its own.
LEMMA EndHeld ==
  ASSUME TypeOK, Held, NEW d \in Daemon, End(d)
  PROVE  Held'
<1>1. /\ pc' = [pc EXCEPT ![d] = "dead"] /\ path' = path
      /\ lock' = (IF lock = d THEN None ELSE lock)
      /\ sdk' = sdk \ ({d} \X Identity) /\ listening' = listening \ {d}
  BY DEF End, Goto
<1>2. HoldsLock' /\ ListensUp'
  BY <1>1 DEF Held, HoldsLock, ListensUp, TypeOK, Up, Starting, Serving
<1>3. LoggedIn'
  BY <1>1 DEF Held, LoggedIn, TypeOK, Up, Serving, Identity
<1>4. SdkUnderLock'
  <2> SUFFICES ASSUME NEW s \in sdk' PROVE lock' = s[1]
    BY DEF SdkUnderLock
  <2>1. s \in sdk /\ s[1] # d
    BY <1>1 DEF TypeOK
  <2> QED
    BY <1>1, <2>1 DEF Held, SdkUnderLock
<1>5. ListenerReachable'
  BY <1>1 DEF Held, ListenerReachable, TypeOK
<1> QED
  BY <1>2, <1>3, <1>4, <1>5 DEF Held

\* Whoever takes the lock finds no SDK context and no server.
LEMMA AcquireLockHeld ==
  ASSUME TypeOK, Held, NEW d \in Daemon, AcquireLock(d)
  PROVE  Held'
<1>1. CASE lock = None /\ lock' = d /\ Goto(d, "initUser")
  <2>1. sdk = {} /\ listening = {}
    BY <1>1, DaemonLifecycleAssumption
       DEF Held, SdkUnderLock, ListenerReachable, TypeOK, Daemon
  <2>2. \A e \in Daemon : pc[e] \notin Up \cup Starting
    BY <1>1, DaemonLifecycleAssumption DEF Held, HoldsLock, Daemon
  <2>3. UNCHANGED <<sdk, path, listening>>
    BY DEF AcquireLock
  <2>4. HoldsLock' /\ ListensUp' /\ SdkUnderLock' /\ ListenerReachable'
    BY <1>1, <2>1, <2>2, <2>3
       DEF Goto, TypeOK, HoldsLock, ListensUp, SdkUnderLock, ListenerReachable
  <2>5. LoggedIn'
    BY <1>1, <2>2, <2>3 DEF Goto, TypeOK, LoggedIn, Up, Starting, Serving
  <2> QED
    BY <2>4, <2>5 DEF Held
<1>2. CASE UNCHANGED lock /\ Goto(d, "stopBot")
  <2>1. UNCHANGED <<sdk, path, listening>> /\ pc[d] = "lock"
    BY DEF AcquireLock
  <2> QED
    BY <1>2, <2>1
       DEF Goto, TypeOK, Held, HoldsLock, LoggedIn, ListensUp, SdkUnderLock,
           ListenerReachable, Up, Starting, Serving
<1> QED
  BY <1>1, <1>2 DEF AcquireLock

\* The steps that change only the contexts of the process, which holds the lock.
LEMMA ContextHeld ==
  ASSUME TypeOK, Held, NEW d \in Daemon,
         \/ \E i \in Identity : InitSDK(d, i) \/ Login(d, i)
         \/ StopBot(d) \/ StopUser(d)
  PROVE  Held'
<1>1. UNCHANGED <<lock, path, listening>>
  BY DEF InitSDK, Login, StopBot, StopUser
<1>2. \A s \in sdk' : s \in sdk \/ (s[1] = d /\ lock = d)
  BY DEF InitSDK, Login, StopBot, StopUser, Held, HoldsLock, InitStage, Starting, Identity
<1>3. SdkUnderLock' /\ ListenerReachable'
  BY <1>1, <1>2 DEF Held, SdkUnderLock, ListenerReachable
<1>4. HoldsLock' /\ ListensUp'
  BY <1>1 DEF InitSDK, Login, StopBot, StopUser, InitStage, LoginStage, AfterLogin, Identity,
              Goto, TypeOK, Held, HoldsLock, ListensUp, Up, Starting, Serving
<1>5. LoggedIn'
  <2>1. CASE InitSDK(d, "user") \/ InitSDK(d, "bot")
    BY <2>1 DEF InitSDK, InitStage, LoginStage, Goto, TypeOK, Held, LoggedIn, Up, Serving
  <2>2. CASE Login(d, "user") \/ Login(d, "bot")
    BY <2>2 DEF Login, LoginStage, AfterLogin, Goto, TypeOK, Held, LoggedIn, Up, Serving
  <2>3. CASE StopBot(d) \/ StopUser(d)
    BY <2>3 DEF StopBot, StopUser, Goto, TypeOK, Held, LoggedIn, Up, Serving
  <2> QED
    BY <2>1, <2>2, <2>3 DEF Identity
<1> QED
  BY <1>3, <1>4, <1>5 DEF Held

\* The steps that open and close the server: the socket file that is removed,
\* or replaced, is the process's own or nobody's.
LEMMA ServerHeld ==
  ASSUME TypeOK, Held, NEW d \in Daemon, Listen(d) \/ CloseServer(d) \/ ContextDone(d)
  PROVE  Held'
<1>1. pc[d] \in {"listen", "closing", "serving"} /\ UNCHANGED <<lock, sdk>>
  BY DEF Listen, CloseServer, ContextDone
<1>2. lock = d /\ \A e \in listening : e = d
  BY <1>1 DEF Held, HoldsLock, ListenerReachable, Up, Serving
<1>3. SdkUnderLock'
  BY <1>1 DEF Held, SdkUnderLock
<1>4. ListenerReachable'
  BY <1>1, <1>2 DEF Held, ListenerReachable, ListensUp, Listen, CloseServer, ContextDone,
                    CloseListener
<1>5. HoldsLock' /\ ListensUp'
  BY <1>1, <1>2 DEF Held, HoldsLock, ListensUp, Listen, CloseServer, ContextDone,
                    CloseListener, Goto, TypeOK, Up, Starting, Serving
<1>6. LoggedIn'
  BY <1>1 DEF Held, LoggedIn, Listen, CloseServer, ContextDone, Goto, TypeOK, Up, Serving
<1> QED
  BY <1>3, <1>4, <1>5, <1>6 DEF Held

\* The steps that leave the system alone.
LEMMA QuietHeld ==
  ASSUME TypeOK, Held, UNCHANGED system,
         \A e \in Daemon : \/ pc'[e] = pc[e]
                           \/ pc'[e] \notin Up \cup Starting /\ e \notin listening
                           \/ pc[e] \in Serving /\ pc'[e] \in {"serving", "closing"}
  PROVE  Held'
<1>1. UNCHANGED <<lock, sdk, path, listening>>
  BY DEF system
<1>2. SdkUnderLock' /\ ListenerReachable'
  BY <1>1 DEF Held, SdkUnderLock, ListenerReachable
<1>3. HoldsLock'
  BY <1>1 DEF Held, HoldsLock, Up, Starting, Serving
<1>4. LoggedIn'
  BY <1>1 DEF Held, LoggedIn, Up, Starting, Serving
<1>5. ListensUp'
  BY <1>1 DEF Held, ListensUp, TypeOK
<1> QED
  BY <1>2, <1>3, <1>4, <1>5 DEF Held

\* Every step keeps what the processes have of the system.
LEMMA HeldNext == IInv /\ [Next]_vars => Held'
<1> SUFFICES ASSUME IInv, [Next]_vars PROVE Held'
  OBVIOUS
<1>1. TypeOK /\ Held /\ Unspawned /\ StopKind
  BY DEF IInv
<1>2. \A d \in listening : pc[d] \in {"ready", "serving", "closing"}
  BY <1>1 DEF Held, ListensUp
<1>3. CASE UNCHANGED vars
  BY <1>1, <1>3, QuietHeld DEF vars, process
<1>4. ASSUME NEW d \in Daemon, Main(d) \/ ContextDone(d) \/ AcceptFails(d)
      PROVE  Held'
  <2>1. CASE Load(d) \/ \E i \in Identity : PrepareIdentity(d, i)
    <3>1. pc[d] \in File /\ UNCHANGED system
      BY <2>1 DEF Load, PrepareIdentity, File
    <3>2. pc' = [pc EXCEPT ![d] = pc'[d]] /\ pc'[d] \in {"user", "bot", "lock"}
      BY <1>1, <2>1 DEF Load, PrepareIdentity, Goto, AfterFile, TypeOK, File, Identity
    <3>3. d \notin listening
      BY <1>2, <3>1 DEF File, Identity
    <3>4. \A e \in Daemon : \/ pc'[e] = pc[e]
                            \/ pc'[e] \notin Up \cup Starting /\ e \notin listening
      BY <1>1, <3>2, <3>3 DEF TypeOK, Up, Starting, Serving
    <3> QED
      BY <1>1, <3>1, <3>4, QuietHeld
  <2>2. CASE ServeFails(d) \/ Release(d)
    BY <1>1, <2>2, EndHeld DEF ServeFails, Release
  <2>3. CASE WriteResponse(d) \/ Drained(d) \/ AcceptFails(d)
    <3>1. \A e \in Daemon : \/ pc'[e] = pc[e]
                            \/ pc'[e] \notin Up \cup Starting /\ e \notin listening
                            \/ pc[e] \in Serving /\ pc'[e] \in {"serving", "closing"}
      BY <1>1, <1>2, <2>3 DEF WriteResponse, Drained, AcceptFails, Goto, TypeOK,
                              Up, Starting, Serving
    <3> QED
      BY <1>1, <2>3, <3>1, QuietHeld DEF WriteResponse, Drained, AcceptFails
  <2> QED
    BY <1>1, <1>4, <2>1, <2>2, <2>3, AcquireLockHeld, ContextHeld, ServerHeld DEF Main
<1>5. ASSUME NEW d \in Daemon, NEW c \in Cli, Serve(d, c) PROVE Held'
  BY <1>1, <1>5, QuietHeld DEF Serve, Accept, Handle, process
<1>6. ASSUME NEW d \in Daemon, Crash(d) PROVE Held'
  BY <1>1, <1>6, EndHeld DEF Crash
<1>7. ASSUME NEW c \in Cli, Command(c) \/ Deadline(c) PROVE Held'
  <2>1. Untouched(c)
    BY <1>1, <1>7, CommandMoves
  <2>2. stage[c] = "spawn" => pc[c] = "unborn"
    BY <1>1 DEF Unspawned
  <2>3. \A e \in Daemon : \/ pc'[e] = pc[e]
                          \/ pc'[e] \notin Up \cup Starting /\ e \notin listening
    BY <1>2, <2>1, <2>2 DEF Untouched, Up, Starting, Serving, File, Identity
  <2> QED
    BY <1>1, <2>1, <2>3, QuietHeld DEF Untouched
<1> QED
  BY <1>3, <1>4, <1>5, <1>6, <1>7 DEF Next, Daemons, Commands

\* The invariant is inductive.
LEMMA InvNext == IInv /\ [Next]_vars => IInv'
<1> SUFFICES ASSUME IInv, [Next]_vars PROVE IInv'
  OBVIOUS
<1>1. TypeOK' /\ Unspawned' /\ StopKind'
  BY TypeNext, UnspawnedNext DEF IInv
<1>2. Held'
  BY HeldNext
<1> QED
  BY <1>1, <1>2 DEF IInv

\* The invariant holds in every behaviour.
THEOREM Invariant == Spec => []IInv
<1>1. Init => IInv
  BY InvInit
<1>2. IInv /\ [Next]_vars => IInv'
  BY InvNext
<1> QED
  BY <1>1, <1>2, PTL DEF Spec

\* Every variable has its type, whatever the commands and daemons do.
THEOREM TypeCorrect == Spec => []TypeOK
<1>1. IInv => TypeOK
  BY DEF IInv
<1> QED
  BY <1>1, Invariant, PTL

\* An SDK context is open only in the process that holds the profile's lock
\* (failStart, Shutdown and the end of a process, in runtime.go and main.go).
THEOREM SdkLocked == Spec => []SdkUnderLock
<1>1. IInv => SdkUnderLock
  BY DEF IInv, Held
<1> QED
  BY <1>1, Invariant, PTL

\* A daemon that listens can be reached: no Listen and no Close, of this
\* process or of another, takes its socket file away (ipc/socket.go).
THEOREM Reachable == Spec => []ListenerReachable
<1>1. IInv => ListenerReachable
  BY DEF IInv, Held
<1> QED
  BY <1>1, Invariant, PTL

\* A call is taken from the backlog by Accept only.
LEMMA OnlyAccept ==
  ASSUME TypeOK, [Next]_vars, NEW c \in Cli,
         conn[c].st = "pending", conn'[c].st = "accepted"
  PROVE  \E d \in Daemon : conn[c].to = d /\ pc[d] = "serving"
<1>1. conn \in Conns
  BY DEF TypeOK, Conns
<1>2. conn' # conn
  OBVIOUS
<1>3. ASSUME NEW d, NEW states, Reset(d, states) PROVE FALSE
  BY <1>3 DEF Reset
<1>4. ASSUME NEW b \in Cli, NEW st, conn' = [conn EXCEPT ![b].st = st], st # "accepted"
      PROVE  FALSE
  BY <1>1, <1>4 DEF Conns
<1>5. ASSUME NEW b \in Cli, NEW s, NEW st, Returns(b, s, st) PROVE FALSE
  BY <1>1, <1>5 DEF Returns, Conns, NoConn
<1>6. CASE \E b \in Cli : Commands(Command(b) \/ Deadline(b))
  <2>1. PICK b \in Cli : Command(b) \/ Deadline(b)
    BY <1>6 DEF Commands
  <2>2. CASE Dial(b)
    BY <1>1, <2>2 DEF Dial, Conns
  <2>3. CASE Expire(b)
    BY <1>4, <2>3 DEF Expire
  <2>4. CASE PutToken(b) \/ Save(b) \/ Spawn(b) \/ Deadline(b)
    BY <1>2, <2>4 DEF PutToken, Save, Store, Spawn, Deadline
  <2> QED
    BY <1>5, <2>1, <2>2, <2>3, <2>4
       DEF Command, CallReturns, NotRunning, SendTerm, Stopped, StillRunning,
           AlreadyRunning, ProbeFails, Running, NotReady, StartTimesOut
<1>7. CASE \E d \in Daemon : Daemons(Main(d) \/ ContextDone(d) \/ AcceptFails(d)) \/ Crash(d)
  <2>1. PICK d \in Daemon : Main(d) \/ ContextDone(d) \/ AcceptFails(d) \/ Crash(d)
    BY <1>7 DEF Daemons
  <2>2. ~(ServeFails(d) \/ Release(d) \/ Crash(d) \/ CloseServer(d) \/ ContextDone(d))
    BY <1>3 DEF ServeFails, Release, Crash, End, CloseServer, ContextDone, CloseListener
  <2>3. Main(d) \/ AcceptFails(d)
    BY <2>1, <2>2
  <2> QED
    BY <1>2, <2>2, <2>3
       DEF Main, Load, PrepareIdentity, AcquireLock, InitSDK, Login, Listen, WriteResponse,
           Drained, StopBot, StopUser, AcceptFails
<1>8. CASE \E d \in Daemon, b \in Cli : Daemons(Serve(d, b))
  <2>1. PICK d \in Daemon, b \in Cli : Serve(d, b)
    BY <1>8 DEF Daemons
  <2>2. CASE Accept(d, b)
    <3>1. b = c
      BY <1>1, <2>2 DEF Accept, Conns
    <3> QED
      BY <2>2, <3>1 DEF Accept
  <2>3. CASE Handle(d, b)
    BY <1>1, <2>3 DEF Handle, Conns
  <2> QED
    BY <2>1, <2>2, <2>3 DEF Serve
<1>9. ~UNCHANGED vars
  BY <1>2 DEF vars
<1> QED
  BY <1>6, <1>7, <1>8, <1>9 DEF Next

\* A call is accepted only by a daemon that has both logins and the lock
\* (Runtime.Start opens the socket last, Shutdown closes it first).
THEOREM Accepted == Spec => AcceptedWhenReady
<1>1. ASSUME IInv, [Next]_vars, NEW c \in Cli,
             conn[c].st = "pending", conn'[c].st = "accepted"
      PROVE  {conn[c].to} \X Identity \subseteq sdk /\ lock = conn[c].to
  <2>1. PICK d \in Daemon : conn[c].to = d /\ pc[d] = "serving"
    BY <1>1, OnlyAccept DEF IInv
  <2>2. lock = d /\ <<d, "user">> \in sdk /\ <<d, "bot">> \in sdk
    BY <1>1, <2>1 DEF IInv, Held, HoldsLock, LoggedIn, Up, Serving
  <2>3. {d} \X Identity \subseteq sdk
    BY <2>2 DEF Identity
  <2> QED
    BY <2>1, <2>2, <2>3
<1>2. IInv /\ [Next]_vars
      => [\A c \in Cli : conn[c].st = "pending" /\ conn'[c].st = "accepted"
            => {conn[c].to} \X Identity \subseteq sdk /\ lock = conn[c].to]_vars
  BY <1>1
<1> QED
  BY <1>2, Invariant, PTL DEF Spec, AcceptedWhenReady

=============================================================================
