--------------------------- MODULE IdleStopProofs ---------------------------
(***************************************************************************)
(* Proofs about IdleStop for any number of sessions, processes, container  *)
(* starts and server restarts.                                             *)
(***************************************************************************)
EXTENDS IdleStop, FiniteSetTheorems, SequenceTheorems, TLAPS

\* The index of a process in the daemon's Vec is a natural number.
LEMMA RankType == ASSUME NEW S \in SUBSET Procs, NEW p
                  PROVE  Rank(p, S) \in Nat
<1>1. IsFiniteSet(Procs)
  BY ProcsAssumption, FS_Union DEF Procs, User
<1>2. IsFiniteSet(S)
  BY <1>1, FS_Subset
<1>3. {q \in S : q <= p} \in SUBSET S
  OBVIOUS
<1>4. QED
  BY <1>2, <1>3, FS_Subset, FS_CardinalityType DEF Rank

\* The number of sessions that are counted is a natural number.
LEMMA CountedType == IsFiniteSet(Counted) /\ Cardinality(Counted) \in Nat
  BY ProcsAssumption, FS_Subset, FS_CardinalityType DEF Counted

\* The wires carry sequences of frames whatever the daemon writes.
LEMMA WriteType == ASSUME WireTypes, NEW m \in ToHostMsg, DaemonWrites(m)
                   PROVE  toHost' \in [Starts -> Seq(ToHostMsg)]
<1>1. \A g \in Starts : Append(toHost[g], m) \in Seq(ToHostMsg)
  BY AppendProperties DEF WireTypes
<1>2. QED
  BY <1>1 DEF WireTypes, DaemonWrites

\* A stopped container leaves every variable but the server's well-typed.
LEMMA KillType ==
  ASSUME TypeOK, KillContainer
  PROVE  ContainerTypes' /\ ClientTypes' /\ WireTypes' /\ GuestTypes'
<1>1. ContainerTypes' /\ ClientTypes'
  BY DEF TypeOK, ContainerTypes, ClientTypes, KillContainer, client
<1>2. WireTypes'
  BY DEF TypeOK, WireTypes, KillContainer
<1>3. GuestTypes'
  BY DEF TypeOK, GuestTypes, GuestPc, KillContainer
<1>4. QED
  BY <1>1, <1>2, <1>3

\* So does the end of the daemon.
LEMMA DeathType == ASSUME TypeOK, DaemonDies PROVE TypeOK'
<1>1. ContainerTypes' /\ ClientTypes' /\ ServerTypes'
  BY DEF TypeOK, ContainerTypes, ClientTypes, ServerTypes, DaemonDies,
         container, client, server
<1>2. WireTypes'
  BY DEF TypeOK, WireTypes, DaemonDies
<1>3. GuestTypes'
  BY DEF TypeOK, GuestTypes, GuestPc, DaemonDies
<1>4. QED
  BY <1>1, <1>2, <1>3 DEF TypeOK

-----------------------------------------------------------------------------
\* Every variable keeps its type in every step of every actor.  The counter
\* is unsigned, and stays so because it counts monitors.
LEMMA TypeStep == ASSUME TypeOK, CountIsMonitors, [Next]_vars PROVE TypeOK'
<1> USE ProcsAssumption, BoundsAssumption
    DEF ContainerTypes, ClientTypes, ServerTypes, WireTypes, GuestTypes,
        container, client, server, wires, guest
<1>0. CASE UNCHANGED vars
  BY <1>0 DEF TypeOK, vars
<1>1. ASSUME NEW s \in Sessions, CliNext(s) PROVE TypeOK'
  BY <1>1 DEF TypeOK, CliNext, CliEnsured, CliSkip, CliConnect, CliSend,
     CliExec, CliReturn, CliDie, CliState, ConnState, Procs, User
<1>2. ASSUME NEW s \in Sessions, SessionThread(s) PROVE TypeOK'
  <2>1. CASE AcceptSession(s)
    BY <2>1 DEF TypeOK, AcceptSession, Admitted, ConnState
  <2>2. CASE HandleRegister(s)
    BY <2>2 DEF TypeOK, HandleRegister, ConnState, MonState
  <2>3. CASE HandleNoPidfd(s)
    BY <2>3 DEF TypeOK, HandleNoPidfd, ConnState
  <2>4. CASE MonitorFires(s)
    <3>1. count - 1 \in Nat
      <4>1. s \in Counted
        BY <2>4 DEF MonitorFires, Counted
      <4>2. Cardinality(Counted) # 0
        BY <4>1, CountedType, FS_EmptySet
      <4>3. QED
        BY <4>2, CountedType DEF CountIsMonitors
    <3>2. QED
      BY <2>4, <3>1 DEF TypeOK, MonitorFires, MonState
  <2>5. CASE MonitorAsks(s)
    BY <2>5 DEF TypeOK, MonitorAsks, MonState, ToDaemonMsg
  <2>6. QED
    BY <1>2, <2>1, <2>2, <2>3, <2>4, <2>5 DEF SessionThread
<1>3. ASSUME NEW g \in Starts, DaemonThread(g) PROVE TypeOK'
  <2>1. CASE AcceptDaemon(g)
    BY <2>1 DEF TypeOK, AcceptDaemon, Admitted, DConnState, ConnState, Held
  <2>2. CASE HandleHello(g)
    BY <2>2 DEF TypeOK, HandleHello, DConnState, ConnState, Held, Starts
  <2>3. CASE ReplyHello(g)
    <3>1. ContainerTypes' /\ ClientTypes' /\ GuestTypes'
      BY <2>3 DEF TypeOK, ReplyHello
    <3>2. ServerTypes'
      BY <2>3 DEF TypeOK, ReplyHello, DConnState, ConnState, Held
    <3>3. WireTypes'
      <4>1. CASE DaemonHolds(g)
        <5>1. PICK reply \in ToDaemonMsg : toDaemon' = Append(toDaemon, reply)
          BY <2>3, <4>1 DEF ReplyHello, ToDaemonMsg
        <5>2. toHost' = toHost
          BY <2>3, <4>1 DEF ReplyHello
        <5>3. QED
          BY <5>1, <5>2, AppendProperties DEF TypeOK
      <4>2. CASE ~DaemonHolds(g)
        <5>1. /\ toHost' = [toHost EXCEPT ![g] = <<>>]
              /\ toDaemon' = toDaemon
          BY <2>3, <4>2 DEF ReplyHello
        <5>2. <<>> \in Seq(ToHostMsg)
          OBVIOUS
        <5>3. QED
          BY <5>1, <5>2 DEF TypeOK
      <4>3. QED
        BY <4>1, <4>2
    <3>4. QED
      BY <3>1, <3>2, <3>3 DEF TypeOK
  <2>4. CASE HandleBusy(g)
    BY <2>4 DEF TypeOK, HandleBusy
  <2>5. CASE HandleIdle(g)
    BY <2>5 DEF TypeOK, HandleIdle, DConnState, ConnState, Held
  <2>6. CASE SystemctlStop(g)
    <3>1. ServerTypes'
      BY <2>6 DEF TypeOK, SystemctlStop, DConnState, ConnState, Held
    <3>2. CASE running
      BY <2>6, <3>1, <3>2, KillType DEF TypeOK, SystemctlStop
    <3>3. CASE ~running
      <4>1. UNCHANGED <<container, client, wires, guest, idleBase>>
        BY <2>6, <3>3 DEF SystemctlStop
      <4>2. QED
        BY <3>1, <4>1 DEF TypeOK
    <3>4. QED
      BY <3>2, <3>3
  <2>7. CASE HandleDaemonEof(g)
    BY <2>7 DEF TypeOK, HandleDaemonEof, DConnState, ConnState
  <2>8. QED
    BY <1>3, <2>1, <2>2, <2>3, <2>4, <2>5, <2>6, <2>7 DEF DaemonThread
<1>4. ASSUME Daemon PROVE TypeOK'
  <2>1. CASE DaemonConnect
    <3>1. ContainerTypes' /\ ClientTypes' /\ GuestTypes'
      BY <2>1 DEF TypeOK, DaemonConnect, GuestPc
    <3>2. ServerTypes'
      BY <2>1 DEF TypeOK, DaemonConnect, DConnState, ConnState
    <3>3. WireTypes'
      <4>1. <<"Hello">> \in Seq(ToHostMsg)
        BY DEF ToHostMsg
      <4>2. QED
        BY <2>1, <4>1 DEF TypeOK, DaemonConnect
    <3>4. QED
      BY <3>1, <3>2, <3>3 DEF TypeOK
  <2>2. CASE DaemonGreeted
    BY <2>2 DEF TypeOK, DaemonGreeted, GuestPc
  <2>3. CASE DaemonRefused \/ DaemonHangup \/ DaemonPanics
    BY <2>3, DeathType DEF DaemonRefused, DaemonHangup, DaemonPanics
  <2>4. CASE DaemonPoll
    <3>1. exited' \in SUBSET Nat
      BY <2>4, RankType DEF TypeOK, DaemonPoll
    <3>2. QED
      BY <2>4, <3>1 DEF TypeOK, DaemonPoll, GuestPc
  <2>5. CASE DaemonCheck
    BY <2>5 DEF TypeOK, DaemonCheck, GuestPc
  <2>6. CASE DaemonIdle
    <3>1. ContainerTypes' /\ ClientTypes' /\ ServerTypes'
      BY <2>6 DEF TypeOK, DaemonIdle
    <3>2. WireTypes'
      BY <2>6, WriteType DEF TypeOK, DaemonIdle, ToHostMsg
    <3>3. GuestTypes'
      BY <2>6 DEF TypeOK, DaemonIdle, GuestPc
    <3>4. QED
      BY <3>1, <3>2, <3>3 DEF TypeOK
  <2>7. ASSUME NEW R \in SUBSET (base \cup inside), DaemonBusy(R) PROVE TypeOK'
    <3>1. ContainerTypes' /\ ClientTypes' /\ ServerTypes'
      BY <2>7 DEF TypeOK, DaemonBusy
    <3>2. WireTypes'
      BY <2>7, WriteType DEF TypeOK, DaemonBusy, ToHostMsg
    <3>3. GuestTypes'
      BY <2>7 DEF TypeOK, DaemonBusy, GuestPc
    <3>4. QED
      BY <3>1, <3>2, <3>3 DEF TypeOK
  <2>8. CASE DaemonExits
    BY <2>8 DEF TypeOK, DaemonExits, GuestPc
  <2>9. QED
    BY <1>4, <2>1, <2>2, <2>3, <2>4, <2>5, <2>6, <2>7, <2>8 DEF Daemon
<1>5. ASSUME Environment PROVE TypeOK'
  <2>1. CASE StartContainer
    BY <2>1 DEF TypeOK, StartContainer, GuestPc, Procs
  <2>2. CASE StopContainer
    BY <2>2, KillType DEF TypeOK, StopContainer
  <2>3. CASE RestartServer
    BY <2>3 DEF TypeOK, RestartServer, ConnState, DConnState, MonState
  <2>4. CASE AcceptOther
    BY <2>4 DEF TypeOK, AcceptOther
  <2>5. CASE OtherDone
    BY <2>5 DEF TypeOK, OtherDone
  <2>6. CASE DaemonFails
    BY <2>6, DeathType DEF DaemonFails
  <2>7. ASSUME NEW b \in Background, Spawn(b) PROVE TypeOK'
    BY <2>7 DEF TypeOK, Spawn, Procs, User
  <2>8. ASSUME NEW p \in User, ProcExit(p) PROVE TypeOK'
    BY <2>8 DEF TypeOK, ProcExit
  <2>9. QED
    BY <1>5, <2>1, <2>2, <2>3, <2>4, <2>5, <2>6, <2>7, <2>8 DEF Environment
<1>6. QED
  BY <1>0, <1>1, <1>2, <1>3, <1>4, <1>5 DEF Next
-----------------------------------------------------------------------------
(* The inductive invariant.  TypeOK and CountIsMonitors need each other; the *)
(* rest of IInv says why a session is counted once and why a process that   *)
(* has not entered yet is in no scan.                                       *)

\* A session connects once, and has no monitor before its frame is handled.
CountedOnce ==
  \A s \in Sessions :
    /\ cli[s] \in {"new", "ready"} => sconn[s] = "none"
    /\ sconn[s] # "closed" => mon[s] = "none"

\* Processes that have not entered the container.
NotEntered == fresh \cup {s \in Sessions :
                            cli[s] \in {"new", "ready", "connected", "exec"}}

EntersLater ==
  /\ NotEntered \cap (inside \cup base) = {}
  /\ \A g \in Starts : NotEntered \cap idleBase[g] = {}

\* Nothing runs in a container that is down, and later starts have no history.
StartsInOrder ==
  /\ running => gen \in Starts
  /\ ~running => inside = {} /\ dpc = "off"
  /\ \A g \in Starts : g > gen => idleBase[g] = {}

IInv == /\ TypeOK /\ CountIsMonitors /\ CountedOnce /\ ThreadsBounded
        /\ EntersLater /\ StartsInOrder /\ IdleSawNobody

\* Only these actions touch the counter and the monitors.
LEMMA CounterFrame ==
  ASSUME [Next]_vars
  PROVE  \/ RestartServer
         \/ /\ \E s \in Sessions : \/ HandleRegister(s)
                                    \/ MonitorFires(s) \/ MonitorAsks(s)
            /\ restarts' = restarts
         \/ UNCHANGED <<count, mon, restarts>>
<1> USE DEF server
<1>0. CASE UNCHANGED vars
  BY <1>0 DEF vars
<1>1. ASSUME NEW s \in Sessions, CliNext(s) PROVE UNCHANGED <<count, mon, restarts>>
  BY <1>1 DEF CliNext, CliEnsured, CliSkip, CliConnect, CliSend, CliExec,
     CliReturn, CliDie
<1>2. ASSUME NEW s \in Sessions, AcceptSession(s) \/ HandleNoPidfd(s)
      PROVE UNCHANGED <<count, mon, restarts>>
  BY <1>2 DEF AcceptSession, HandleNoPidfd
<1>3. ASSUME NEW g \in Starts, DaemonThread(g) PROVE UNCHANGED <<count, mon, restarts>>
  BY <1>3 DEF DaemonThread, AcceptDaemon, HandleHello, ReplyHello, HandleBusy,
     HandleIdle, SystemctlStop, HandleDaemonEof
<1>4. CASE Daemon
  BY <1>4 DEF Daemon, DaemonConnect, DaemonGreeted, DaemonRefused, DaemonPoll,
     DaemonHangup, DaemonCheck, DaemonIdle, DaemonBusy, DaemonExits,
     DaemonPanics, DaemonDies
<1>5. CASE Environment
  BY <1>5 DEF Environment, StartContainer, StopContainer, AcceptOther,
     OtherDone, DaemonFails, DaemonDies, Spawn, ProcExit
<1>6. ASSUME NEW s \in Sessions, HandleRegister(s) \/ MonitorFires(s) \/ MonitorAsks(s)
      PROVE restarts' = restarts
  BY <1>6 DEF HandleRegister, MonitorFires, MonitorAsks
<1>7. QED
  BY <1>0, <1>1, <1>2, <1>3, <1>4, <1>5, <1>6 DEF Next, SessionThread

\* The counter counts the monitors that wait: a registration adds a monitor
\* that was not there, a decrement takes away the monitor that makes it.
LEMMA CountStep == ASSUME TypeOK, CountIsMonitors, CountedOnce, [Next]_vars
                   PROVE  CountIsMonitors'
<1>1. CASE UNCHANGED <<count, mon>>
  BY <1>1 DEF CountIsMonitors, Counted
<1>2. CASE RestartServer
  <2>1. Counted' = {}
    BY <1>2 DEF RestartServer, Counted
  <2>2. QED
    BY <1>2, <2>1, FS_EmptySet DEF RestartServer, CountIsMonitors
<1>3. ASSUME NEW s \in Sessions, HandleRegister(s) PROVE CountIsMonitors'
  <2>1. s \notin Counted
    BY <1>3 DEF HandleRegister, CountedOnce, Counted
  <2>2. Counted' = Counted \cup {s}
    BY <1>3 DEF HandleRegister, Counted, TypeOK, ServerTypes
  <2>3. QED
    BY <1>3, <2>1, <2>2, CountedType, FS_AddElement
       DEF HandleRegister, CountIsMonitors
<1>4. ASSUME NEW s \in Sessions, MonitorFires(s) PROVE CountIsMonitors'
  <2>1. s \in Counted
    BY <1>4 DEF MonitorFires, Counted
  <2>2. Counted' = Counted \ {s}
    BY <1>4 DEF MonitorFires, Counted, TypeOK, ServerTypes
  <2>3. QED
    BY <1>4, <2>1, <2>2, CountedType, FS_RemoveElement
       DEF MonitorFires, CountIsMonitors
<1>5. ASSUME NEW s \in Sessions, MonitorAsks(s) PROVE CountIsMonitors'
  <2>1. Counted' = Counted
    BY <1>5 DEF MonitorAsks, Counted, TypeOK, ServerTypes
  <2>2. QED
    BY <1>5, <2>1 DEF MonitorAsks, CountIsMonitors
<1>6. QED
  BY <1>1, <1>2, <1>3, <1>4, <1>5, CounterFrame

\* Nobody registers twice.
LEMMA CountedOnceStep == ASSUME TypeOK, CountedOnce, [Next]_vars PROVE CountedOnce'
<1> USE DEF TypeOK, ClientTypes, ServerTypes, client, server
<1>0. CASE UNCHANGED vars
  BY <1>0 DEF vars, CountedOnce
<1>1. ASSUME NEW s \in Sessions, CliNext(s) PROVE CountedOnce'
  BY <1>1 DEF CountedOnce, CliNext, CliEnsured, CliSkip, CliConnect, CliSend,
     CliExec, CliReturn, CliDie
<1>2. ASSUME NEW s \in Sessions, SessionThread(s) PROVE CountedOnce'
  BY <1>2 DEF CountedOnce, SessionThread, AcceptSession, Admitted,
     HandleRegister, HandleNoPidfd, MonitorFires, MonitorAsks
<1>3. ASSUME NEW g \in Starts, DaemonThread(g) PROVE CountedOnce'
  BY <1>3 DEF CountedOnce, DaemonThread, AcceptDaemon, HandleHello, ReplyHello,
     HandleBusy, HandleIdle, SystemctlStop, KillContainer, HandleDaemonEof
<1>4. CASE Daemon
  BY <1>4 DEF CountedOnce, Daemon, DaemonConnect, DaemonGreeted, DaemonRefused,
     DaemonPoll, DaemonHangup, DaemonCheck, DaemonIdle, DaemonBusy,
     DaemonExits, DaemonPanics, DaemonDies
<1>5. CASE Environment
  BY <1>5 DEF CountedOnce, Environment, StartContainer, StopContainer,
     KillContainer, RestartServer, AcceptOther, OtherDone, DaemonFails,
     DaemonDies, Spawn, ProcExit
<1>6. QED
  BY <1>0, <1>1, <1>2, <1>3, <1>4, <1>5 DEF Next
\* The connection threads that work.
ServedSessions == {s \in Sessions : sconn[s] = "open"}
ServedDaemons  == {g \in Starts : dconn[g] \in Held}

LEMMA ServedFinite ==
  /\ IsFiniteSet(ServedSessions) /\ Cardinality(ServedSessions) \in Nat
  /\ IsFiniteSet(ServedDaemons) /\ Cardinality(ServedDaemons) \in Nat
<1>1. IsFiniteSet(Starts)
  BY BoundsAssumption, FS_Interval DEF Starts
<1>2. QED
  BY <1>1, ProcsAssumption, FS_Subset, FS_CardinalityType
     DEF ServedSessions, ServedDaemons

\* Fewer connections served are fewer threads.
LEMMA FewerThreads ==
  ASSUME ServerTypes, ThreadsBounded, others' = others,
         ServedSessions' \subseteq ServedSessions,
         ServedDaemons' \subseteq ServedDaemons
  PROVE  ThreadsBounded'
<1>1. /\ Cardinality(ServedSessions') \in Nat /\ Cardinality(ServedDaemons') \in Nat
      /\ Cardinality(ServedSessions') <= Cardinality(ServedSessions)
      /\ Cardinality(ServedDaemons') <= Cardinality(ServedDaemons)
  BY ServedFinite, FS_Subset, FS_CardinalityType
<1>2. /\ Handlers = Cardinality(ServedSessions) + Cardinality(ServedDaemons) + others
      /\ Handlers' = Cardinality(ServedSessions') + Cardinality(ServedDaemons') + others
  BY DEF Handlers, ServedSessions, ServedDaemons
<1>3. QED
  BY <1>1, <1>2, ServedFinite, BoundsAssumption DEF ThreadsBounded, ServerTypes

\* A connection is served only when a thread is left for it.
LEMMA ThreadsStep == ASSUME TypeOK, ThreadsBounded, [Next]_vars
                     PROVE  ThreadsBounded'
<1> USE BoundsAssumption DEF TypeOK, ServerTypes, server
<1>a. Handlers = Cardinality(ServedSessions) + Cardinality(ServedDaemons) + others
  BY DEF Handlers, ServedSessions, ServedDaemons
<1>b. Handlers' = Cardinality(ServedSessions') + Cardinality(ServedDaemons') + others'
  BY DEF Handlers, ServedSessions, ServedDaemons
<1>0. CASE UNCHANGED vars
  BY <1>0, FewerThreads DEF vars, ServedSessions, ServedDaemons
<1>1. ASSUME NEW s \in Sessions, CliNext(s) PROVE ThreadsBounded'
  BY <1>1, FewerThreads DEF ServedSessions, ServedDaemons, CliNext, CliEnsured,
     CliSkip, CliConnect, CliSend, CliExec, CliReturn, CliDie
<1>2. ASSUME NEW s \in Sessions, SessionThread(s) PROVE ThreadsBounded'
  <2>1. CASE AcceptSession(s) /\ Admitted = "open"
    <3>1. Handlers < MaxConcurrent
      BY <2>1 DEF Admitted
    <3>2. ServedSessions' = ServedSessions \cup {s} /\ s \notin ServedSessions
      BY <2>1 DEF AcceptSession, ServedSessions
    <3>3. ServedDaemons' = ServedDaemons /\ others' = others
      BY <2>1 DEF AcceptSession, ServedDaemons
    <3>4. Cardinality(ServedSessions') = Cardinality(ServedSessions) + 1
      BY <3>2, ServedFinite, FS_AddElement
    <3>5. QED
      BY <1>a, <1>b, <3>1, <3>3, <3>4, ServedFinite DEF ThreadsBounded
  <2>2. CASE AcceptSession(s) /\ Admitted # "open"
    BY <2>2, FewerThreads DEF AcceptSession, ServedSessions, ServedDaemons
  <2>3. CASE HandleRegister(s) \/ HandleNoPidfd(s) \/ MonitorFires(s) \/ MonitorAsks(s)
    BY <2>3, FewerThreads DEF HandleRegister, HandleNoPidfd, MonitorFires,
       MonitorAsks, ServedSessions, ServedDaemons
  <2>4. QED
    BY <1>2, <2>1, <2>2, <2>3 DEF SessionThread
<1>3. ASSUME NEW g \in Starts, DaemonThread(g) PROVE ThreadsBounded'
  <2>1. CASE AcceptDaemon(g) /\ Admitted = "open"
    <3>1. Handlers < MaxConcurrent
      BY <2>1 DEF Admitted
    <3>2. ServedDaemons' = ServedDaemons \cup {g} /\ g \notin ServedDaemons
      BY <2>1 DEF AcceptDaemon, ServedDaemons, Held
    <3>3. ServedSessions' = ServedSessions /\ others' = others
      BY <2>1 DEF AcceptDaemon, ServedSessions
    <3>4. Cardinality(ServedDaemons') = Cardinality(ServedDaemons) + 1
      BY <3>2, ServedFinite, FS_AddElement
    <3>5. QED
      BY <1>a, <1>b, <3>1, <3>3, <3>4, ServedFinite DEF ThreadsBounded
  <2>2. CASE AcceptDaemon(g) /\ Admitted # "open"
    <3>1. Admitted = "closed"
      BY <2>2 DEF Admitted
    <3>2. QED
      BY <2>2, <3>1, FewerThreads
         DEF AcceptDaemon, ServedSessions, ServedDaemons, Held
  <2>3. CASE HandleHello(g) \/ ReplyHello(g) \/ HandleBusy(g)
    BY <2>3, FewerThreads DEF HandleHello, ReplyHello, HandleBusy,
       ServedSessions, ServedDaemons, Held
  <2>4. CASE HandleIdle(g) \/ SystemctlStop(g) \/ HandleDaemonEof(g)
    BY <2>4, FewerThreads DEF HandleIdle, SystemctlStop, HandleDaemonEof,
       ServedSessions, ServedDaemons, Held
  <2>5. QED
    BY <1>3, <2>1, <2>2, <2>3, <2>4 DEF DaemonThread
<1>4. CASE Daemon
  BY <1>4, FewerThreads DEF Daemon, DaemonConnect, DaemonGreeted, DaemonRefused,
     DaemonPoll, DaemonHangup, DaemonCheck, DaemonIdle, DaemonBusy, DaemonExits,
     DaemonPanics, DaemonDies, ServedSessions, ServedDaemons, Held
<1>5. CASE Environment
  <2>1. CASE AcceptOther
    <3>1. Handlers < MaxConcurrent
      BY <2>1 DEF AcceptOther, Admitted
    <3>2. ServedDaemons' = ServedDaemons /\ ServedSessions' = ServedSessions
      BY <2>1 DEF AcceptOther, ServedDaemons, ServedSessions
    <3>3. others' = others + 1
      BY <2>1 DEF AcceptOther
    <3>4. QED
      BY <1>a, <1>b, <3>1, <3>2, <3>3, ServedFinite DEF ThreadsBounded
  <2>2. CASE OtherDone
    <3>1. ServedDaemons' = ServedDaemons /\ ServedSessions' = ServedSessions
      BY <2>2 DEF OtherDone, ServedDaemons, ServedSessions
    <3>2. others' = others - 1
      BY <2>2 DEF OtherDone
    <3>3. QED
      BY <1>a, <1>b, <3>1, <3>2, ServedFinite DEF ThreadsBounded
  <2>3. CASE RestartServer
    <3>1. ServedDaemons' = {} /\ ServedSessions' = {} /\ others' = 0
      BY <2>3 DEF RestartServer, ServedDaemons, ServedSessions, Held
    <3>2. QED
      BY <1>b, <3>1, FS_EmptySet DEF ThreadsBounded
  <2>4. CASE StartContainer \/ StopContainer \/ DaemonFails
    BY <2>4, FewerThreads DEF StartContainer, StopContainer, DaemonFails,
       DaemonDies, ServedSessions, ServedDaemons
  <2>5. CASE (\E b \in Background : Spawn(b)) \/ (\E p \in User : ProcExit(p))
    BY <2>5, FewerThreads DEF Spawn, ProcExit, ServedSessions, ServedDaemons
  <2>6. QED
    BY <1>5, <2>1, <2>2, <2>3, <2>4, <2>5 DEF Environment
<1>6. QED
  BY <1>0, <1>1, <1>2, <1>3, <1>4, <1>5 DEF Next

\* What a scan can have seen stays out of the container for good.
ScanInv == EntersLater /\ StartsInOrder /\ IdleSawNobody

LEMMA ScanStep == ASSUME TypeOK, ScanInv, [Next]_vars PROVE ScanInv'
<1> USE ProcsAssumption
    DEF TypeOK, ContainerTypes, ClientTypes, GuestTypes, ScanInv, EntersLater,
        StartsInOrder, IdleSawNobody, NotEntered, container, client, server,
        wires, guest
<1>0. CASE UNCHANGED vars
  BY <1>0 DEF vars
<1>1. ASSUME NEW s \in Sessions, CliNext(s) PROVE ScanInv'
  <2>1. CASE CliExec(s) /\ running
    <3>1. NotEntered' = NotEntered \ {s} /\ s \in NotEntered
      BY <2>1 DEF CliExec
    <3>2. inside' = inside \cup {s}
      BY <2>1 DEF CliExec
    <3>3. UNCHANGED <<running, gen, dpc, base, idleBase>>
      BY <2>1 DEF CliExec
    <3>4. IdleSawNobody'
      BY <2>1, <3>1, <3>2, <3>3
    <3>5. EntersLater'
      BY <3>1, <3>2, <3>3
    <3>6. StartsInOrder'
      BY <2>1, <3>2, <3>3
    <3>7. QED
      BY <3>4, <3>5, <3>6
  <2>2. CASE ~(CliExec(s) /\ running)
    <3>1. NotEntered' \subseteq NotEntered
      BY <1>1, <2>2 DEF CliNext, CliEnsured, CliSkip, CliConnect, CliSend,
         CliExec, CliReturn, CliDie
    <3>2. UNCHANGED <<running, gen, inside, dpc, base, idleBase>>
      BY <1>1, <2>2 DEF CliNext, CliEnsured, CliSkip, CliConnect, CliSend,
         CliExec, CliReturn, CliDie
    <3>3. QED
      BY <3>1, <3>2
  <2>3. QED
    BY <2>1, <2>2
<1>2. ASSUME NEW s \in Sessions, SessionThread(s) PROVE ScanInv'
  BY <1>2 DEF SessionThread, AcceptSession, HandleRegister, HandleNoPidfd,
     MonitorFires, MonitorAsks
<1>3. ASSUME NEW g \in Starts, DaemonThread(g) PROVE ScanInv'
  <2>1. CASE SystemctlStop(g)
    BY <2>1 DEF SystemctlStop, KillContainer
  <2>2. CASE AcceptDaemon(g) \/ HandleHello(g) \/ ReplyHello(g)
    BY <2>2 DEF AcceptDaemon, HandleHello, ReplyHello
  <2>3. CASE HandleBusy(g) \/ HandleIdle(g) \/ HandleDaemonEof(g)
    BY <2>3 DEF HandleBusy, HandleIdle, HandleDaemonEof
  <2>4. QED
    BY <1>3, <2>1, <2>2, <2>3 DEF DaemonThread
<1>4. CASE Daemon
  <2>1. CASE DaemonIdle
    BY <2>1 DEF DaemonIdle, Found
  <2>2. CASE DaemonConnect \/ DaemonGreeted \/ DaemonPoll
    BY <2>2 DEF DaemonConnect, DaemonGreeted, DaemonPoll
  <2>3. CASE DaemonRefused \/ DaemonHangup \/ DaemonPanics
    BY <2>3 DEF DaemonRefused, DaemonHangup, DaemonPanics, DaemonDies
  <2>4. CASE DaemonCheck
    BY <2>4 DEF DaemonCheck
  <2>5. ASSUME NEW R \in SUBSET (base \cup inside), DaemonBusy(R) PROVE ScanInv'
    BY <2>5 DEF DaemonBusy
  <2>6. CASE DaemonExits
    BY <2>6 DEF DaemonExits
  <2>7. QED
    BY <1>4, <2>1, <2>2, <2>3, <2>4, <2>5, <2>6 DEF Daemon
<1>5. CASE Environment
  <2>1. CASE StartContainer
    <3>1. gen' = gen + 1 /\ gen' \in Starts /\ idleBase' = idleBase
      BY <2>1, BoundsAssumption DEF StartContainer, Starts
    <3>2. idleBase[gen'] = {}
      BY <3>1
    <3>3. running' /\ inside' = Residents /\ base' = {}
      BY <2>1 DEF StartContainer
    <3>4. NotEntered' = NotEntered /\ NotEntered \cap Residents = {}
      BY <2>1 DEF StartContainer
    <3>5. EntersLater'
      BY <3>1, <3>3, <3>4
    <3>6. StartsInOrder'
      <4>1. \A g \in Starts : g > gen' => g > gen
        BY <3>1 DEF Starts
      <4>2. QED
        BY <3>1, <3>3, <4>1
    <3>7. IdleSawNobody'
      BY <3>1, <3>2, <3>3
    <3>8. QED
      BY <3>5, <3>6, <3>7
  <2>2. CASE StopContainer
    BY <2>2 DEF StopContainer, KillContainer
  <2>3. CASE RestartServer \/ AcceptOther \/ OtherDone
    BY <2>3 DEF RestartServer, AcceptOther, OtherDone
  <2>4. CASE DaemonFails
    BY <2>4 DEF DaemonFails, DaemonDies
  <2>5. ASSUME NEW b \in Background, Spawn(b) PROVE ScanInv'
    BY <2>5 DEF Spawn
  <2>6. ASSUME NEW p \in User, ProcExit(p) PROVE ScanInv'
    BY <2>6 DEF ProcExit
  <2>7. QED
    BY <1>5, <2>1, <2>2, <2>3, <2>4, <2>5, <2>6 DEF Environment
<1>6. QED
  BY <1>0, <1>1, <1>2, <1>3, <1>4, <1>5 DEF Next
-----------------------------------------------------------------------------
LEMMA InitIInv == Init => IInv
<1> SUFFICES ASSUME Init PROVE IInv
  OBVIOUS
<1> USE ProcsAssumption, BoundsAssumption DEF Init
<1>1. ContainerTypes /\ ClientTypes /\ ServerTypes
  <2>1. ContainerTypes
    <3>1. running \in BOOLEAN
      OBVIOUS
    <3>2. gen \in 0..MaxStarts
      OBVIOUS
    <3>3. inside \in SUBSET Procs /\ fresh \in SUBSET Background
      OBVIOUS
    <3>4. QED
      BY <3>1, <3>2, <3>3 DEF ContainerTypes
  <2>2. ClientTypes
    BY DEF ClientTypes, CliState
  <2>3. ServerTypes
    BY DEF ServerTypes, ConnState, DConnState, MonState
  <2>4. QED
    BY <2>1, <2>2, <2>3
<1>2. WireTypes /\ GuestTypes
  BY DEF WireTypes, GuestTypes, GuestPc
<1>3. CountIsMonitors /\ ThreadsBounded
  <2>1. Counted = {} /\ ServedSessions = {} /\ ServedDaemons = {}
    BY DEF Counted, ServedSessions, ServedDaemons, Held
  <2>2. Handlers = Cardinality(ServedSessions) + Cardinality(ServedDaemons) + others
    BY DEF Handlers, ServedSessions, ServedDaemons
  <2>3. QED
    BY <2>1, <2>2, FS_EmptySet DEF CountIsMonitors, ThreadsBounded
<1>4. CountedOnce
  BY DEF CountedOnce
<1>5. ScanInv
  BY DEF ScanInv, EntersLater, NotEntered, StartsInOrder, IdleSawNobody
<1>6. QED
  BY <1>1, <1>2, <1>3, <1>4, <1>5 DEF IInv, TypeOK, ScanInv

LEMMA StepIInv == IInv /\ [Next]_vars => IInv'
  BY TypeStep, CountStep, CountedOnceStep, ThreadsStep, ScanStep DEF IInv, ScanInv

LEMMA Invariance == Spec => []IInv
<1>1. Init => IInv
  BY InitIInv
<1>2. IInv /\ [Next]_vars => IInv'
  BY StepIInv
<1>3. QED
  BY <1>1, <1>2, PTL DEF Spec

\* Type correctness: every variable of the CLI, the host server, the guest
\* daemon and the wires stays in its set; session_count stays in Nat, that is,
\* fetch_sub never wraps around zero.
THEOREM TypeCorrect == Spec => []TypeOK
<1>1. IInv => TypeOK
  BY DEF IInv
<1>2. QED
  BY <1>1, Invariance, PTL

\* The counter of the host server is the number of its waiting monitors.
THEOREM CountCorrect == Spec => []CountIsMonitors
<1>1. IInv => CountIsMonitors
  BY DEF IInv
<1>2. QED
  BY <1>1, Invariance, PTL

\* The host server serves at most MaxConcurrent connections at a time.
THEOREM ThreadsCorrect == Spec => []ThreadsBounded
<1>1. IInv => ThreadsBounded
  BY DEF IInv
<1>2. QED
  BY <1>1, Invariance, PTL

\* A scan answered IdleTimeout overlooked only processes that came later.
THEOREM ScanCorrect == Spec => []IdleSawNobody
<1>1. IInv => IdleSawNobody
  BY DEF IInv
<1>2. QED
  BY <1>1, Invariance, PTL

-----------------------------------------------------------------------------
(* The counter and its threads implement the ledger of sessions.            *)

Alive == {s \in Sessions : cli[s] # "gone"}
Due   == {s \in Sessions : mon[s] = "last"}

\* Only the CLI's own steps end a session.
LEMMA AliveFrame ==
  ASSUME TypeOK, [Next]_vars
  PROVE  \/ Alive' = Alive
         \/ \E s \in Sessions : /\ s \in Alive /\ Alive' = Alive \ {s}
                                /\ UNCHANGED <<count, mon, restarts>>
<1> USE DEF TypeOK, ClientTypes, client, server
<1>0. CASE UNCHANGED vars
  BY <1>0 DEF vars, Alive
<1>1. ASSUME NEW s \in Sessions, CliNext(s)
      PROVE  \/ Alive' = Alive
             \/ s \in Alive /\ Alive' = Alive \ {s} /\ UNCHANGED <<count, mon, restarts>>
  BY <1>1 DEF Alive, CliNext, CliEnsured, CliSkip, CliConnect, CliSend, CliExec,
     CliReturn, CliDie
<1>2. ASSUME NEW s \in Sessions, SessionThread(s) PROVE Alive' = Alive
  BY <1>2 DEF Alive, SessionThread, AcceptSession, HandleRegister,
     HandleNoPidfd, MonitorFires, MonitorAsks
<1>3. ASSUME NEW g \in Starts, DaemonThread(g) PROVE Alive' = Alive
  BY <1>3 DEF Alive, DaemonThread, AcceptDaemon, HandleHello, ReplyHello,
     HandleBusy, HandleIdle, SystemctlStop, KillContainer, HandleDaemonEof
<1>4. CASE Daemon
  BY <1>4 DEF Alive, Daemon, DaemonConnect, DaemonGreeted, DaemonRefused,
     DaemonPoll, DaemonHangup, DaemonCheck, DaemonIdle, DaemonBusy, DaemonExits,
     DaemonPanics, DaemonDies
<1>5. CASE Environment
  BY <1>5 DEF Alive, Environment, StartContainer, StopContainer, KillContainer,
     RestartServer, AcceptOther, OtherDone, DaemonFails, DaemonDies, Spawn,
     ProcExit
<1>6. QED
  BY <1>0, <1>1, <1>2, <1>3, <1>4, <1>5 DEF Next

\* Every step of the server is a step of the ledger or leaves it alone.
LEMMA LedgerStep == ASSUME IInv, [Next]_vars PROVE [Ledger!Next]_(Ledger!ledger)
<1> USE DEF Alive, Due
<1>a. TypeOK /\ CountIsMonitors /\ CountedOnce
  BY DEF IInv
<1>1. CASE RestartServer
  <2>1. Counted' = {} /\ Due' = {} /\ Alive' = Alive /\ restarts' = restarts + 1
    BY <1>1 DEF RestartServer, Counted, client
  <2>2. QED
    BY <2>1 DEF Ledger!Next, Ledger!Forget
<1>2. ASSUME NEW s \in Sessions, HandleRegister(s) PROVE Ledger!Next
  <2>0. restarts' = restarts
    BY <1>2 DEF HandleRegister
  <2>1. s \notin Counted \cup Due
    BY <1>a, <1>2 DEF HandleRegister, CountedOnce, Counted
  <2>2. Counted' = Counted \cup {s} /\ Due' = Due /\ Alive' = Alive
    <3>1. mon' = [mon EXCEPT ![s] = "waiting"] /\ cli' = cli
      BY <1>2 DEF HandleRegister, client
    <3>2. mon \in [Sessions -> MonState]
      BY <1>a DEF TypeOK, ServerTypes
    <3>3. Counted' = Counted \cup {s}
      BY <3>1, <3>2 DEF Counted
    <3>4. Due' = Due
      BY <2>1, <3>1, <3>2
    <3>5. QED
      BY <3>1, <3>3, <3>4
  <2>3. Ledger!Register(s)
    BY <2>0, <2>1, <2>2 DEF Ledger!Register
  <2>4. QED
    BY <2>3 DEF Ledger!Next
<1>3. ASSUME NEW s \in Sessions, MonitorFires(s) PROVE Ledger!Next
  <2>0. restarts' = restarts
    BY <1>3 DEF MonitorFires
  <2>1. s \in Counted /\ s \notin Alive
    BY <1>3 DEF MonitorFires, Counted
  <2>2. Counted' = Counted \ {s} /\ Alive' = Alive
    BY <1>a, <1>3 DEF MonitorFires, Counted, TypeOK, ServerTypes, client
  <2>3. count = 1 <=> Counted = {s}
    BY <1>a, <2>1, CountedType, FS_Singleton DEF CountIsMonitors
  <2>4. Due' = IF Counted = {s} THEN Due \cup {s} ELSE Due
    <3>1. mon' = [mon EXCEPT ![s] = IF count = 1 THEN "last" ELSE "done"]
      BY <1>3 DEF MonitorFires
    <3>2. s \notin Due
      BY <1>3 DEF MonitorFires
    <3>3. QED
      BY <1>a, <2>3, <3>1, <3>2 DEF TypeOK, ServerTypes
  <2>5. Ledger!Leave(s)
    BY <2>0, <2>1, <2>2, <2>4 DEF Ledger!Leave
  <2>6. QED
    BY <2>5 DEF Ledger!Next
<1>4. ASSUME NEW s \in Sessions, MonitorAsks(s) PROVE Ledger!Next
  <2>0. restarts' = restarts
    BY <1>4 DEF MonitorAsks
  <2>1. s \in Due /\ Due' = Due \ {s}
    BY <1>a, <1>4 DEF MonitorAsks, TypeOK, ServerTypes
  <2>2. Counted' = Counted /\ Alive' = Alive
    BY <1>a, <1>4 DEF MonitorAsks, Counted, TypeOK, ServerTypes, client
  <2>3. Ledger!Ask(s)
    BY <2>0, <2>1, <2>2 DEF Ledger!Ask
  <2>4. QED
    BY <2>3 DEF Ledger!Next
<1>5. CASE UNCHANGED <<count, mon, restarts>>
  <2>1. Counted' = Counted /\ Due' = Due
    BY <1>5 DEF Counted
  <2>2. CASE Alive' = Alive
    BY <1>5, <2>1, <2>2 DEF Ledger!ledger
  <2>3. ASSUME NEW s \in Sessions, s \in Alive, Alive' = Alive \ {s}
        PROVE  Ledger!Next
    BY <1>5, <2>1, <2>3 DEF Ledger!Next, Ledger!End
  <2>4. QED
    BY <1>a, <2>2, <2>3, AliveFrame
<1>6. QED
  BY <1>1, <1>2, <1>3, <1>4, <1>5, CounterFrame

\* The counting by threads implements SessionLedger: of sessions that end
\* together, exactly the one that empties the count owes the CheckIdle.
THEOREM LedgerCorrect == Spec => ImplementsLedger
<1>1. Init => Ledger!Init
  BY DEF Init, Ledger!Init, Counted
<1>2. IInv /\ [Next]_vars => [Ledger!Next]_(Ledger!ledger)
  BY LedgerStep
<1>3. QED
  BY <1>1, <1>2, Invariance, PTL DEF Spec, ImplementsLedger, Ledger!Spec
=============================================================================
