------------------------------ MODULE IdleStop ------------------------------
(***************************************************************************)
(* How podbox decides that a container is idle and stops it.               *)
(*                                                                         *)
(* Four kinds of actors take part:                                         *)
(*   - the CLI (`podbox shell`, `podbox exec`), which registers its own    *)
(*     pidfd with the host server and then becomes `podman exec`;          *)
(*   - the host server (`podbox serve`), which counts the registered       *)
(*     sessions, one monitor thread each, and asks the guest daemon        *)
(*     (CheckIdle) when the count drops to zero;                           *)
(*   - the guest daemon (`podbox-guest --daemon`), which scans /proc and   *)
(*     answers IdleTimeout or Busy, and after Busy keeps watching the      *)
(*     processes it found;                                                 *)
(*   - systemd, which starts and stops the container and owns the          *)
(*     listening socket, so that queued connections outlive a server.      *)
(*                                                                         *)
(* A container is started at most MaxStarts times; the starts are numbered *)
(* and every start has a daemon of its own, with a connection of its own.  *)
(* Processes are numbered, and the numbers are the pids: /proc lists them  *)
(* in ascending order, so the daemon's Vec of tracked processes is the     *)
(* set `tracked` in that order and a Vec index is a Rank.                  *)
(***************************************************************************)
EXTENDS Integers, Sequences, FiniteSets

CONSTANTS
  Sessions,       \* CLI sessions; a number is also its process's pid inside
  Background,     \* processes left in the background or begun by `podbox run`
  Residents,      \* processes of the container that are not podbox-guest and
                  \* never exit: the --init process that every generated unit
                  \* asks for; {} is a scan that would not count it
  MaxStarts,      \* bound: how often the container is started
  MaxRestarts,    \* bound: how often the host server is restarted
  MaxConcurrent,  \* MAX_CONCURRENT, the limit on connection threads
  MaxOthers       \* bound: connections of interceptors at one time

ASSUME ProcsAssumption ==
  /\ Sessions \subseteq Nat /\ Background \subseteq Nat /\ Residents \subseteq Nat
  /\ IsFiniteSet(Sessions) /\ IsFiniteSet(Background) /\ IsFiniteSet(Residents)
  /\ Sessions \cap Background = {}
  /\ (Sessions \cup Background) \cap Residents = {}

ASSUME BoundsAssumption ==
  /\ MaxStarts \in Nat \ {0} /\ MaxRestarts \in Nat
  /\ MaxConcurrent \in Nat \ {0} /\ MaxOthers \in Nat

VARIABLES
  \* systemd and the container
  running,      \* is the container up?
  gen,          \* number of the latest start, 0 before the first
  inside,       \* processes in the container other than podbox-guest
  fresh,        \* background processes not yet spawned
  \* the CLI
  cli,          \* where each session's CLI process is
  sent,         \* sessions whose RegisterSession frame and pidfd were written
  \* the host server
  restarts,     \* host server restarts so far
  sconn,        \* host side of each session's connection
  dconn,        \* host side of each start's daemon connection
  others,       \* connection threads busy with interceptors
  daemonStream, \* SharedState.daemon_stream: the start it belongs to, 0 = None
  count,        \* SharedState.session_count
  mon,          \* the monitor_pidfd thread of each session
  \* the wires
  toHost,       \* per start: frames the daemon wrote and the host has not read
  toDaemon,     \* frames written to the latest daemon and not read
  \* the guest daemon of the latest start
  dpc,          \* where the daemon is
  tracked,      \* processes it holds a pidfd of
  exited,       \* ranks that poll reported as exited
  base,         \* processes present when the scan in progress began
  \* history, read by properties only
  idleBase      \* per start: processes present when a scan that was answered
                \* IdleTimeout began

container == <<running, gen, inside, fresh>>
client    == <<cli, sent>>
server    == <<restarts, sconn, dconn, others, daemonStream, count, mon>>
wires     == <<toHost, toDaemon>>
guest     == <<dpc, tracked, exited, base>>
vars      == <<container, client, server, wires, guest, idleBase>>

User   == Sessions \cup Background
Procs  == User \cup Residents
Starts == 1..MaxStarts

CliState   == {"new", "ready", "connected", "exec", "inside", "gone"}
ConnState  == {"none", "queued", "open", "closed"}
Held       == {"open", "replying", "stopping"}   \* a thread serves it
DConnState == ConnState \cup Held
MonState   == {"none", "waiting", "last", "done"}
GuestPc    == {"off", "start", "greet", "poll", "host", "scan", "exits",
               "rescan", "dead"}
ToHostMsg   == {"Hello", "Busy", "IdleTimeout"}
ToDaemonMsg == {"HelloAck", "Shutdown", "CheckIdle"}

ContainerTypes ==
  /\ running \in BOOLEAN
  /\ gen \in 0..MaxStarts
  /\ inside \in SUBSET Procs
  /\ fresh \in SUBSET Background

ClientTypes ==
  /\ cli \in [Sessions -> CliState]
  /\ sent \in SUBSET Sessions

ServerTypes ==
  /\ restarts \in 0..MaxRestarts
  /\ sconn \in [Sessions -> ConnState]
  /\ dconn \in [Starts -> DConnState]
  /\ others \in 0..MaxOthers
  /\ daemonStream \in 0..MaxStarts
  /\ count \in Nat
  /\ mon \in [Sessions -> MonState]

WireTypes ==
  /\ toHost \in [Starts -> Seq(ToHostMsg)]
  /\ toDaemon \in Seq(ToDaemonMsg)

GuestTypes ==
  /\ dpc \in GuestPc
  /\ tracked \in SUBSET Procs
  /\ exited \in SUBSET Nat
  /\ base \in SUBSET Procs
  /\ idleBase \in [Starts -> SUBSET Procs]

TypeOK == ContainerTypes /\ ClientTypes /\ ServerTypes /\ WireTypes /\ GuestTypes

Init ==
  /\ running = FALSE /\ gen = 0 /\ inside = {} /\ fresh = Background
  /\ cli = [s \in Sessions |-> "new"] /\ sent = {}
  /\ restarts = 0
  /\ sconn = [s \in Sessions |-> "none"]
  /\ dconn = [g \in Starts |-> "none"]
  /\ others = 0 /\ daemonStream = 0 /\ count = 0
  /\ mon = [s \in Sessions |-> "none"]
  /\ toHost = [g \in Starts |-> <<>>] /\ toDaemon = <<>>
  /\ dpc = "off" /\ tracked = {} /\ exited = {} /\ base = {}
  /\ idleBase = [g \in Starts |-> {}]

-----------------------------------------------------------------------------
(* The container, as systemd starts and stops it.                          *)

\* The guest daemon's process exists.
GuestAlive == dpc \notin {"off", "dead"}

\* The daemon of start g holds its end of the connection open.
DaemonHolds(g) == g = gen /\ GuestAlive

\* `systemctl --user start`: the entry process forks the new daemon.
StartContainer ==
  /\ ~running /\ gen < MaxStarts
  /\ running' = TRUE
  /\ gen' = gen + 1
  /\ inside' = Residents
  /\ dpc' = "start" /\ tracked' = {} /\ exited' = {} /\ base' = {}
  /\ toDaemon' = <<>>
  /\ UNCHANGED <<fresh, client, server, toHost, idleBase>>

\* Stopping the unit kills every process of the container, daemon included.
KillContainer ==
  /\ running' = FALSE
  /\ inside' = {}
  /\ dpc' = "off" /\ tracked' = {} /\ exited' = {} /\ base' = {}
  /\ toDaemon' = <<>>
  /\ UNCHANGED <<gen, fresh, client, toHost, idleBase>>

\* `podbox stop`, or the container crashes.
StopContainer == running /\ KillContainer /\ UNCHANGED server

\* `podbox run`, or a process inside forks one that stays.
Spawn(b) ==
  /\ running /\ b \in fresh
  /\ inside' = inside \cup {b}
  /\ fresh' = fresh \ {b}
  /\ UNCHANGED <<running, gen, client, server, wires, guest, idleBase>>

\* A process inside the container ends.
ProcExit(p) ==
  /\ p \in inside \ Residents
  /\ inside' = inside \ {p}
  /\ UNCHANGED <<running, gen, fresh, client, server, wires, guest, idleBase>>

-----------------------------------------------------------------------------
(* The CLI: ensure_running, register_session, exec_replace.                *)

\* ensure_running sees the container running.
CliEnsured(s) ==
  /\ cli[s] = "new" /\ running
  /\ cli' = [cli EXCEPT ![s] = "ready"]
  /\ UNCHANGED <<container, sent, server, wires, guest, idleBase>>

\* No pidfd on this kernel, or no socket: the session goes on unregistered.
CliSkip(s) ==
  /\ cli[s] = "ready"
  /\ cli' = [cli EXCEPT ![s] = "exec"]
  /\ UNCHANGED <<container, sent, server, wires, guest, idleBase>>

CliConnect(s) ==
  /\ cli[s] = "ready"
  /\ cli' = [cli EXCEPT ![s] = "connected"]
  /\ sconn' = [sconn EXCEPT ![s] = "queued"]
  /\ UNCHANGED <<container, sent, restarts, dconn, others, daemonStream, count,
                 mon, wires, guest, idleBase>>

\* The RegisterSession frame and the pidfd; an error of either is ignored.
CliSend(s) ==
  /\ cli[s] = "connected"
  /\ cli' = [cli EXCEPT ![s] = "exec"]
  /\ sent' = sent \cup {s}
  /\ UNCHANGED <<container, server, wires, guest, idleBase>>

\* exec_replace: the same process, so the pidfd stays valid, is now
\* `podman exec`; it fails at once when the container is down.
CliExec(s) ==
  /\ cli[s] = "exec"
  /\ IF running
       THEN /\ cli' = [cli EXCEPT ![s] = "inside"]
            /\ inside' = inside \cup {s}
       ELSE /\ cli' = [cli EXCEPT ![s] = "gone"]
            /\ UNCHANGED inside
  /\ UNCHANGED <<running, gen, fresh, sent, server, wires, guest, idleBase>>

\* `podman exec` returns because its process inside ended.
CliReturn(s) ==
  /\ cli[s] = "inside" /\ s \notin inside
  /\ cli' = [cli EXCEPT ![s] = "gone"]
  /\ UNCHANGED <<container, sent, server, wires, guest, idleBase>>

\* The CLI is killed (terminal closed) or gives up waiting for the start;
\* a process it already has inside stays there.
CliDie(s) ==
  /\ cli[s] \notin {"gone"}
  /\ cli' = [cli EXCEPT ![s] = "gone"]
  /\ UNCHANGED <<container, sent, server, wires, guest, idleBase>>

-----------------------------------------------------------------------------
(* The host server: run, handle_connection, monitor_pidfd.                 *)

Handlers == Cardinality({s \in Sessions : sconn[s] = "open"})
            + Cardinality({g \in Starts : dconn[g] \in Held})
            + others

\* Mutated: the limit is compared with the wrong operator.
AdmittedOffByOne == IF Handlers <= MaxConcurrent THEN "open" ELSE "closed"

\* accept: a thread for the connection, or the connection is dropped.
Admitted == IF Handlers < MaxConcurrent THEN "open" ELSE "closed"

AcceptSession(s) ==
  /\ sconn[s] = "queued"
  /\ sconn' = [sconn EXCEPT ![s] = Admitted]
  /\ UNCHANGED <<container, client, restarts, dconn, others, daemonStream,
                 count, mon, wires, guest, idleBase>>

AcceptDaemon(g) ==
  /\ dconn[g] = "queued"
  /\ dconn' = [dconn EXCEPT ![g] = Admitted]
  /\ toHost' = [toHost EXCEPT ![g] = IF Admitted = "open" THEN @ ELSE <<>>]
  /\ UNCHANGED <<container, client, restarts, sconn, others, daemonStream,
                 count, mon, toDaemon, guest, idleBase>>

\* An interceptor's connection takes a thread, or leaves it.
AcceptOther ==
  /\ others < MaxOthers /\ Admitted = "open"
  /\ others' = others + 1
  /\ UNCHANGED <<container, client, restarts, sconn, dconn, daemonStream,
                 count, mon, wires, guest, idleBase>>

OtherDone ==
  /\ others > 0
  /\ others' = others - 1
  /\ UNCHANGED <<container, client, restarts, sconn, dconn, daemonStream,
                 count, mon, wires, guest, idleBase>>

\* Mutated: the session's monitor is spawned and the counter left alone.
HandleRegisterUncounted(s) ==
  /\ sconn[s] = "open" /\ s \in sent
  /\ sconn' = [sconn EXCEPT ![s] = "closed"]
  /\ mon' = [mon EXCEPT ![s] = "waiting"]
  /\ UNCHANGED <<container, client, restarts, dconn, others, daemonStream,
                 count, wires, guest, idleBase>>

\* Mutated: no monitor for a process that has ended before its pidfd is read.
HandleRegisterEnded(s) ==
  /\ sconn[s] = "open" /\ s \in sent
  /\ sconn' = [sconn EXCEPT ![s] = "closed"]
  /\ count' = count + 1
  /\ mon' = [mon EXCEPT ![s] = IF cli[s] = "gone" THEN "done" ELSE "waiting"]
  /\ UNCHANGED <<container, client, restarts, dconn, others, daemonStream,
                 wires, guest, idleBase>>

\* The RegisterSession arm: count the session, spawn its monitor, return.
HandleRegister(s) ==
  /\ sconn[s] = "open" /\ s \in sent
  /\ sconn' = [sconn EXCEPT ![s] = "closed"]
  /\ count' = count + 1
  /\ mon' = [mon EXCEPT ![s] = "waiting"]
  /\ UNCHANGED <<container, client, restarts, dconn, others, daemonStream,
                 wires, guest, idleBase>>

\* The pidfd does not follow: EOF because the CLI died, or the read timeout.
\* The session is not counted, and a CLI that lives goes on all the same.
HandleNoPidfd(s) ==
  /\ sconn[s] = "open" /\ s \notin sent /\ cli[s] \in {"connected", "gone"}
  /\ sconn' = [sconn EXCEPT ![s] = "closed"]
  /\ UNCHANGED <<container, client, restarts, dconn, others, daemonStream,
                 count, mon, wires, guest, idleBase>>

\* Mutated: fetch_sub returns the value before, not after, the subtraction.
MonitorFiresAtZero(s) ==
  /\ mon[s] = "waiting" /\ cli[s] = "gone"
  /\ count' = count - 1
  /\ mon' = [mon EXCEPT ![s] = IF count = 0 THEN "last" ELSE "done"]
  /\ UNCHANGED <<container, client, restarts, sconn, dconn, others,
                 daemonStream, wires, guest, idleBase>>

\* Mutated: the monitor polls again after it has decremented.
MonitorFiresAgain(s) ==
  /\ mon[s] = "waiting" /\ cli[s] = "gone"
  /\ count' = count - 1
  /\ mon' = [mon EXCEPT ![s] = IF count = 1 THEN "last" ELSE "waiting"]
  /\ UNCHANGED <<container, client, restarts, sconn, dconn, others,
                 daemonStream, wires, guest, idleBase>>

\* The pidfd polls readable: fetch_sub, and remember whether it returned 1.
MonitorFires(s) ==
  /\ mon[s] = "waiting" /\ cli[s] = "gone"
  /\ count' = count - 1
  /\ mon' = [mon EXCEPT ![s] = IF count = 1 THEN "last" ELSE "done"]
  /\ UNCHANGED <<container, client, restarts, sconn, dconn, others,
                 daemonStream, wires, guest, idleBase>>

\* Mutated: the last monitor does not write CheckIdle.
MonitorForgets(s) ==
  /\ mon[s] = "last"
  /\ mon' = [mon EXCEPT ![s] = "done"]
  /\ UNCHANGED <<container, client, restarts, sconn, dconn, others,
                 daemonStream, count, wires, guest, idleBase>>

\* The last monitor locks daemon_stream and writes CheckIdle if it is Some;
\* to a daemon that is no longer there the write fails and is ignored.
MonitorAsks(s) ==
  /\ mon[s] = "last"
  /\ mon' = [mon EXCEPT ![s] = "done"]
  /\ toDaemon' = IF daemonStream # 0 /\ DaemonHolds(daemonStream)
                   THEN Append(toDaemon, "CheckIdle") ELSE toDaemon
  /\ UNCHANGED <<container, client, restarts, sconn, dconn, others,
                 daemonStream, count, toHost, guest, idleBase>>

\* The Hello arm stores a clone of the stream, if it gets one, and then replies.
HandleHello(g) ==
  /\ dconn[g] = "open" /\ toHost[g] # <<>> /\ Head(toHost[g]) = "Hello"
  /\ toHost' = [toHost EXCEPT ![g] = Tail(@)]
  /\ daemonStream' \in {g, daemonStream}
  /\ dconn' = [dconn EXCEPT ![g] = "replying"]
  /\ UNCHANGED <<container, client, restarts, sconn, others, count, mon,
                 toDaemon, guest, idleBase>>

\* handle_hello: HelloAck, or Shutdown to a guest of another protocol
\* version.  Writing to a guest that has gone ends the thread.
ReplyHello(g) ==
  /\ dconn[g] = "replying"
  /\ IF DaemonHolds(g)
       THEN /\ \E reply \in {"HelloAck", "Shutdown"} :
                 toDaemon' = Append(toDaemon, reply)
            /\ dconn' = [dconn EXCEPT ![g] = "open"]
            /\ UNCHANGED toHost
       ELSE /\ dconn' = [dconn EXCEPT ![g] = "closed"]
            /\ toHost' = [toHost EXCEPT ![g] = <<>>]
            /\ UNCHANGED toDaemon
  /\ UNCHANGED <<container, client, restarts, sconn, others, daemonStream,
                 count, mon, guest, idleBase>>

\* The Busy arm does nothing.
HandleBusy(g) ==
  /\ dconn[g] = "open" /\ toHost[g] # <<>> /\ Head(toHost[g]) = "Busy"
  /\ toHost' = [toHost EXCEPT ![g] = Tail(@)]
  /\ UNCHANGED <<container, client, server, toDaemon, guest, idleBase>>

\* The IdleTimeout arm runs `systemctl --user stop`, looking at nothing else.
HandleIdle(g) ==
  /\ dconn[g] = "open" /\ toHost[g] # <<>> /\ Head(toHost[g]) = "IdleTimeout"
  /\ toHost' = [toHost EXCEPT ![g] = Tail(@)]
  /\ dconn' = [dconn EXCEPT ![g] = "stopping"]
  /\ UNCHANGED <<container, client, restarts, sconn, others, daemonStream,
                 count, mon, toDaemon, guest, idleBase>>

\* systemctl has stopped the unit, and the thread reads its next frame.
SystemctlStop(g) ==
  /\ dconn[g] = "stopping"
  /\ dconn' = [dconn EXCEPT ![g] = "open"]
  /\ IF running THEN KillContainer
                ELSE UNCHANGED <<container, client, wires, guest, idleBase>>
  /\ UNCHANGED <<restarts, sconn, others, daemonStream, count, mon>>

\* read_frame sees EOF; daemon_stream keeps its clone.
HandleDaemonEof(g) ==
  /\ dconn[g] = "open" /\ toHost[g] = <<>> /\ ~DaemonHolds(g)
  /\ dconn' = [dconn EXCEPT ![g] = "closed"]
  /\ UNCHANGED <<container, client, restarts, sconn, others, daemonStream,
                 count, mon, wires, guest, idleBase>>

\* The server dies and systemd starts it again: its memory and its accepted
\* connections are lost, systemd keeps the listening socket and its backlog.
RestartServer ==
  /\ restarts < MaxRestarts
  /\ restarts' = restarts + 1
  /\ sconn' = [s \in Sessions |-> IF sconn[s] = "open" THEN "closed" ELSE sconn[s]]
  /\ dconn' = [g \in Starts |-> IF dconn[g] \in Held THEN "closed" ELSE dconn[g]]
  /\ toHost' = [g \in Starts |-> IF dconn[g] \in Held THEN <<>> ELSE toHost[g]]
  /\ mon' = [s \in Sessions |-> IF mon[s] = "done" THEN "done" ELSE "none"]
  /\ others' = 0 /\ daemonStream' = 0 /\ count' = 0
  /\ UNCHANGED <<container, client, toDaemon, guest, idleBase>>

-----------------------------------------------------------------------------
(* The guest daemon: run, event_loop, scan_user_processes.                 *)

\* The position of p in the Vec of the processes S, which is in /proc order.
Rank(p, S) == Cardinality({q \in S : q <= p})

\* What the daemon writes arrives unless the host has closed the connection.
DaemonWrites(m) ==
  toHost' = IF dconn[gen] = "closed" THEN toHost
            ELSE [toHost EXCEPT ![gen] = Append(@, m)]

\* The daemon's process ends: its pidfds and its socket are closed.
DaemonDies ==
  /\ dpc' = "dead" /\ tracked' = {} /\ exited' = {} /\ base' = {}
  /\ toDaemon' = <<>>
  /\ UNCHANGED <<container, client, server, toHost, idleBase>>

DaemonConnect ==
  /\ dpc = "start"
  /\ dpc' = "greet"
  /\ dconn' = [dconn EXCEPT ![gen] = "queued"]
  /\ toHost' = [toHost EXCEPT ![gen] = <<"Hello">>]
  /\ UNCHANGED <<container, client, restarts, sconn, others, daemonStream,
                 count, mon, toDaemon, tracked, exited, base, idleBase>>

\* Three failed connects, or an I/O error while setting up: exit(1).
DaemonFails == dpc \in {"start", "greet"} /\ DaemonDies

\* The first frame after Hello has to be HelloAck.
DaemonGreeted ==
  /\ dpc = "greet" /\ toDaemon # <<>> /\ Head(toDaemon) = "HelloAck"
  /\ dpc' = "poll"
  /\ toDaemon' = Tail(toDaemon)
  /\ UNCHANGED <<container, client, server, toHost, tracked, exited, base,
                 idleBase>>

\* Mutated: the end of the stream during the handshake is not an error.
DaemonWaitsOn ==
  /\ dpc = "greet"
  /\ toDaemon # <<>> /\ Head(toDaemon) # "HelloAck"
  /\ DaemonDies

DaemonRefused ==
  /\ dpc = "greet"
  /\ \/ toDaemon # <<>> /\ Head(toDaemon) # "HelloAck"
     \/ toDaemon = <<>> /\ dconn[gen] = "closed"
  /\ DaemonDies

\* poll returns: which tracked processes have exited is read now, and used
\* after the host's message has been handled.
DaemonPoll ==
  LET gone == {Rank(p, tracked) : p \in tracked \ inside}
  IN /\ dpc = "poll" /\ dconn[gen] # "closed"
     /\ toDaemon # <<>> \/ gone # {}
     /\ exited' = gone
     /\ dpc' = IF toDaemon # <<>> THEN "host" ELSE "exits"
     /\ UNCHANGED <<container, client, server, wires, tracked, base, idleBase>>

DaemonHangup == dpc = "poll" /\ dconn[gen] = "closed" /\ DaemonDies

\* CheckIdle is read and the scan of /proc begins.
DaemonCheck ==
  /\ dpc = "host" /\ toDaemon # <<>> /\ Head(toDaemon) = "CheckIdle"
  /\ toDaemon' = Tail(toDaemon)
  /\ dpc' = "scan" /\ base' = inside
  /\ UNCHANGED <<container, client, server, toHost, tracked, exited, idleBase>>

\* A scan is not atomic: it finds what was there from its beginning to its
\* end, and perhaps what was there for a part of it.
Found(R) == base \cap inside \subseteq R /\ R \subseteq base \cup inside

\* Mutated: a process found again, which Busy has reported already, is ignored.
DaemonIdleHasty ==
  /\ \/ dpc = "scan" /\ Found({})
     \/ dpc = "rescan"
  /\ DaemonWrites("IdleTimeout")
  /\ dpc' = IF dpc = "scan" THEN "exits" ELSE "poll"
  /\ idleBase' = [idleBase EXCEPT ![gen] = @ \cup base]
  /\ base' = {}
  /\ UNCHANGED <<container, client, server, toDaemon, tracked, exited>>

\* IdleTimeout after a scan that found nobody.
DaemonIdle ==
  /\ dpc \in {"scan", "rescan"} /\ Found({})
  /\ DaemonWrites("IdleTimeout")
  /\ dpc' = IF dpc = "scan" THEN "exits" ELSE "poll"
  /\ idleBase' = [idleBase EXCEPT ![gen] = @ \cup base]
  /\ base' = {}
  /\ UNCHANGED <<container, client, server, toDaemon, tracked, exited>>

\* The scan found R: a pidfd of each is opened, which fails for those that
\* have exited meanwhile; Busy is the answer to CheckIdle only.
DaemonBusy(R) ==
  /\ dpc \in {"scan", "rescan"} /\ R # {} /\ Found(R)
  /\ tracked' = R \cap inside
  /\ IF dpc = "scan" THEN DaemonWrites("Busy") ELSE UNCHANGED toHost
  /\ dpc' = IF dpc = "scan" THEN "exits" ELSE "poll"
  /\ base' = {}
  /\ UNCHANGED <<container, client, server, toDaemon, exited, idleBase>>

\* Mutated: the exited processes are dropped and nobody looks again.
DaemonExitsQuietly ==
  /\ dpc = "exits" /\ exited \subseteq 1..Cardinality(tracked)
  /\ tracked' = {p \in tracked : Rank(p, tracked) \notin exited}
  /\ exited' = {} /\ dpc' = "poll" /\ base' = {}
  /\ UNCHANGED <<container, client, server, wires, idleBase>>

\* tracked.remove(i) for the exited indices, the highest first; with nobody
\* left to track, scan again.
DaemonExits ==
  LET left == {p \in tracked : Rank(p, tracked) \notin exited}
      again == exited # {} /\ left = {}
  IN /\ dpc = "exits" /\ exited \subseteq 1..Cardinality(tracked)
     /\ tracked' = left /\ exited' = {}
     /\ dpc' = IF again THEN "rescan" ELSE "poll"
     /\ base' = IF again THEN inside ELSE {}
     /\ UNCHANGED <<container, client, server, wires, idleBase>>

\* An index past the end of the Vec: remove panics.
DaemonPanics ==
  /\ dpc = "exits" /\ ~(exited \subseteq 1..Cardinality(tracked))
  /\ DaemonDies

-----------------------------------------------------------------------------
CliNext(s) == CliEnsured(s) \/ CliSkip(s) \/ CliConnect(s) \/ CliSend(s)
              \/ CliExec(s) \/ CliReturn(s) \/ CliDie(s)

SessionThread(s) == AcceptSession(s) \/ HandleRegister(s) \/ HandleNoPidfd(s)
                    \/ MonitorFires(s) \/ MonitorAsks(s)

DaemonThread(g) == AcceptDaemon(g) \/ HandleHello(g) \/ ReplyHello(g)
                   \/ HandleBusy(g) \/ HandleIdle(g) \/ SystemctlStop(g)
                   \/ HandleDaemonEof(g)

Daemon == DaemonConnect \/ DaemonGreeted \/ DaemonRefused \/ DaemonPoll
          \/ DaemonHangup \/ DaemonCheck \/ DaemonIdle
          \/ (\E R \in SUBSET (base \cup inside) : DaemonBusy(R))
          \/ DaemonExits \/ DaemonPanics

Environment == StartContainer \/ StopContainer \/ RestartServer
               \/ AcceptOther \/ OtherDone \/ DaemonFails
               \/ (\E b \in Background : Spawn(b))
               \/ (\E p \in User : ProcExit(p))

Next == \/ \E s \in Sessions : CliNext(s) \/ SessionThread(s)
        \/ \E g \in Starts : DaemonThread(g)
        \/ Daemon
        \/ Environment

Spec == Init /\ [][Next]_vars

\* Threads and processes that have something to do get to do it.  Nothing
\* obliges a user to open or end a session, a process to end, systemd to start
\* or stop the container, or the server to die.
Fairness ==
  /\ \A s \in Sessions :
       /\ WF_vars(CliSend(s) \/ CliExec(s) \/ CliReturn(s))
       /\ WF_vars(AcceptSession(s) \/ HandleRegister(s) \/ HandleNoPidfd(s))
       /\ WF_vars(MonitorFires(s) \/ MonitorAsks(s))
  /\ \A g \in Starts : WF_vars(DaemonThread(g))
  /\ WF_vars(Daemon)

FairSpec == Spec /\ Fairness

-----------------------------------------------------------------------------
(* Properties.                                                             *)

\* The sessions the server counts: those whose monitor thread still waits.
Counted == {s \in Sessions : mon[s] = "waiting"}

\* session_count is, at every moment, the number of monitor threads that have
\* not yet decremented it, across late registrations, sessions that died
\* before their pidfd was read, dropped connections and server restarts; so
\* the unsigned fetch_sub never wraps.
CountIsMonitors == count = Cardinality(Counted)

\* The counter and its monitor threads implement SessionLedger: a session is
\* counted once, stops counting only after its CLI process has ended, and of
\* sessions that end together exactly the one whose fetch_sub empties the
\* count asks the daemon, however their threads interleave.
Ledger == INSTANCE SessionLedger
          WITH alive  <- {s \in Sessions : cli[s] # "gone"},
               active <- Counted,
               due    <- {s \in Sessions : mon[s] = "last"},
             epoch  <- restarts
ImplementsLedger == Ledger!Spec

\* As long as an IdleTimeout of the running container is on its way, or has
\* been acted on, no process that the daemon's scan could have seen from its
\* beginning to its end is still inside: a scan overlooks late arrivals only.
IdleSawNobody == running => inside \cap idleBase[gen] = {}

\* MAX_CONCURRENT bounds the threads that serve connections, the daemon's and
\* those blocked in an interceptor or in `systemctl stop` included.
ThreadsBounded == Handlers <= MaxConcurrent

InLoop == dpc \in {"poll", "host", "scan", "exits", "rescan"}

\* An earlier daemon's Hello is still unread; handling it puts that daemon's
\* stream in place of the present one.
LateHello == \E g \in 1..(gen - 1) : toHost[g] # <<>> /\ Head(toHost[g]) = "Hello"

\* The last session has ended while no user process is inside and the daemon
\* that the server knows is in its event loop: unless a process enters, the
\* daemon dies or the container is stopped otherwise, the idle stop goes
\* through: no message between monitor, daemon and connection thread waits for
\* another wake-up.  With no Residents it holds; with the --init process of the
\* generated units, whose name the scan does not know, the answer is Busy for
\* good and the container is never stopped for being idle.
DrainedContainerStops ==
  (/\ running /\ inside \cap User = {} /\ InLoop
   /\ daemonStream = gen /\ dconn[gen] # "closed" /\ ~LateHello
   /\ \E s \in Sessions : mon[s] = "last")
    ~> (~running \/ inside \cap User # {} \/ ~InLoop)

\* After Busy the daemon watches the processes it found: when all of them have
\* exited it scans /proc again, by itself or because CheckIdle came first, and
\* neither a message handled between the poll and the removal of the exited
\* ones nor an index that has become stale keeps it from that; unless it leaves
\* its loop.
WatchEndsInRescan ==
  (dpc = "poll" /\ tracked # {} /\ tracked \cap inside = {})
    ~> (dpc \in {"scan", "rescan"} \/ ~InLoop)

\* When all CLI processes have ended, every registration still queued, read
\* late or monitored is worked off: the count goes to zero and stays there.
CountDrains ==
  <>[](\A s \in Sessions : cli[s] = "gone") => <>[](count = 0)

\* The handshake of the daemon, whose read has no timeout, always ends: with a
\* reply, with a frame that overtook the reply, or with the connection dropped
\* or lost in a server restart.
HandshakeEnds == (dpc = "greet") ~> (dpc # "greet")
=============================================================================
