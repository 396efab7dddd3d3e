---------------------------- MODULE HostRequests ----------------------------
(***************************************************************************)
(* What programs in a container ask of the host: `host-exec`, xdg-open,    *)
(* notify-send and podbox-clipboard, links to podbox-guest, open a         *)
(* connection each, send one request and, for some kinds, wait for frames  *)
(* in return.  A thread of the host server serves a connection: it starts  *)
(* the command, or shows the notification, and writes what came of it.     *)
(* Either side can go away at any moment, connections over the limit are   *)
(* dropped, and a restart of the server takes its threads and the          *)
(* commands they started with it.                                          *)
(*                                                                         *)
(* A frame is its type, and for HostExecDone the exit code; "huge" is a    *)
(* frame longer than MAX_FRAME_SIZE, which can be written and not read.    *)
(***************************************************************************)
EXTENDS Integers, Sequences, FiniteSets

CONSTANTS
  Requests,       \* calls of interceptors
  Results,        \* what commands leave: exit code, stdout and stderr
  MaxConcurrent,  \* threads the limit leaves for interceptors
  MaxRestarts,    \* bound: how often the host server is restarted
  MaxPings        \* bound: pings to a guest that has not sent its request

Size   == {"none", "some", "huge"}
Result == [code : Nat, out : Size, err : Size]

\* The code of a command that a signal ended is 1 (unwrap_or).
ASSUME RequestsAssumption == IsFiniteSet(Requests) /\ Results \subseteq Result
ASSUME BoundsAssumption ==
  MaxConcurrent \in Nat \ {0} /\ MaxRestarts \in Nat /\ MaxPings \in Nat

VARIABLES
  \* the guest
  kind,      \* what each call asks for
  call,      \* where the interceptor's process is
  exit,      \* its exit code, NoExit while it runs
  printed,   \* what host-exec has written to its stdout and stderr
  \* the wires
  toHost,    \* is the request written and not read?
  toGuest,   \* frames written and not read
  pings,
  \* the host
  restarts,
  thread,    \* the thread of each connection
  out,       \* frames it has yet to write
  command,   \* the command it started
  result,    \* what the command has left: exit code and output
  \* history, read by properties only
  runs,      \* how often the command was started
  heardDone, \* has host-exec read HostExecDone?
  served     \* requests the server has read and acted upon

guest   == <<kind, call, exit, printed>>
wires   == <<toHost, toGuest, pings>>
host    == <<restarts, thread, out, command, result>>
history == <<runs, heardDone, served>>
vars    == <<guest, wires, host, history>>

\* host-exec; one that is only told (xdg-open, clipboard set, notify-send
\* without actions); clipboard get; notify-send with actions.
Kind   == {"exec", "tell", "get", "ask"}
Call   == {"new", "connected", "waiting", "over"}
Thread == {"none", "queued", "reading", "outside", "replying", "closed"}
NoExit == -1
Killed == 130
Panic  == 101

Frame(t) == [type |-> t, code |-> 0]
Done(c)  == [type |-> "done", code |-> c]
FrameType == {"stdout", "stderr", "huge", "done", "ping", "reply"}
Frames    == [type : FrameType, code : Nat]

TypeOK ==
  /\ kind \in [Requests -> Kind] /\ call \in [Requests -> Call]
  /\ exit \in [Requests -> Int]
  /\ printed \in [Requests -> Seq({"stdout", "stderr"})]
  /\ toHost \in SUBSET Requests
  /\ toGuest \in [Requests -> Seq(Frames)]
  /\ pings \in [Requests -> 0..MaxPings]
  /\ restarts \in 0..MaxRestarts
  /\ thread \in [Requests -> Thread]
  /\ out \in [Requests -> Seq(Frames)]
  /\ command \in [Requests -> {"none", "running", "ended"}]
  /\ result \in [Requests -> Result]
  /\ runs \in [Requests -> Nat]
  /\ heardDone \in SUBSET Requests /\ served \in SUBSET Requests
  /\ \A r \in Requests : thread[r] = "replying" => out[r] # <<>>

NoResult == [code |-> 0, out |-> "none", err |-> "none"]

Init ==
  /\ kind \in [Requests -> Kind] /\ call = [r \in Requests |-> "new"]
  /\ exit = [r \in Requests |-> NoExit] /\ printed = [r \in Requests |-> <<>>]
  /\ toHost = {} /\ toGuest = [r \in Requests |-> <<>>]
  /\ pings = [r \in Requests |-> 0]
  /\ restarts = 0
  /\ thread = [r \in Requests |-> "none"] /\ out = [r \in Requests |-> <<>>]
  /\ command = [r \in Requests |-> "none"]
  /\ result = [r \in Requests |-> NoResult]
  /\ runs = [r \in Requests |-> 0] /\ heardDone = {} /\ served = {}

-----------------------------------------------------------------------------
(* The interceptors: send_to_host, send_to_host_and_read_response and the  *)
(* loop of host_exec::run.                                                 *)

\* The guest still has its end of the connection open.
Holds(r) == call[r] \in {"connected", "waiting"}

\* The process ends: its end of the connection is closed.
Exits(r, code) ==
  /\ call' = [call EXCEPT ![r] = "over"]
  /\ exit' = [exit EXCEPT ![r] = code]
  /\ toGuest' = [toGuest EXCEPT ![r] = <<>>]

\* systemd listens, so connect succeeds as long as there is a socket at all.
Connect(r) ==
  /\ call[r] = "new"
  /\ call' = [call EXCEPT ![r] = "connected"]
  /\ thread' = [thread EXCEPT ![r] = "queued"]
  /\ UNCHANGED <<kind, exit, printed, wires, restarts, out, command, result,
                 history>>

\* host-exec reports 1 when it cannot connect, the others do not report it.
ConnectFails(r) ==
  /\ call[r] = "new"
  /\ Exits(r, IF kind[r] = "exec" THEN 1 ELSE 0)
  /\ UNCHANGED <<kind, printed, toHost, pings, host, history>>

\* The request; host-exec unwraps an error of the write.
Send(r) ==
  /\ call[r] = "connected"
  /\ IF thread[r] = "closed"
       THEN /\ Exits(r, IF kind[r] = "exec" THEN Panic ELSE 0)
            /\ UNCHANGED toHost
       ELSE /\ toHost' = toHost \cup {r}
            /\ IF kind[r] = "tell"
                 THEN Exits(r, 0)
                 ELSE /\ call' = [call EXCEPT ![r] = "waiting"]
                      /\ UNCHANGED <<exit, toGuest>>
  /\ UNCHANGED <<kind, printed, pings, host, history>>

\* read_frame returned a frame: host-exec prints output and goes on, leaves
\* with the code of HostExecDone, and with its initial 0 at anything else.
Receive(r) ==
  LET frame == Head(toGuest[r]) IN
  /\ call[r] = "waiting" /\ toGuest[r] # <<>>
  /\ IF kind[r] = "exec" /\ frame.type \in {"stdout", "stderr"}
       THEN /\ printed' = [printed EXCEPT ![r] = Append(@, frame.type)]
            /\ toGuest' = [toGuest EXCEPT ![r] = Tail(@)]
            /\ UNCHANGED <<call, exit, heardDone>>
       ELSE /\ Exits(r, frame.code)
            /\ heardDone' = IF kind[r] = "exec" /\ frame.type = "done"
                              THEN heardDone \cup {r} ELSE heardDone
            /\ UNCHANGED printed
  /\ UNCHANGED <<kind, toHost, pings, host, runs, served>>

\* Mutated: host-exec connects again and asks once more.
HangupRetries(r) ==
  /\ call[r] = "waiting" /\ toGuest[r] = <<>> /\ thread[r] = "closed"
  /\ call' = [call EXCEPT ![r] = "connected"]
  /\ thread' = [thread EXCEPT ![r] = "queued"]
  /\ toGuest' = [toGuest EXCEPT ![r] = <<>>]
  /\ UNCHANGED <<kind, exit, printed, toHost, pings, restarts, out, command,
                 result, history>>

\* EOF, or an error: no kind of interceptor reports it in its exit code.
Hangup(r) ==
  /\ call[r] = "waiting" /\ toGuest[r] = <<>> /\ thread[r] = "closed"
  /\ Exits(r, 0)
  /\ UNCHANGED <<kind, printed, toHost, pings, host, history>>

\* Ctrl-C, or the container is stopped.
Kill(r) ==
  /\ Holds(r)
  /\ Exits(r, Killed)
  /\ UNCHANGED <<kind, printed, toHost, pings, host, history>>

-----------------------------------------------------------------------------
(* The host server: run, handle_connection and the handlers.               *)

Serving  == {r \in Requests : thread[r] \in {"reading", "outside", "replying"}}
Close(r) == thread' = [thread EXCEPT ![r] = "closed"]
           /\ out' = [out EXCEPT ![r] = <<>>]
Reply(r, frames) == thread' = [thread EXCEPT ![r] = "replying"]
                   /\ out' = [out EXCEPT ![r] = frames]

Accept(r) ==
  /\ thread[r] = "queued"
  /\ IF Cardinality(Serving) < MaxConcurrent
       THEN /\ thread' = [thread EXCEPT ![r] = "reading"]
            /\ UNCHANGED <<out, toHost>>
       ELSE /\ Close(r)
            /\ toHost' = toHost \ {r}
  /\ UNCHANGED <<guest, toGuest, pings, restarts, command, result, history>>

\* Mutated: a guest that has gone is not looked at any more.
EndsEarly(r) ==
  /\ thread[r] = "reading" /\ ~Holds(r)
  /\ Close(r)
  /\ toHost' = toHost \ {r}
  /\ UNCHANGED <<guest, toGuest, pings, restarts, command, result, history>>

\* Mutated: the end of the stream is taken for a timeout.
NeverEnds(r) ==
  /\ thread[r] = "reading" /\ r \notin toHost /\ ~Holds(r)
  /\ thread' = [thread EXCEPT ![r] = "reading"]
  /\ UNCHANGED <<guest, wires, restarts, out, command, result, history>>

\* read_frame sees the end of the stream, or the Ping cannot be written.
Eof(r) ==
  /\ thread[r] = "reading" /\ r \notin toHost /\ ~Holds(r)
  /\ Close(r)
  /\ UNCHANGED <<guest, wires, restarts, command, result, history>>

\* PING_INTERVAL has passed without a request.
Ping(r) ==
  /\ thread[r] = "reading" /\ r \notin toHost /\ Holds(r)
  /\ pings[r] < MaxPings
  /\ pings' = [pings EXCEPT ![r] = @ + 1]
  /\ toGuest' = [toGuest EXCEPT ![r] = Append(@, Frame("ping"))]
  /\ UNCHANGED <<guest, toHost, host, history>>

ReadRequest(r) ==
  /\ thread[r] = "reading" /\ r \in toHost
  /\ toHost' = toHost \ {r}
  /\ served' = served \cup {r}
  /\ UNCHANGED <<guest, toGuest, pings, restarts, result, heardDone>>

\* xdg-open, wl-copy, wl-paste and the notification take their time.
Serve(r) ==
  /\ ReadRequest(r) /\ kind[r] # "exec"
  /\ thread' = [thread EXCEPT ![r] = "outside"]
  /\ UNCHANGED <<out, command, runs>>

\* Mutated: a command that was not run has the exit code -1.
RefuseMinusOne(r) ==
  /\ ReadRequest(r) /\ kind[r] = "exec"
  /\ Reply(r, <<Frame("stderr"), Done(-1)>>)
  /\ UNCHANGED <<command, runs>>

\* Disabled, not in the allowlist, arguments rejected, or not spawned.
Refuse(r) ==
  /\ ReadRequest(r) /\ kind[r] = "exec"
  /\ Reply(r, <<Frame("stderr"), Done(1)>>)
  /\ UNCHANGED <<command, runs>>

StartCommand(r) ==
  /\ ReadRequest(r) /\ kind[r] = "exec"
  /\ thread' = [thread EXCEPT ![r] = "outside"]
  /\ command' = [command EXCEPT ![r] = "running"]
  /\ runs' = [runs EXCEPT ![r] = @ + 1]
  /\ UNCHANGED out

\* The command has ended and all that held its stdout and stderr as well.
CommandEnds(r) ==
  /\ command[r] = "running"
  /\ command' = [command EXCEPT ![r] = "ended"]
  /\ result' \in {[result EXCEPT ![r] = x] : x \in Results}
  /\ UNCHANGED <<guest, wires, restarts, thread, out, history>>

Output(size, type) == IF size = "none" THEN <<>>
                      ELSE IF size = "huge" THEN <<Frame("huge")>>
                      ELSE <<Frame(type)>>

\* What is told of a command that has ended.
Captured(x) == Output(x.out, "stdout") \o Output(x.err, "stderr")
               \o <<Done(x.code)>>

\* Mutated: the exit code is sent before what was captured.
CollectCodeFirst(r) ==
  /\ thread[r] = "outside" /\ command[r] = "ended"
  /\ Reply(r, <<Done(result[r].code)>> \o Output(result[r].out, "stdout")
              \o Output(result[r].err, "stderr"))
  /\ UNCHANGED <<guest, wires, restarts, command, result, history>>

\* wait_with_output returns.
Collect(r) ==
  /\ thread[r] = "outside" /\ command[r] = "ended"
  /\ Reply(r, Captured(result[r]))
  /\ UNCHANGED <<guest, wires, restarts, command, result, history>>

\* Mutated: nothing is replied when the notification cannot be shown.
ServedSilently(r) ==
  /\ thread[r] = "outside" /\ kind[r] # "exec"
  /\ \/ /\ kind[r] # "get"
        /\ thread' = [thread EXCEPT ![r] = "reading"]
        /\ UNCHANGED out
     \/ kind[r] \in {"tell", "get"} /\ Close(r)
     \/ kind[r] \in {"get", "ask"} /\ Reply(r, <<Frame("reply")>>)
  /\ UNCHANGED <<guest, wires, restarts, command, result, history>>

\* The clipboard handlers return the errors of their programs, which ends the
\* connection; handle_notify replies whatever happens.
Served(r) ==
  /\ thread[r] = "outside" /\ kind[r] # "exec"
  /\ \/ /\ kind[r] = "tell"
        /\ thread' = [thread EXCEPT ![r] = "reading"]
        /\ UNCHANGED out
     \/ kind[r] \in {"tell", "get"} /\ Close(r)
     \/ kind[r] \in {"get", "ask"} /\ Reply(r, <<Frame("reply")>>)
  /\ UNCHANGED <<guest, wires, restarts, command, result, history>>

\* write_frame; to a guest that has gone it fails.  When all is written the
\* thread reads on.
WriteReply(r) ==
  /\ thread[r] = "replying"
  /\ IF ~Holds(r)
       THEN Close(r) /\ UNCHANGED toGuest
       ELSE /\ toGuest' = [toGuest EXCEPT ![r] = Append(@, Head(out[r]))]
            /\ out' = [out EXCEPT ![r] = Tail(@)]
            /\ thread' = [thread EXCEPT ![r] =
                            IF Len(out[r]) = 1 THEN "reading" ELSE @]
  /\ UNCHANGED <<guest, toHost, pings, restarts, command, result, history>>

\* Mutated: a server that is stopped tells the callers of the commands that die
\* with it that these have failed.
RestartReports ==
  LET dying == {r \in Requests : command[r] = "running"} IN
  /\ restarts < MaxRestarts
  /\ restarts' = restarts + 1
  /\ thread' = [r \in Requests |-> IF r \in dying THEN "replying"
                                   ELSE IF r \in Serving THEN "closed" ELSE thread[r]]
  /\ out' = [r \in Requests |-> IF r \in dying THEN <<Frame("stderr"), Done(1)>> ELSE <<>>]
  /\ toHost' = toHost \ Serving
  /\ command' = [r \in Requests |-> IF r \in dying THEN "none" ELSE command[r]]
  /\ UNCHANGED <<guest, toGuest, pings, result, history>>

\* The service is stopped or dies, systemd kills what is left in its control
\* group and starts it again; the backlog is the socket unit's and stays.
Restart ==
  /\ restarts < MaxRestarts
  /\ restarts' = restarts + 1
  /\ thread' = [r \in Requests |-> IF r \in Serving THEN "closed" ELSE thread[r]]
  /\ out' = [r \in Requests |-> <<>>]
  /\ toHost' = toHost \ Serving
  /\ command' = [r \in Requests |-> IF command[r] = "running" THEN "none"
                                    ELSE command[r]]
  /\ UNCHANGED <<guest, toGuest, pings, result, history>>

-----------------------------------------------------------------------------
Interceptor(r) == Connect(r) \/ Send(r) \/ Receive(r) \/ Hangup(r)

Server(r) == Accept(r) \/ Eof(r) \/ Serve(r) \/ Refuse(r) \/ StartCommand(r)
             \/ Collect(r) \/ WriteReply(r)

Outside(r) == ConnectFails(r) \/ Kill(r) \/ Ping(r) \/ CommandEnds(r) \/ Served(r)

Next == Restart \/ \E r \in Requests : Interceptor(r) \/ Server(r) \/ Outside(r)

Spec == Init /\ [][Next]_vars

\* The processes and threads that can go on do so.  No user has to answer a
\* notification, no command and no program on the host has to end.
Fairness ==
  \A r \in Requests : /\ WF_vars(Send(r) \/ Receive(r) \/ Hangup(r))
                      /\ WF_vars(Server(r))

FairSpec == Spec /\ Fairness

-----------------------------------------------------------------------------
(* Properties.                                                             *)

\* A host-exec that was told HostExecDone has printed all that its command
\* wrote, stdout before stderr and neither of them twice, and exits with its
\* code: whatever the pings, the restarts and the other connections were.
DoneTellsAll ==
  \A r \in heardDone :
    IF command[r] = "ended"
      THEN /\ exit[r] = result[r].code
           /\ printed[r] = (IF result[r].out = "none" THEN <<>> ELSE <<"stdout">>)
                           \o (IF result[r].err = "none" THEN <<>> ELSE <<"stderr">>)
      ELSE exit[r] = 1 /\ printed[r] = <<"stderr">>

\* The command of a call is started at most once, though connections are
\* dropped, lost in restarts and served when their caller has long gone.
RunsAtMostOnce == \A r \in Requests : runs[r] <= 1

\* A call is that of a RemoteCommand: a served host-exec was refused if nothing
\* was run for it, and its command is dead if it was run, is not there and has not
\* ended.  Hence no restart, ping, kill or drop lets a caller take a command that
\* died, or is still running, for one that was refused or has ended.
CommandState(r) ==
  IF kind[r] # "exec" \/ r \notin served THEN "asked"
  ELSE IF command[r] # "none" THEN command[r]
  ELSE IF runs[r] = 0 THEN "refused" ELSE "killed"

\* What its caller knows when it has been told.
Known(r) == IF r \in heardDone THEN [code |-> exit[r], shown |-> printed[r]]
                               ELSE [code |-> 0, shown |-> <<>>]

Remote == INSTANCE RemoteCommand
          WITH Calls  <- Requests,
               state  <- [r \in Requests |-> CommandState(r)],
               left   <- result,
               told   <- heardDone,
               answer <- [r \in Requests |-> Known(r)]
ImplementsRemoteCommand == Remote!Spec

\* An interceptor waits for its own command, notification or program only:
\* no other loss, drop, restart or error leaves it waiting.
WaitsForItsOwn ==
  \A r \in Requests : <>[](call[r] = "waiting") => <>[](thread[r] = "outside")

\* A connection whose guest has gone gives its place among the MAX_CONCURRENT
\* back, unless the command, notification or program begun for it goes on.
PlacesComeBack ==
  \A r \in Requests :
    <>[](call[r] = "over") => <>[](thread[r] \in {"none", "closed", "outside"})

\* A request that reached a thread is acted upon although its sender, as
\* xdg-open and clipboard set do, has exited before the server read it.
AcceptedIsServed ==
  \A r \in Requests : \A n \in 0..MaxRestarts :
    (r \in toHost /\ thread[r] = "reading" /\ restarts = n)
      ~> (r \in served \/ restarts > n)

-----------------------------------------------------------------------------
(* What the documentation says and the program does not do.                *)

\* The guest guide says that host-exec "exits with the remote exit code": a
\* command that has ended, on a connection that nobody broke, gives its code.
ExitsWithRemoteCode ==
  \A r \in Requests :
    (command[r] = "ended" /\ call[r] = "over" /\ exit[r] # Killed /\ restarts = 0)
      => exit[r] = result[r].code
=============================================================================
