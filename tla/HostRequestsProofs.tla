------------------------- MODULE HostRequestsProofs -------------------------
(***************************************************************************)
(* Proofs about HostRequests for any number of calls, restarts and pings,  *)
(* any limit on threads and whatever commands leave behind; and about the  *)
(* frames below its connections and the guest's, Framing, for any lengths, *)
(* any number of writers and any messages of theirs.                       *)
(***************************************************************************)
EXTENDS HostRequests, Framing, SequenceTheorems, TLAPS

\* The frames the server writes are frames.
LEMMA FrameTypes ==
  /\ \A t \in FrameType : Frame(t) \in Frames
  /\ \A c \in Nat : Done(c) \in Frames
  BY DEF Frame, Done, Frames, FrameType

\* What is captured of a command is written in at most one frame a stream.
LEMMA OutputType ==
  ASSUME NEW size \in Size, NEW t \in {"stdout", "stderr"}
  PROVE  Output(size, t) \in Seq(Frames)
<1>1. Frame("huge") \in Frames /\ Frame(t) \in Frames
  BY FrameTypes DEF FrameType
<1> QED
  BY <1>1 DEF Output, Size

\* A thread that has collected its command has frames to write.
LEMMA CollectType ==
  ASSUME NEW x \in Result
  PROVE  Captured(x) \in Seq(Frames) \ {<<>>}
<1>1. x.out \in Size /\ x.err \in Size /\ x.code \in Nat
  BY DEF Result
<1>2. /\ Output(x.out, "stdout") \in Seq(Frames)
      /\ Output(x.err, "stderr") \in Seq(Frames)
  BY <1>1, OutputType
<1>3. <<Done(x.code)>> \in Seq(Frames)
  BY <1>1, FrameTypes
<1>4. <<Done(x.code)>> # <<>>
  OBVIOUS
<1> QED
  BY <1>2, <1>3, <1>4, ConcatProperties, ConcatEqualIffEmpty DEF Captured

\* After any but its last frame a thread has another to write.
LEMMA MoreToWrite ==
  ASSUME NEW s \in Seq(Frames), s # <<>>, Len(s) # 1
  PROVE  Tail(s) # <<>>
<1>1. Len(s) \in Nat \ {0} /\ Len(Tail(s)) = Len(s) - 1
  BY EmptySeq, HeadTailProperties
<1>2. Len(Tail(s)) # 0
  BY <1>1
<1>3. \A t : t = <<>> => Len(t) = 0
  BY EmptySeq
<1> QED
  BY <1>2, <1>3

-----------------------------------------------------------------------------
\* The state the server and the interceptors begin in is well typed.
LEMMA InitType == Init => TypeOK
<1> SUFFICES ASSUME Init PROVE TypeOK
  OBVIOUS
<1>1. result \in [Requests -> Result]
  BY DEF Init, NoResult, Result, Size
<1> QED
  BY <1>1, BoundsAssumption DEF Init, TypeOK, Call, Thread, NoExit

\* The end of a process keeps the types.
LEMMA ExitsType ==
  ASSUME TypeOK, NEW r \in Requests, NEW c \in Int, Exits(r, c)
  PROVE  /\ call' \in [Requests -> Call] /\ exit' \in [Requests -> Int]
         /\ toGuest' \in [Requests -> Seq(Frames)]
<1>1. <<>> \in Seq(Frames)
  OBVIOUS
<1> QED
  BY <1>1 DEF TypeOK, Exits, Call

\* So do the steps of an interceptor ...
LEMMA GuestType ==
  ASSUME TypeOK, NEW r \in Requests,
         Interceptor(r) \/ ConnectFails(r) \/ Kill(r)
  PROVE  TypeOK'
<1>1. CASE Connect(r)
  BY <1>1 DEF Connect, TypeOK, Call, Thread, wires, history
<1>2. CASE ConnectFails(r)
  <2>1. PICK c \in {0, 1} :
          Exits(r, c) /\ UNCHANGED <<kind, printed, toHost, pings, host, history>>
    BY <1>2 DEF ConnectFails
  <2> QED
    BY <2>1, ExitsType DEF TypeOK, host, history
<1>3. CASE Send(r)
  <2>1. CASE thread[r] = "closed"
    <3>1. PICK c \in {0, Panic} :
            Exits(r, c)
            /\ UNCHANGED <<kind, printed, toHost, pings, host, history>>
      BY <1>3, <2>1 DEF Send
    <3>2. c \in Int
      BY DEF Panic
    <3>3. /\ call' \in [Requests -> Call] /\ exit' \in [Requests -> Int]
          /\ toGuest' \in [Requests -> Seq(Frames)]
      BY <3>1, <3>2, ExitsType
    <3> QED
      BY <3>1, <3>3 DEF TypeOK, host, history
  <2>2. CASE thread[r] # "closed" /\ kind[r] = "tell"
    <3>1. /\ Exits(r, 0) /\ toHost' = toHost \cup {r}
          /\ UNCHANGED <<kind, printed, pings, host, history>>
      BY <1>3, <2>2 DEF Send
    <3> QED
      BY <3>1, ExitsType DEF TypeOK, host, history
  <2>3. CASE thread[r] # "closed" /\ kind[r] # "tell"
    BY <1>3, <2>3 DEF Send, TypeOK, host, history, Call
  <2> QED
    BY <2>1, <2>2, <2>3
<1>4. CASE Receive(r)
  <2>1. toGuest[r] \in Seq(Frames) /\ toGuest[r] # <<>>
    BY <1>4 DEF Receive, TypeOK
  <2>2. Head(toGuest[r]) \in Frames /\ Tail(toGuest[r]) \in Seq(Frames)
    BY <2>1, HeadTailProperties
  <2>3. CASE kind[r] = "exec" /\ Head(toGuest[r]).type \in {"stdout", "stderr"}
    <3>1. Append(printed[r], Head(toGuest[r]).type) \in Seq({"stdout", "stderr"})
      BY <2>3, AppendProperties DEF TypeOK
    <3> QED
      BY <1>4, <2>2, <2>3, <3>1 DEF Receive, TypeOK, host
  <2>4. CASE ~(kind[r] = "exec" /\ Head(toGuest[r]).type \in {"stdout", "stderr"})
    <3>1. Exits(r, Head(toGuest[r]).code) /\ Head(toGuest[r]).code \in Int
      BY <1>4, <2>2, <2>4 DEF Receive, Frames
    <3> QED
      BY <1>4, <2>4, <3>1, ExitsType DEF Receive, TypeOK, host
  <2> QED
    BY <2>3, <2>4
<1>5. CASE Hangup(r)
  <2>1. Exits(r, 0) /\ UNCHANGED <<kind, printed, toHost, pings, host, history>>
    BY <1>5 DEF Hangup
  <2>2. /\ call' \in [Requests -> Call] /\ exit' \in [Requests -> Int]
        /\ toGuest' \in [Requests -> Seq(Frames)]
    BY <2>1, ExitsType
  <2> QED
    BY <2>1, <2>2 DEF TypeOK, host, history
<1>6. CASE Kill(r)
  <2>1. Exits(r, Killed) /\ Killed \in Int
        /\ UNCHANGED <<kind, printed, toHost, pings, host, history>>
    BY <1>6 DEF Kill, Killed
  <2>2. /\ call' \in [Requests -> Call] /\ exit' \in [Requests -> Int]
        /\ toGuest' \in [Requests -> Seq(Frames)]
    BY <2>1, ExitsType
  <2> QED
    BY <2>1, <2>2 DEF TypeOK, host, history
<1> QED
  BY <1>1, <1>2, <1>3, <1>4, <1>5, <1>6 DEF Interceptor

\* ... and those of the server and of the host around it.
LEMMA HostType ==
  ASSUME TypeOK, NEW r \in Requests,
         Server(r) \/ Ping(r) \/ CommandEnds(r) \/ Served(r)
  PROVE  TypeOK'
<1> USE DEF TypeOK, Thread, guest, wires, history
<1>0. <<>> \in Seq(Frames)
  OBVIOUS
<1>1. CASE Accept(r)
  BY <1>0, <1>1 DEF Accept, Close
<1>2. CASE Eof(r)
  BY <1>0, <1>2 DEF Eof, Close
<1>3. CASE Ping(r)
  <2>1. Append(toGuest[r], Frame("ping")) \in Seq(Frames)
    BY FrameTypes, AppendProperties DEF FrameType
  <2>2. pings[r] + 1 \in 0..MaxPings
    BY <1>3, BoundsAssumption DEF Ping
  <2> QED
    BY <1>3, <2>1, <2>2 DEF Ping, host
<1>4. CASE Serve(r)
  BY <1>4 DEF Serve, ReadRequest
<1>5. CASE Refuse(r)
  <2>1. <<Frame("stderr"), Done(1)>> \in Seq(Frames)
    BY FrameTypes DEF FrameType
  <2> QED
    BY <1>5, <2>1 DEF Refuse, ReadRequest, Reply
<1>6. CASE StartCommand(r)
  BY <1>6 DEF StartCommand, ReadRequest
<1>7. CASE CommandEnds(r)
  <2>1. PICK x \in Results : result' = [result EXCEPT ![r] = x]
    BY <1>7 DEF CommandEnds
  <2>2. x \in Result
    BY <2>1, RequestsAssumption
  <2> QED
    BY <1>7, <2>1, <2>2 DEF CommandEnds
<1>8. CASE Collect(r)
  <2>1. result[r] \in Result
    OBVIOUS
  <2>2. Captured(result[r]) \in Seq(Frames) \ {<<>>}
    BY <2>1, CollectType
  <2> QED
    BY <1>8, <2>2 DEF Collect, Reply
<1>9. CASE Served(r)
  <2>1. <<Frame("reply")>> \in Seq(Frames) \ {<<>>}
    BY FrameTypes DEF FrameType
  <2>2. CASE Reply(r, <<Frame("reply")>>)
    BY <1>9, <2>1, <2>2 DEF Served, Reply
  <2>3. CASE Close(r)
    BY <1>0, <1>9, <2>3 DEF Served, Close
  <2>4. CASE thread' = [thread EXCEPT ![r] = "reading"] /\ UNCHANGED out
    BY <1>9, <2>4 DEF Served
  <2> QED
    BY <1>9, <2>2, <2>3, <2>4 DEF Served
<1>10. CASE WriteReply(r)
  <2>1. CASE ~Holds(r)
    BY <1>0, <1>10, <2>1 DEF WriteReply, Close
  <2>2. CASE Holds(r) /\ out[r] # <<>>
    <3>1. Head(out[r]) \in Frames /\ Tail(out[r]) \in Seq(Frames)
      BY <2>2, HeadTailProperties
    <3>2. Append(toGuest[r], Head(out[r])) \in Seq(Frames)
      BY <3>1, AppendProperties
    <3>3. Len(out[r]) # 1 => Tail(out[r]) # <<>>
      BY <2>2, MoreToWrite
    <3>4. /\ toGuest' = [toGuest EXCEPT ![r] = Append(@, Head(out[r]))]
          /\ out' = [out EXCEPT ![r] = Tail(@)]
          /\ thread' = [thread EXCEPT ![r] =
                          IF Len(out[r]) = 1 THEN "reading" ELSE @]
          /\ UNCHANGED <<guest, toHost, pings, restarts, command, result, history>>
      BY <1>10, <2>2 DEF WriteReply
    <3> QED
      BY <3>1, <3>2, <3>3, <3>4
  <2> QED
    BY <1>10, <2>1, <2>2 DEF WriteReply
<1> QED
  BY <1>1, <1>2, <1>3, <1>4, <1>5, <1>6, <1>7, <1>8, <1>9, <1>10 DEF Server

\* A restart takes threads, commands and what they held, and no types.
LEMMA RestartType == ASSUME TypeOK, Restart PROVE TypeOK'
<1>1. <<>> \in Seq(Frames)
  OBVIOUS
<1>2. restarts' \in 0..MaxRestarts
  BY BoundsAssumption DEF Restart, TypeOK
<1>3. \A r \in Requests : thread'[r] # "replying"
  BY DEF Restart, Serving
<1> QED
  BY <1>1, <1>2, <1>3 DEF Restart, TypeOK, Thread, guest, history

\* Every step keeps the types.
LEMMA TypeStep == TypeOK /\ [Next]_vars => TypeOK'
<1> SUFFICES ASSUME TypeOK, [Next]_vars PROVE TypeOK'
  OBVIOUS
<1>1. CASE Restart
  BY <1>1, RestartType
<1>2. CASE \E r \in Requests : Interceptor(r) \/ Server(r) \/ Outside(r)
  BY <1>2, GuestType, HostType DEF Outside
<1>3. CASE UNCHANGED vars
  BY <1>3 DEF vars, guest, wires, host, history, TypeOK
<1> QED
  BY <1>1, <1>2, <1>3 DEF Next

\* Types, for whatever requests, results, limits and bounds.
THEOREM TypeCorrect == Spec => []TypeOK
<1> QED
  BY InitType, TypeStep, PTL DEF Spec

-----------------------------------------------------------------------------
(* At most once.                                                           *)

\* A request is unread, then served, and never unread again.
Once ==
  \A r \in Requests :
    /\ call[r] = "new" => thread[r] = "none"
    /\ call[r] \in {"new", "connected"} => r \notin toHost \cup served
    /\ r \in toHost \/ thread[r] \in {"none", "queued"} => r \notin served
    /\ r \notin served => /\ runs[r] = 0 /\ command[r] = "none"
                         /\ thread[r] \notin {"outside", "replying"}
    /\ command[r] = "running" => thread[r] = "outside" /\ kind[r] = "exec"
    /\ runs[r] <= 1

\* In the beginning no command has been started.
LEMMA OnceInit == Init => Once
  BY DEF Init, Once

\* Only StartCommand counts a run, of a request that was not yet served.
LEMMA OnceStep == TypeOK /\ Once /\ [Next]_vars => Once'
<1> SUFFICES ASSUME TypeOK, Once, [Next]_vars PROVE Once'
  OBVIOUS
<1> USE DEF Once, TypeOK, guest, wires, host, history
<1>1. CASE Restart
  BY <1>1 DEF Restart, Serving
<1>2. ASSUME NEW r \in Requests, Interceptor(r) \/ ConnectFails(r) \/ Kill(r)
      PROVE  Once'
  BY <1>2 DEF Interceptor, Connect, ConnectFails, Send, Receive, Hangup, Kill,
              Exits, Holds
<1>3. ASSUME NEW r \in Requests, Server(r) PROVE Once'
  <2>1. CASE Accept(r) \/ Eof(r)
    BY <2>1 DEF Accept, Eof, Close
  <2>2. CASE Serve(r) \/ Refuse(r) \/ StartCommand(r)
    BY <2>2 DEF Serve, Refuse, StartCommand, ReadRequest, Reply
  <2>3. CASE Collect(r) \/ WriteReply(r)
    BY <2>3 DEF Collect, WriteReply, Close, Reply
  <2> QED
    BY <1>3, <2>1, <2>2, <2>3 DEF Server
<1>4. ASSUME NEW r \in Requests, Ping(r) \/ CommandEnds(r) \/ Served(r)
      PROVE  Once'
  BY <1>4 DEF Ping, CommandEnds, Served, Close, Reply
<1>5. CASE UNCHANGED vars
  BY <1>5 DEF vars
<1> QED
  BY <1>1, <1>2, <1>3, <1>4, <1>5 DEF Next, Outside

\* No drop, loss, restart or late service starts a command a second time.
THEOREM OnceCorrect == Spec => []RunsAtMostOnce
<1>1. Once => RunsAtMostOnce
  BY DEF Once, RunsAtMostOnce
<1> QED
  BY <1>1, OnceInit, OnceStep, TypeCorrect, PTL DEF Spec

-----------------------------------------------------------------------------
(* What host-exec is told.                                                 *)

\* What the server has to tell of the command of r.
Told(r) == IF command[r] = "ended" THEN Captured(result[r])
                                   ELSE <<Frame("stderr"), Done(1)>>

\* What was printed, what is on the wire, and what is yet to be written are
\* Told(r), in this order; pings may follow on the wire.
Progress(r) ==
  LET n == Len(printed[r])
      g == Len(toGuest[r])
  IN /\ \A i \in 1..n : i < Len(Told(r)) /\ Told(r)[i].type = printed[r][i]
     /\ \A i \in 1..g : IF n + i <= Len(Told(r)) THEN toGuest[r][i] = Told(r)[n + i]
                                                 ELSE toGuest[r][i].type = "ping"
     /\ thread[r] = "replying" =>
          /\ n + g + Len(out[r]) = Len(Told(r))
          /\ \A i \in 1..Len(out[r]) : out[r][i] = Told(r)[n + g + i]
     /\ thread[r] = "reading" => n + g >= Len(Told(r))

\* A ping comes first, and will be the end of it; ...
Pinged(r) == toGuest[r] # <<>> /\ Head(toGuest[r]).type = "ping"

\* ... or nothing was told yet, ...
Untold(r) == /\ printed[r] = <<>> /\ toGuest[r] = <<>>
             /\ thread[r] # "replying"
             /\ r \in served => thread[r] # "reading"

\* ... or a part of it.
Telling(r) == r \in served /\ thread[r] # "outside" /\ Progress(r)

StreamOf(r) ==
  kind[r] = "exec" /\ call[r] # "over" => Pinged(r) \/ Untold(r) \/ Telling(r)

Stream == \A r \in Requests : StreamOf(r)

\* Once told, the command is history.
Heard == \A r \in heardDone : /\ call[r] = "over" /\ r \in served
                              /\ command[r] # "running"

\* The frames told of a command: at most one of each stream, then its code.
LEMMA CapturedShape ==
  ASSUME NEW x \in Result
  PROVE  LET a == Output(x.out, "stdout")
             b == Output(x.err, "stderr")
             t == Captured(x)
         IN /\ t \in Seq(Frames) /\ a \in Seq(Frames) /\ b \in Seq(Frames)
            /\ Len(t) = Len(a) + Len(b) + 1
            /\ \A i \in 1..Len(a) : t[i] = a[i]
            /\ \A i \in 1..Len(b) : t[Len(a) + i] = b[i]
            /\ t[Len(t)] = Done(x.code)
<1> DEFINE a == Output(x.out, "stdout")
           b == Output(x.err, "stderr")
           d == <<Done(x.code)>>
<1>1. x.out \in Size /\ x.err \in Size /\ x.code \in Nat
  BY DEF Result
<1>2. a \in Seq(Frames) /\ b \in Seq(Frames)
  BY <1>1, OutputType
<1>3. d \in Seq(Frames) /\ Len(d) = 1 /\ d[1] = Done(x.code)
  BY <1>1, FrameTypes
<1>4. Len(a) \in Nat /\ Len(b) \in Nat
  BY <1>2
<1> HIDE DEF a, b, d
<1>5. /\ a \o b \in Seq(Frames) /\ Len(a \o b) = Len(a) + Len(b)
      /\ \A i \in 1..(Len(a) + Len(b)) :
           (a \o b)[i] = IF i <= Len(a) THEN a[i] ELSE b[i - Len(a)]
  BY <1>2, ConcatProperties
<1>6. /\ (a \o b) \o d \in Seq(Frames)
      /\ Len((a \o b) \o d) = Len(a \o b) + Len(d)
      /\ \A i \in 1..(Len(a \o b) + Len(d)) :
           ((a \o b) \o d)[i] = IF i <= Len(a \o b) THEN (a \o b)[i]
                                                  ELSE d[i - Len(a \o b)]
  <2> DEFINE c == a \o b
  <2>1. c \in Seq(Frames)
    BY <1>5
  <2> HIDE DEF c
  <2>2. /\ c \o d \in Seq(Frames) /\ Len(c \o d) = Len(c) + Len(d)
        /\ \A i \in 1..(Len(c) + Len(d)) :
             (c \o d)[i] = IF i <= Len(c) THEN c[i] ELSE d[i - Len(c)]
    BY <1>3, <2>1, ConcatProperties
  <2> QED
    BY <2>2 DEF c
<1>7. Captured(x) = (a \o b) \o d
  BY DEF Captured, a, b, d
<1>8. /\ \A i \in 1..Len(a) : ((a \o b) \o d)[i] = a[i]
      /\ \A i \in 1..Len(b) : ((a \o b) \o d)[Len(a) + i] = b[i]
      /\ ((a \o b) \o d)[Len(a) + Len(b) + 1] = Done(x.code)
  BY <1>3, <1>4, <1>5, <1>6
<1> QED
  BY <1>2, <1>3, <1>5, <1>6, <1>7, <1>8 DEF a, b

\* Of a stream at most one frame, of its type or huge.
LEMMA OutputShape ==
  ASSUME NEW size \in Size, NEW t \in {"stdout", "stderr"}
  PROVE  LET a == Output(size, t)
         IN /\ Len(a) = (IF size = "none" THEN 0 ELSE 1)
            /\ size = "huge" => a[1].type = "huge"
            /\ size = "some" => a[1].type = t
  BY DEF Output, Size, Frame

\* Only the last frame told is HostExecDone.
LEMMA ToldShape ==
  ASSUME TypeOK, NEW r \in Requests
  PROVE  /\ Told(r) \in Seq(Frames) /\ Len(Told(r)) \in 1..3
         /\ \A i \in 1..Len(Told(r)) : Told(r)[i].type = "done" => i = Len(Told(r))
<1>1. CASE command[r] = "ended"
  <2> DEFINE x == result[r]
             a == Output(x.out, "stdout")
             b == Output(x.err, "stderr")
             t == Captured(x)
  <2>1. x \in Result /\ x.out \in Size /\ x.err \in Size
    BY DEF TypeOK, Result
  <2>2. /\ t \in Seq(Frames) /\ Len(t) = Len(a) + Len(b) + 1
        /\ \A i \in 1..Len(a) : t[i] = a[i]
        /\ \A i \in 1..Len(b) : t[Len(a) + i] = b[i]
    BY <2>1, CapturedShape
  <2>3. Len(a) \in {0, 1} /\ (Len(a) = 1 => a[1].type \in {"huge", "stdout"})
    BY <2>1, OutputShape DEF Size
  <2>4. Len(b) \in {0, 1} /\ (Len(b) = 1 => b[1].type \in {"huge", "stderr"})
    BY <2>1, OutputShape DEF Size
  <2>5. Told(r) = t
    BY <1>1 DEF Told
  <2> HIDE DEF a, b, t
  <2>6. Len(t) \in 1..3
    BY <2>2, <2>3, <2>4
  <2>7. ASSUME NEW i \in 1..Len(t), i # Len(t) PROVE t[i].type # "done"
    <3>1. i \in 1..Len(a) \/ i - Len(a) \in 1..Len(b)
      BY <2>2, <2>3, <2>4, <2>7
    <3>2. CASE i \in 1..Len(a)
      BY <2>2, <2>3, <3>2
    <3>3. CASE i - Len(a) \in 1..Len(b)
      <4>1. i = Len(a) + (i - Len(a)) /\ i - Len(a) = 1 /\ Len(b) = 1
        <5>1. i \in Int /\ Len(a) \in Int
          BY <2>3, <2>6
        <5>2. CASE Len(b) = 0
          BY <3>3, <5>1, <5>2
        <5>3. CASE Len(b) = 1
          BY <3>3, <5>1, <5>3
        <5> QED
          BY <2>4, <5>2, <5>3
      <4> QED
        BY <2>2, <2>4, <4>1
    <3> QED
      BY <3>1, <3>2, <3>3
  <2> QED
    BY <2>2, <2>5, <2>6, <2>7
<1>2. CASE command[r] # "ended"
  <2>1. Told(r) = <<Frame("stderr"), Done(1)>>
    BY <1>2 DEF Told
  <2>2. Frame("stderr").type = "stderr" /\ Frame("stderr") \in Frames /\ Done(1) \in Frames
    BY FrameTypes DEF Frame, FrameType
  <2> QED
    BY <2>1, <2>2
<1> QED
  BY <1>1, <1>2

\* The last frame told is HostExecDone.
LEMMA ToldEnd ==
  ASSUME TypeOK, NEW r \in Requests
  PROVE  Told(r)[Len(Told(r))] = Done(IF command[r] = "ended" THEN result[r].code ELSE 1)
<1>1. CASE command[r] = "ended"
  BY <1>1, CapturedShape DEF Told, TypeOK
<1>2. CASE command[r] # "ended"
  BY <1>2 DEF Told
<1> QED
  BY <1>1, <1>2

\* Nothing has been told in the beginning.
LEMMA StreamInit == Init => Stream /\ Heard
  BY DEF Init, Stream, StreamOf, Untold, Heard

\* What others do is nothing to r.
Undisturbed(r) ==
  /\ kind[r] = kind'[r] /\ call[r] = call'[r] /\ printed[r] = printed'[r]
  /\ toGuest[r] = toGuest'[r] /\ thread[r] = thread'[r] /\ out[r] = out'[r]
  /\ command[r] = command'[r] /\ result[r] = result'[r]
  /\ (r \in served) = (r \in served')

\* What a call was told depends on its own frames, thread and command only.
LEMMA UndisturbedStream ==
  ASSUME NEW r \in Requests, StreamOf(r), Undisturbed(r)
  PROVE  StreamOf(r)'
  BY DEF Undisturbed, StreamOf, Pinged, Untold, Telling, Progress, Told

\* A step of one call leaves what the others were told alone.
LEMMA OthersUndisturbed ==
  ASSUME TypeOK, NEW q \in Requests, NEW r \in Requests, r # q,
         Interceptor(q) \/ Server(q) \/ Outside(q)
  PROVE  Undisturbed(r)
<1> USE DEF Undisturbed, TypeOK, guest, wires, host, history
<1>1. CASE Interceptor(q) \/ ConnectFails(q) \/ Kill(q)
  BY <1>1 DEF Interceptor, Connect, ConnectFails, Send, Receive, Hangup, Kill,
              Exits
<1>2. CASE Server(q)
  <2>1. CASE Accept(q) \/ Eof(q)
    BY <2>1 DEF Accept, Eof, Close
  <2>2. CASE Serve(q) \/ Refuse(q) \/ StartCommand(q)
    BY <2>2 DEF Serve, Refuse, StartCommand, ReadRequest, Reply
  <2>3. CASE Collect(q) \/ WriteReply(q)
    BY <2>3 DEF Collect, WriteReply, Close, Reply
  <2> QED
    BY <1>2, <2>1, <2>2, <2>3 DEF Server
<1>3. CASE Ping(q)
  BY <1>3 DEF Ping
<1>4. CASE CommandEnds(q)
  BY <1>4 DEF CommandEnds
<1>5. CASE Served(q)
  BY <1>5 DEF Served, Close, Reply
<1> QED
  BY <1>1, <1>2, <1>3, <1>4, <1>5 DEF Outside

\* Steps of a call that touch neither what it was told nor its thread's reply.
LEMMA QuietStream ==
  ASSUME TypeOK, Once, NEW r \in Requests, StreamOf(r),
         \/ Connect(r) \/ ConnectFails(r) \/ Send(r) \/ Hangup(r) \/ Kill(r)
         \/ Accept(r) \/ Eof(r) \/ Serve(r) \/ StartCommand(r)
         \/ CommandEnds(r) \/ Served(r)
  PROVE  StreamOf(r)'
<1> USE DEF TypeOK, guest, wires, host, history
<1>1. CASE ConnectFails(r) \/ Hangup(r) \/ Kill(r)
  BY <1>1 DEF ConnectFails, Hangup, Kill, Exits, StreamOf
<1>2. CASE Connect(r)
  BY <1>2 DEF Connect, StreamOf, Once, Pinged, Untold, Telling
<1>3. CASE Send(r)
  <2>1. CASE call'[r] = "over"
    BY <2>1 DEF StreamOf
  <2>2. CASE call'[r] # "over"
    <3>1. /\ call[r] # "over"
          /\ UNCHANGED <<kind, printed, toGuest, thread, out, command, result, served>>
      BY <1>3, <2>2 DEF Send, Exits
    <3> QED
      BY <3>1 DEF StreamOf, Pinged, Untold, Telling, Progress, Told
  <2> QED
    BY <2>1, <2>2
<1>4. CASE Accept(r)
  BY <1>4 DEF Accept, Close, StreamOf, Once, Pinged, Untold, Telling
<1>5. CASE Eof(r)
  BY <1>5 DEF Eof, Holds, Close, StreamOf, Once, Call, Pinged, Untold, Telling
<1>6. CASE Serve(r) \/ Served(r)
  BY <1>6 DEF Serve, ReadRequest, Served, StreamOf
<1>7. CASE StartCommand(r)
  BY <1>7 DEF StartCommand, ReadRequest, StreamOf, Once, Pinged, Untold, Telling
<1>8. CASE CommandEnds(r)
  BY <1>8 DEF CommandEnds, StreamOf, Once, Pinged, Untold, Telling
<1> QED
  BY <1>1, <1>2, <1>3, <1>4, <1>5, <1>6, <1>7, <1>8

\* A ping is written behind all that was told.
LEMMA PingStream ==
  ASSUME TypeOK, NEW r \in Requests, StreamOf(r), Ping(r)
  PROVE  StreamOf(r)'
<1> DEFINE p == Frame("ping")
           w == toGuest[r]
<1>1. /\ thread[r] = "reading" /\ toGuest' = [toGuest EXCEPT ![r] = Append(w, p)]
      /\ UNCHANGED <<kind, call, printed, thread, out, command, result, served>>
  BY DEF Ping, guest, host, history
<1>2. w \in Seq(Frames) /\ p \in Frames /\ p.type = "ping" /\ printed[r] \in Seq({"stdout", "stderr"})
  BY FrameTypes DEF TypeOK, Frame, FrameType
<1>3. toGuest'[r] = Append(w, p)
  BY <1>1 DEF TypeOK
<1> HIDE DEF p, w
<1>4. /\ Append(w, p) # <<>> /\ Len(Append(w, p)) = Len(w) + 1
      /\ \A i \in 1..Len(w) : Append(w, p)[i] = w[i]
      /\ Append(w, p)[Len(w) + 1] = p
      /\ Head(Append(w, p)) = IF w = <<>> THEN p ELSE Head(w)
  BY <1>2, AppendProperties, HeadTailAppend
<1>5. CASE Pinged(r) \/ Untold(r)
  <2>1. Pinged(r)'
    BY <1>2, <1>3, <1>4, <1>5 DEF Pinged, Untold, w
  <2> QED
    BY <2>1 DEF StreamOf
<1>6. CASE Telling(r)
  <2> DEFINE n == Len(printed[r])
             t == Told(r)
  <2>1. UNCHANGED <<Told(r), printed[r], thread[r], r \in served>>
    BY <1>1 DEF Told
  <2>2. n \in Nat /\ Len(w) \in Nat /\ Len(t) \in Nat
    BY <1>2, ToldShape
  <2>3. /\ \A i \in 1..n : i < Len(t) /\ t[i].type = printed[r][i]
        /\ \A i \in 1..Len(w) : IF n + i <= Len(t) THEN w[i] = t[n + i]
                                                 ELSE w[i].type = "ping"
        /\ n + Len(w) >= Len(t)
    BY <1>1, <1>6 DEF Telling, Progress, w
  <2> HIDE DEF n, t
  <2>4. \A i \in 1..(Len(w) + 1) : IF n + i <= Len(t) THEN Append(w, p)[i] = t[n + i]
                                                  ELSE Append(w, p)[i].type = "ping"
    <3> TAKE i \in 1..(Len(w) + 1)
    <3>1. CASE i \in 1..Len(w)
      BY <1>4, <2>3, <3>1
    <3>2. CASE i = Len(w) + 1
      <4>1. Append(w, p)[i].type = "ping" /\ ~(n + i <= Len(t))
        BY <1>2, <1>4, <2>2, <2>3, <3>2
      <4> QED
        BY <4>1
    <3> QED
      BY <2>2, <3>1, <3>2
  <2>5. n + (Len(w) + 1) >= Len(t)
    BY <2>2, <2>3
  <2>6. Telling(r)'
    BY <1>1, <1>3, <1>4, <1>6, <2>1, <2>3, <2>4, <2>5 DEF Telling, Progress, n, t
  <2> QED
    BY <2>6 DEF StreamOf
<1>7. CASE ~(kind[r] = "exec" /\ call[r] # "over")
  BY <1>1, <1>7 DEF StreamOf
<1> QED
  BY <1>5, <1>6, <1>7 DEF StreamOf

\* A thread that has something to tell begins with the first frame of it.
LEMMA ReplyStream ==
  ASSUME TypeOK, Once, NEW r \in Requests, StreamOf(r), Refuse(r) \/ Collect(r)
  PROVE  StreamOf(r)'
<1>1. /\ thread' = [thread EXCEPT ![r] = "replying"]
      /\ UNCHANGED <<kind, call, printed, toGuest, command, result>>
      /\ r \in served' /\ (r \in toHost \/ thread[r] = "outside")
      /\ out'[r] = Told(r) /\ thread'[r] = "replying"
  <2>1. CASE Refuse(r)
    BY <2>1 DEF Refuse, ReadRequest, Reply, Told, Once, TypeOK, guest
  <2>2. CASE Collect(r)
    BY <2>2 DEF Collect, Reply, Told, Once, TypeOK, guest, wires, history
  <2> QED
    BY <2>1, <2>2
<1>2. Told(r)' = Told(r)
  BY <1>1 DEF Told
<1>3. CASE Pinged(r)
  BY <1>1, <1>3 DEF Pinged, StreamOf
<1>4. CASE Untold(r)
  <2>1. printed'[r] = <<>> /\ toGuest'[r] = <<>>
    BY <1>1, <1>4 DEF Untold
  <2>2. Len(Told(r)) \in Nat
    BY ToldShape
  <2>3. Progress(r)'
    BY <1>1, <1>2, <2>1, <2>2 DEF Progress
  <2> QED
    BY <1>1, <2>3 DEF Telling, StreamOf
<1>5. CASE Telling(r)
  BY <1>1, <1>5 DEF Telling, Once
<1> QED
  BY <1>1, <1>3, <1>4, <1>5 DEF StreamOf

\* A frame written is the next one to be told.
LEMMA WriteStream ==
  ASSUME TypeOK, Once, NEW r \in Requests, StreamOf(r), WriteReply(r)
  PROVE  StreamOf(r)'
<1>1. CASE kind[r] # "exec" \/ call[r] = "over"
  BY <1>1 DEF WriteReply, guest, StreamOf
<1>2. CASE ~Holds(r) /\ call[r] # "over"
  \* A new call has no thread.
  BY <1>2 DEF Holds, TypeOK, Call, Once, WriteReply
<1>3. CASE Holds(r) /\ kind[r] = "exec" /\ call[r] # "over"
  <2> DEFINE w == toGuest[r]
             f == Head(out[r])
             o == out[r]
             n == Len(printed[r])
             t == Told(r)
  <2>1. /\ toGuest' = [toGuest EXCEPT ![r] = Append(w, f)]
        /\ out' = [out EXCEPT ![r] = Tail(o)]
        /\ thread' = [thread EXCEPT ![r] = IF Len(o) = 1 THEN "reading" ELSE @]
        /\ thread[r] = "replying"
        /\ UNCHANGED <<kind, call, printed, command, result, served>>
    BY <1>3 DEF WriteReply, guest, history
  <2>2. w \in Seq(Frames) /\ o \in Seq(Frames) /\ o # <<>>
    BY <2>1 DEF TypeOK
  <2>3. /\ toGuest'[r] = Append(w, f) /\ out'[r] = Tail(o)
        /\ thread'[r] = (IF Len(o) = 1 THEN "reading" ELSE "replying")
        /\ UNCHANGED <<t, printed[r]>>
    BY <2>1 DEF TypeOK, Told
  <2>4. n \in Nat /\ Len(w) \in Nat /\ Len(t) \in Nat /\ Len(o) \in Nat \ {0}
    BY <2>2, ToldShape, EmptySeq DEF TypeOK
  <2>5. f = o[1] /\ f \in Frames
    BY <2>2, HeadTailProperties
  <2> HIDE DEF w, f, o, n, t
  <2>6. /\ Append(w, f) # <<>> /\ Len(Append(w, f)) = Len(w) + 1
        /\ \A i \in 1..Len(w) : Append(w, f)[i] = w[i]
        /\ Append(w, f)[Len(w) + 1] = f
        /\ w # <<>> => Head(Append(w, f)) = Head(w)
    BY <2>2, <2>5, AppendProperties, HeadTailAppend
  <2>7. /\ Len(Tail(o)) = Len(o) - 1
        /\ \A i \in 1..Len(Tail(o)) : Tail(o)[i] = o[i + 1]
    BY <2>2, HeadTailProperties
  <2>8. CASE Pinged(r)
    BY <2>3, <2>6, <2>8 DEF Pinged, StreamOf, w
  <2>9. CASE Telling(r)
    <3>1. /\ \A i \in 1..n : i < Len(t) /\ t[i].type = printed[r][i]
          /\ \A i \in 1..Len(w) : IF n + i <= Len(t) THEN w[i] = t[n + i]
                                                   ELSE w[i].type = "ping"
          /\ n + Len(w) + Len(o) = Len(t)
          /\ \A i \in 1..Len(o) : o[i] = t[n + Len(w) + i]
      BY <2>1, <2>9 DEF Telling, Progress, w, o, n, t
    <3>2. f = t[n + Len(w) + 1] /\ n + (Len(w) + 1) <= Len(t)
      BY <2>4, <2>5, <3>1
    <3>3. \A i \in 1..(Len(w) + 1) :
            IF n + i <= Len(t) THEN Append(w, f)[i] = t[n + i]
                               ELSE Append(w, f)[i].type = "ping"
      <4> TAKE i \in 1..(Len(w) + 1)
      <4>1. CASE i \in 1..Len(w)
        BY <2>6, <3>1, <4>1
      <4>2. CASE i = Len(w) + 1
        <5>1. n + i <= Len(t) /\ n + i = n + Len(w) + 1
          BY <2>4, <3>2, <4>2
        <5> QED
          BY <2>6, <3>2, <4>2, <5>1
      <4> QED
        BY <2>4, <4>1, <4>2
    <3>4. n + (Len(w) + 1) + Len(Tail(o)) = Len(t)
      BY <2>4, <2>7, <3>1
    <3>5. \A i \in 1..Len(Tail(o)) : Tail(o)[i] = t[n + (Len(w) + 1) + i]
      <4> TAKE i \in 1..Len(Tail(o))
      <4>1. i + 1 \in 1..Len(o) /\ n + Len(w) + (i + 1) = n + (Len(w) + 1) + i
        BY <2>4, <2>7
      <4> QED
        BY <2>7, <3>1, <4>1
    <3>6. Len(o) = 1 => n + (Len(w) + 1) >= Len(t)
      BY <2>4, <3>1
    <3>7. Progress(r)'
      BY <2>3, <2>6, <3>1, <3>3, <3>4, <3>5, <3>6 DEF Progress, n, t
    <3>8. r \in served' /\ thread'[r] # "outside"
      BY <2>1, <2>3, <2>9 DEF Telling
    <3> QED
      BY <3>7, <3>8 DEF Telling, StreamOf
  <2>10. CASE Untold(r)
    BY <2>1, <2>10 DEF Untold
  <2> QED
    BY <1>3, <2>8, <2>9, <2>10 DEF StreamOf
<1> QED
  BY <1>1, <1>2, <1>3

\* What host-exec prints is what it was told, and it goes on or ends there.
LEMMA ReceiveStream ==
  ASSUME TypeOK, NEW r \in Requests, StreamOf(r), Receive(r)
  PROVE  StreamOf(r)'
<1> DEFINE f == Head(toGuest[r])
           w == toGuest[r]
           p == printed[r]
           t == Told(r)
<1>1. CASE ~(kind[r] = "exec" /\ f.type \in {"stdout", "stderr"})
  BY <1>1 DEF Receive, Exits, StreamOf, TypeOK
<1>2. CASE kind[r] = "exec" /\ f.type \in {"stdout", "stderr"}
  <2>1. /\ printed' = [printed EXCEPT ![r] = Append(p, f.type)]
        /\ toGuest' = [toGuest EXCEPT ![r] = Tail(w)]
        /\ w # <<>> /\ call[r] = "waiting"
        /\ UNCHANGED <<kind, call, thread, out, command, result, served>>
    BY <1>2 DEF Receive, host
  <2>2. w \in Seq(Frames) /\ p \in Seq({"stdout", "stderr"})
    BY DEF TypeOK
  <2>3. /\ printed'[r] = Append(p, f.type) /\ toGuest'[r] = Tail(w)
        /\ UNCHANGED <<t, thread[r], out[r]>>
    BY <2>1 DEF TypeOK, Told
  <2>4. /\ Len(p) \in Nat /\ Len(t) \in Nat /\ Len(w) \in Nat \ {0}
        /\ Len(out[r]) \in Nat
    BY <2>1, <2>2, ToldShape, EmptySeq DEF TypeOK
  <2>5. /\ f = w[1] /\ Len(Tail(w)) = Len(w) - 1
        /\ \A i \in 1..Len(Tail(w)) : Tail(w)[i] = w[i + 1]
    BY <2>1, <2>2, HeadTailProperties
  <2>6. /\ Len(Append(p, f.type)) = Len(p) + 1
        /\ \A i \in 1..Len(p) : Append(p, f.type)[i] = p[i]
        /\ Append(p, f.type)[Len(p) + 1] = f.type
    BY <1>2, <2>2, AppendProperties
  <2>7. Telling(r)
    BY <1>2, <2>1 DEF StreamOf, Pinged, Untold
  <2>8. \A i \in 1..Len(t) : t[i].type = "done" => i = Len(t)
    BY ToldShape
  <2>9. Len(t) \in 1..3 /\ t[Len(t)].type = "done"
    <3>1. \A c : Done(c).type = "done"
      BY DEF Done
    <3>2. t[Len(t)] = Done(IF command[r] = "ended" THEN result[r].code ELSE 1)
      BY ToldEnd
    <3> QED
      BY <3>1, <3>2, ToldShape
  <2> HIDE DEF f, w, p, t
  <2>10. /\ \A i \in 1..Len(p) : i < Len(t) /\ t[i].type = p[i]
         /\ \A i \in 1..Len(w) : IF Len(p) + i <= Len(t) THEN w[i] = t[Len(p) + i]
                                                     ELSE w[i].type = "ping"
         /\ thread[r] = "replying" =>
              /\ Len(p) + Len(w) + Len(out[r]) = Len(t)
              /\ \A i \in 1..Len(out[r]) : out[r][i] = t[Len(p) + Len(w) + i]
         /\ thread[r] = "reading" => Len(p) + Len(w) >= Len(t)
    BY <2>7 DEF Telling, Progress, p, w, t
  <2>11. f = t[Len(p) + 1] /\ Len(p) + 1 < Len(t)
    <3>1. Len(p) + 1 <= Len(t) /\ f = t[Len(p) + 1]
      BY <1>2, <2>4, <2>5, <2>10
    <3>2. Len(p) + 1 # Len(t)
      BY <1>2, <2>9, <3>1
    <3> QED
      BY <2>4, <3>1, <3>2
  <2>12. \A i \in 1..(Len(p) + 1) : i < Len(t) /\ t[i].type = Append(p, f.type)[i]
    <3> TAKE i \in 1..(Len(p) + 1)
    <3>1. CASE i \in 1..Len(p)
      BY <2>6, <2>10, <3>1
    <3>2. CASE i = Len(p) + 1
      BY <2>6, <2>11, <3>2
    <3> QED
      BY <2>4, <3>1, <3>2
  <2>13. \A i \in 1..(Len(w) - 1) :
           IF Len(p) + 1 + i <= Len(t) THEN Tail(w)[i] = t[Len(p) + 1 + i]
                                       ELSE Tail(w)[i].type = "ping"
    <3> TAKE i \in 1..(Len(w) - 1)
    <3>1. i + 1 \in 1..Len(w) /\ Len(p) + (i + 1) = Len(p) + 1 + i
      BY <2>4
    <3>2. Tail(w)[i] = w[i + 1]
      BY <2>5
    <3> QED
      BY <2>10, <3>1, <3>2
  <2>14. Len(p) + 1 + (Len(w) - 1) = Len(p) + Len(w)
    BY <2>4
  <2>15. Progress(r)'
    BY <2>3, <2>5, <2>6, <2>10, <2>12, <2>13, <2>14 DEF Progress, t
  <2> QED
    BY <2>1, <2>7, <2>15 DEF Telling, StreamOf
<1> QED
  BY <1>1, <1>2

\* A restart leaves what is on the wire, and tells no more.
LEMMA RestartStream ==
  ASSUME TypeOK, Once, NEW r \in Requests, StreamOf(r), Restart
  PROVE  StreamOf(r)'
<1>1. /\ UNCHANGED <<kind, call, printed, toGuest, result, served>>
      /\ thread'[r] = (IF r \in Serving THEN "closed" ELSE thread[r])
      /\ command'[r] = (IF command[r] = "running" THEN "none" ELSE command[r])
  BY DEF Restart, guest, history
<1>2. thread'[r] \notin {"reading", "outside", "replying"}
  BY <1>1 DEF Serving
<1>3. CASE Pinged(r)
  BY <1>1, <1>3 DEF Pinged, StreamOf
<1>4. CASE Untold(r)
  BY <1>1, <1>2, <1>4 DEF Untold, StreamOf
<1>5. CASE Telling(r)
  <2>1. command[r] # "running"
    BY <1>5 DEF Telling, Once
  <2>2. Told(r)' = Told(r)
    BY <1>1, <2>1 DEF Told
  <2> QED
    BY <1>1, <1>2, <1>5, <2>2 DEF Telling, Progress, StreamOf
<1> QED
  BY <1>1, <1>3, <1>4, <1>5 DEF StreamOf

\* Every step of everyone keeps what a call is told in order.
LEMMA StreamStep == TypeOK /\ Once /\ Stream /\ [Next]_vars => Stream'
<1> SUFFICES ASSUME TypeOK, Once, Stream, [Next]_vars, NEW r \in Requests
             PROVE  StreamOf(r)'
  BY DEF Stream
<1>0. StreamOf(r)
  BY DEF Stream
<1>1. CASE Restart
  BY <1>0, <1>1, RestartStream
<1>2. ASSUME NEW q \in Requests, Interceptor(q) \/ Server(q) \/ Outside(q)
      PROVE  StreamOf(r)'
  <2>1. CASE q # r
    BY <1>0, <1>2, <2>1, OthersUndisturbed, UndisturbedStream
  <2>2. CASE q = r
    <3>1. CASE Ping(r)
      BY <1>0, <3>1, PingStream
    <3>2. CASE Refuse(r) \/ Collect(r)
      BY <1>0, <3>2, ReplyStream
    <3>3. CASE WriteReply(r)
      BY <1>0, <3>3, WriteStream
    <3>4. CASE Receive(r)
      BY <1>0, <3>4, ReceiveStream
    <3>5. CASE \/ Connect(r) \/ ConnectFails(r) \/ Send(r) \/ Hangup(r) \/ Kill(r)
               \/ Accept(r) \/ Eof(r) \/ Serve(r) \/ StartCommand(r)
               \/ CommandEnds(r) \/ Served(r)
      BY <1>0, <3>5, QuietStream
    <3> QED
      BY <1>2, <2>2, <3>1, <3>2, <3>3, <3>4, <3>5
         DEF Interceptor, Server, Outside
  <2> QED
    BY <2>1, <2>2
<1>3. CASE UNCHANGED vars
  <2>1. Undisturbed(r)
    BY <1>3 DEF vars, guest, wires, host, history, Undisturbed
  <2> QED
    BY <1>0, <2>1, UndisturbedStream
<1> QED
  BY <1>1, <1>2, <1>3 DEF Next

-----------------------------------------------------------------------------
\* All that precedes HostExecDone, printed, is what the command wrote.
LEMMA PrintedAll ==
  ASSUME TypeOK, NEW r \in Requests, NEW p \in Seq({"stdout", "stderr"}),
         Len(p) = Len(Told(r)) - 1,
         \A i \in 1..Len(p) : Told(r)[i].type = p[i]
  PROVE  IF command[r] = "ended"
           THEN p = (IF result[r].out = "none" THEN <<>> ELSE <<"stdout">>)
                    \o (IF result[r].err = "none" THEN <<>> ELSE <<"stderr">>)
           ELSE p = <<"stderr">>
<1>0. /\ Len(p) \in Nat /\ \A i \in 1..Len(p) : p[i] \in {"stdout", "stderr"}
      /\ Len(p) = 0 => p = <<>>
  BY EmptySeq, ElementOfSeq
<1>1. CASE command[r] = "ended"
  <2> DEFINE x == result[r]
             a == Output(x.out, "stdout")
             b == Output(x.err, "stderr")
             t == Told(r)
  <2>1. x \in Result /\ x.out \in Size /\ x.err \in Size
    BY DEF TypeOK, Result
  <2>2. t = Captured(x)
    BY <1>1 DEF Told
  <2>3. /\ Len(t) = Len(a) + Len(b) + 1
        /\ \A i \in 1..Len(a) : t[i] = a[i]
        /\ \A i \in 1..Len(b) : t[Len(a) + i] = b[i]
    BY <2>1, <2>2, CapturedShape
  <2>4. /\ Len(a) = (IF x.out = "none" THEN 0 ELSE 1)
        /\ x.out = "huge" => a[1].type = "huge"
        /\ x.out = "some" => a[1].type = "stdout"
    BY <2>1, OutputShape
  <2>5. /\ Len(b) = (IF x.err = "none" THEN 0 ELSE 1)
        /\ x.err = "huge" => b[1].type = "huge"
        /\ x.err = "some" => b[1].type = "stderr"
    BY <2>1, OutputShape
  <2> HIDE DEF a, b, t, x
  <2>6. Len(p) = Len(a) + Len(b) /\ \A i \in 1..Len(p) : t[i].type = p[i]
    BY <1>0, <2>3, <2>4, <2>5 DEF t
  <2>61. /\ x.out = "none" => Len(a) = 0
         /\ x.out # "none" => Len(a) = 1
         /\ x.err = "none" => Len(b) = 0
         /\ x.err # "none" => Len(b) = 1
    BY <2>4, <2>5
  <2>62. /\ x.out = "none" /\ x.err = "none" => Len(p) = 0
         /\ x.out # "none" /\ x.err = "none" => Len(p) = 1
         /\ x.out = "none" /\ x.err # "none" => Len(p) = 1
         /\ x.out # "none" /\ x.err # "none" => Len(p) = 2
    <3>1. \A i, j, k \in Int : i = j + k =>
            /\ j = 0 /\ k = 0 => i = 0
            /\ j = 1 /\ k = 0 => i = 1
            /\ j = 0 /\ k = 1 => i = 1
            /\ j = 1 /\ k = 1 => i = 2
      OBVIOUS
    <3>2. Len(p) = Len(a) + Len(b)
      BY <2>6
    <3>3. Len(a) \in Int /\ Len(b) \in Int /\ Len(p) \in Int
      BY <1>0, <2>61
    <3> QED
      BY <2>61, <3>1, <3>2, <3>3
  <2>7. x.out # "none" => Len(a) = 1 /\ Len(p) >= 1 /\ p[1] = "stdout"
    <3> SUFFICES ASSUME x.out # "none"
                 PROVE  Len(a) = 1 /\ Len(p) >= 1 /\ p[1] = "stdout"
      OBVIOUS
    <3>1. Len(a) = 1 /\ Len(p) >= 1
      BY <2>61, <2>62
    <3>2. p[1] = a[1].type /\ p[1] \in {"stdout", "stderr"}
      BY <1>0, <2>3, <2>6, <3>1
    <3> QED
      BY <2>1, <2>4, <3>1, <3>2 DEF Size
  <2>8. x.err # "none" => Len(b) = 1 /\ Len(p) >= 1 /\ p[Len(p)] = "stderr"
    <3> SUFFICES ASSUME x.err # "none"
                 PROVE  Len(b) = 1 /\ Len(p) >= 1 /\ p[Len(p)] = "stderr"
      OBVIOUS
    <3>1. Len(b) = 1 /\ Len(p) = Len(a) + 1 /\ Len(a) \in Nat
      BY <2>6, <2>61, <2>62
    <3>2. p[Len(p)] = b[1].type /\ p[Len(p)] \in {"stdout", "stderr"}
      BY <1>0, <2>3, <2>6, <3>1
    <3> QED
      BY <2>1, <2>5, <3>1, <3>2 DEF Size
  <2>9. CASE x.out = "none" /\ x.err = "none"
    BY <1>0, <1>1, <2>4, <2>5, <2>6, <2>9 DEF x
  <2>10. CASE x.out # "none" /\ x.err = "none"
    <3>1. Len(p) = 1 /\ p[1] = "stdout"
      BY <2>62, <2>7, <2>10
    <3>2. p = <<"stdout">>
      BY <3>1
    <3> QED
      BY <1>1, <2>10, <3>2 DEF x
  <2>11. CASE x.out = "none" /\ x.err # "none"
    <3>1. Len(p) = 1 /\ p[1] = "stderr"
      BY <2>62, <2>8, <2>11
    <3>2. p = <<"stderr">>
      BY <3>1
    <3> QED
      BY <1>1, <2>11, <3>2 DEF x
  <2>12. CASE x.out # "none" /\ x.err # "none"
    <3>1. Len(p) = 2 /\ p[1] = "stdout" /\ p[2] = "stderr"
      BY <2>62, <2>7, <2>8, <2>12
    <3>2. p = <<"stdout", "stderr">>
      BY <3>1
    <3> QED
      BY <1>1, <2>12, <3>2 DEF x
  <2> QED
    BY <2>9, <2>10, <2>11, <2>12
<1>2. CASE command[r] # "ended"
  <2>1. Len(p) = 1 /\ p[1] = "stderr"
    BY <1>2 DEF Told, Frame
  <2>2. p = <<"stderr">>
    BY <2>1
  <2> QED
    BY <1>2, <2>2
<1> QED
  BY <1>1, <1>2

\* Whoever reads HostExecDone has been told all of it.
LEMMA DoneReceived ==
  ASSUME TypeOK, Once, NEW r \in Requests, StreamOf(r), Receive(r),
         kind[r] = "exec", Head(toGuest[r]).type = "done"
  PROVE  /\ command[r] # "running" /\ r \in served
         /\ printed'[r] = printed[r] /\ call'[r] = "over"
         /\ Len(printed[r]) = Len(Told(r)) - 1
         /\ \A i \in 1..Len(printed[r]) : Told(r)[i].type = printed[r][i]
         /\ exit'[r] = (IF command[r] = "ended" THEN result[r].code ELSE 1)
<1> DEFINE n == Len(printed[r])
           t == Told(r)
<1>1. /\ Telling(r) /\ toGuest[r] # <<>>
  BY DEF StreamOf, Pinged, Untold, Receive
<1>2. command[r] # "running" /\ r \in served
  BY <1>1 DEF Telling, Once
<1>3. /\ exit' = [exit EXCEPT ![r] = Head(toGuest[r]).code]
      /\ call' = [call EXCEPT ![r] = "over"] /\ UNCHANGED printed
  BY DEF Receive, Exits
<1>4. n \in Nat /\ Len(t) \in Nat /\ Len(toGuest[r]) \in Nat \ {0}
  BY <1>1, ToldShape, EmptySeq DEF TypeOK
<1>5. Head(toGuest[r]) = toGuest[r][1]
  BY <1>1
<1>6. /\ \A i \in 1..n : t[i].type = printed[r][i]
      /\ n + 1 <= Len(t) /\ Head(toGuest[r]) = t[n + 1]
  BY <1>1, <1>4, <1>5 DEF Telling, Progress
<1>7. n + 1 = Len(t)
  BY <1>4, <1>6, ToldShape
<1>8. Head(toGuest[r]).code = (IF command[r] = "ended" THEN result[r].code ELSE 1)
  <2>1. \A c : Done(c).code = c
    BY DEF Done
  <2>2. Head(toGuest[r]) = Done(IF command[r] = "ended" THEN result[r].code ELSE 1)
    BY <1>6, <1>7, ToldEnd
  <2> QED
    BY <2>1, <2>2
<1> QED
  BY <1>2, <1>3, <1>4, <1>6, <1>7, <1>8 DEF TypeOK

DoneOf(r) ==
  IF command[r] = "ended"
    THEN /\ exit[r] = result[r].code
         /\ printed[r] = (IF result[r].out = "none" THEN <<>> ELSE <<"stdout">>)
                         \o (IF result[r].err = "none" THEN <<>> ELSE <<"stderr">>)
    ELSE exit[r] = 1 /\ printed[r] = <<"stderr">>

\* What a call that has ended was told stays as it was.
LEMMA OverStays ==
  ASSUME TypeOK, Once, NEW r \in Requests, call[r] = "over", r \in served,
         command[r] # "running", [Next]_vars
  PROVE  /\ call'[r] = "over" /\ r \in served' /\ command'[r] = command[r]
         /\ result'[r] = result[r] /\ printed'[r] = printed[r] /\ exit'[r] = exit[r]
<1> USE DEF Once, TypeOK, guest, wires, host, history
<1>1. CASE Restart
  BY <1>1 DEF Restart
<1>2. ASSUME NEW q \in Requests, Interceptor(q) \/ ConnectFails(q) \/ Kill(q)
      PROVE  /\ call'[r] = "over" /\ r \in served' /\ command'[r] = command[r]
             /\ result'[r] = result[r] /\ printed'[r] = printed[r] /\ exit'[r] = exit[r]
  BY <1>2 DEF Interceptor, Connect, ConnectFails, Send, Receive, Hangup, Kill,
              Exits, Holds
<1>3. ASSUME NEW q \in Requests, Server(q) \/ Ping(q) \/ Served(q)
      PROVE  /\ call'[r] = "over" /\ r \in served' /\ command'[r] = command[r]
             /\ result'[r] = result[r] /\ printed'[r] = printed[r] /\ exit'[r] = exit[r]
  BY <1>3 DEF Server, Accept, Eof, Serve, Refuse, StartCommand, ReadRequest,
              Collect, WriteReply, Close, Reply, Ping, Served
<1>4. ASSUME NEW q \in Requests, CommandEnds(q)
      PROVE  /\ call'[r] = "over" /\ r \in served' /\ command'[r] = command[r]
             /\ result'[r] = result[r] /\ printed'[r] = printed[r] /\ exit'[r] = exit[r]
  BY <1>4 DEF CommandEnds
<1>5. CASE UNCHANGED vars
  BY <1>5 DEF vars
<1> QED
  BY <1>1, <1>2, <1>3, <1>4, <1>5 DEF Next, Outside

\* heardDone grows by host-execs that read HostExecDone only.
LEMMA HeardGrows ==
  ASSUME TypeOK, [Next]_vars, NEW r \in heardDone' \ heardDone
  PROVE  /\ r \in Requests /\ Receive(r)
         /\ kind[r] = "exec" /\ Head(toGuest[r]).type = "done"
<1>1. PICK q \in Requests : Receive(q)
  BY DEF Next, Restart, Interceptor, Server, Outside, Connect, ConnectFails, Send,
         Hangup, Kill, Ping, Accept, Eof, Serve, Refuse, StartCommand, ReadRequest,
         CommandEnds, Collect, Served, WriteReply, vars, history
<1> QED
  BY <1>1 DEF Receive

\* Reading HostExecDone, and every step after it, keep DoneTellsAll.
LEMMA DoneStep ==
  TypeOK /\ Once /\ Stream /\ Heard /\ DoneTellsAll /\ [Next]_vars
    => (Heard /\ DoneTellsAll)'
<1> SUFFICES ASSUME TypeOK, Once, Stream, Heard, DoneTellsAll, [Next]_vars,
                    NEW r \in heardDone'
             PROVE  /\ call'[r] = "over" /\ r \in served' /\ command'[r] # "running"
                    /\ DoneOf(r)'
  BY DEF Heard, DoneTellsAll, DoneOf
<1>1. CASE r \in heardDone
  <2>1. /\ r \in Requests /\ call[r] = "over" /\ r \in served
        /\ command[r] # "running" /\ DoneOf(r)
    BY <1>1 DEF Heard, DoneTellsAll, DoneOf, TypeOK
  <2> QED
    BY <2>1, OverStays DEF DoneOf
<1>2. CASE r \notin heardDone
  <2>1. /\ r \in Requests /\ Receive(r)
        /\ kind[r] = "exec" /\ Head(toGuest[r]).type = "done"
    BY <1>2, HeardGrows
  <2>2. StreamOf(r)
    BY <2>1 DEF Stream
  <2>3. /\ command[r] # "running" /\ r \in served
        /\ printed'[r] = printed[r] /\ call'[r] = "over"
        /\ Len(printed[r]) = Len(Told(r)) - 1
        /\ \A i \in 1..Len(printed[r]) : Told(r)[i].type = printed[r][i]
        /\ exit'[r] = (IF command[r] = "ended" THEN result[r].code ELSE 1)
    BY <2>1, <2>2, DoneReceived
  <2>4. UNCHANGED <<command, result, served>>
    BY <2>1 DEF Receive, host
  <2>5. printed[r] \in Seq({"stdout", "stderr"})
    BY <2>1 DEF TypeOK
  <2>6. IF command[r] = "ended"
          THEN printed[r] = (IF result[r].out = "none" THEN <<>> ELSE <<"stdout">>)
                            \o (IF result[r].err = "none" THEN <<>> ELSE <<"stderr">>)
          ELSE printed[r] = <<"stderr">>
    BY <2>1, <2>3, <2>5, PrintedAll
  <2> QED
    BY <2>3, <2>4, <2>6 DEF DoneOf
<1> QED
  BY <1>1, <1>2

\* Of what a command wrote nothing is lost, doubled or out of order on the way
\* to a host-exec that learns its exit code, for any results, limits and bounds.
THEOREM DoneCorrect == Spec => []DoneTellsAll
<1>1. Init => DoneTellsAll
  BY DEF Init, DoneTellsAll
<1>2. Spec => [](TypeOK /\ Once /\ Stream /\ Heard /\ DoneTellsAll)
  BY <1>1, InitType, TypeStep, OnceInit, OnceStep, StreamInit, StreamStep, DoneStep,
     PTL DEF Spec
<1> QED
  BY <1>2, PTL

-----------------------------------------------------------------------------
(* The calls as RemoteCommand has them.                                    *)

\* A command that died with a server is not there any more, nor is its thread;
\* and its caller, if it still waits, was told nothing that it could take for an end.
Died(r)   == kind[r] = "exec" /\ r \in served /\ command[r] = "none" /\ runs[r] # 0
DeadOf(r) == Died(r) => thread[r] = "closed" /\ (call[r] # "over" => Pinged(r) \/ Untold(r))
Dead      == \A r \in Requests : DeadOf(r)

\* A call whose command has died is left alone by the server, and can only leave.
LEMMA DeadAlone ==
  ASSUME TypeOK, Once, NEW r \in Requests, Died(r), DeadOf(r), [Next]_vars
  PROVE  DeadOf(r)'
<1> USE DEF Once, TypeOK, guest, wires, host, history
<1>1. /\ r \in served /\ command[r] = "none" /\ thread[r] = "closed"
      /\ kind[r] = "exec" /\ (call[r] # "over" => Pinged(r) \/ Untold(r))
      /\ call[r] \notin {"new", "connected"} /\ r \notin toHost
  <2>1. r \in served /\ command[r] = "none" /\ thread[r] = "closed" /\ kind[r] = "exec"
        /\ (call[r] # "over" => Pinged(r) \/ Untold(r))
    BY DEF Died, DeadOf
  <2> QED
    BY <2>1
<1>2. thread'[r] = "closed" /\ \/ call'[r] = "over"
                               \/ UNCHANGED <<call[r], printed[r], toGuest[r]>>
  <2>1. CASE Restart
    BY <1>1, <2>1 DEF Restart, Serving
  <2>2. ASSUME NEW q \in Requests, Connect(q) \/ Send(q) \/ Hangup(q) \/ ConnectFails(q) \/ Kill(q)
        PROVE  thread'[r] = "closed" /\ \/ call'[r] = "over"
                                        \/ UNCHANGED <<call[r], printed[r], toGuest[r]>>
    BY <1>1, <2>2 DEF Connect, ConnectFails, Send, Hangup, Kill, Exits, Holds
  <2>3. ASSUME NEW q \in Requests, Receive(q)
        PROVE  thread'[r] = "closed" /\ \/ call'[r] = "over"
                                        \/ UNCHANGED <<call[r], printed[r], toGuest[r]>>
    <3>1. CASE q = r
      <4>1. toGuest[r] # <<>> /\ call[r] = "waiting"
        BY <2>3, <3>1 DEF Receive
      <4>2. Head(toGuest[r]).type = "ping"
        BY <1>1, <4>1 DEF Pinged, Untold
      <4>3. Exits(r, Head(toGuest[r]).code) /\ UNCHANGED thread
        BY <2>3, <3>1, <4>2 DEF Receive
      <4> QED
        BY <1>1, <4>3 DEF Exits
    <3>2. CASE q # r
      BY <1>1, <2>3, <3>2 DEF Receive, Exits
    <3> QED
      BY <3>1, <3>2
  <2>4. ASSUME NEW q \in Requests, Server(q)
        PROVE  thread'[r] = "closed" /\ \/ call'[r] = "over"
                                        \/ UNCHANGED <<call[r], printed[r], toGuest[r]>>
    <3>1. CASE q = r
      BY <1>1, <2>4, <3>1 DEF Server, Accept, Eof, Serve, Refuse, StartCommand, ReadRequest,
                              Collect, WriteReply
    <3>2. CASE q # r
      BY <1>1, <2>4, <3>2 DEF Server, Accept, Eof, Serve, Refuse, StartCommand, ReadRequest,
                              Collect, WriteReply, Close, Reply
    <3> QED
      BY <3>1, <3>2
  <2>5. ASSUME NEW q \in Requests, Ping(q) \/ CommandEnds(q) \/ Served(q)
        PROVE  thread'[r] = "closed" /\ \/ call'[r] = "over"
                                        \/ UNCHANGED <<call[r], printed[r], toGuest[r]>>
    BY <1>1, <2>5 DEF Ping, CommandEnds, Served, Close, Reply
  <2>6. CASE UNCHANGED vars
    BY <1>1, <2>6 DEF vars
  <2> QED
    BY <2>1, <2>2, <2>3, <2>4, <2>5, <2>6 DEF Next, Interceptor, Outside
<1>3. CASE call'[r] = "over"
  BY <1>2, <1>3 DEF DeadOf
<1>4. CASE UNCHANGED <<call[r], printed[r], toGuest[r]>>
  BY <1>1, <1>2, <1>4 DEF DeadOf, Pinged, Untold
<1> QED
  BY <1>2, <1>3, <1>4

\* Commands die in a restart only, with the threads that wait for them.
LEMMA DeadStep == TypeOK /\ Once /\ Stream /\ Dead /\ [Next]_vars => Dead'
<1> SUFFICES ASSUME TypeOK, Once, Stream, Dead, [Next]_vars, NEW r \in Requests, ~Died(r), Died(r)'
             PROVE  DeadOf(r)'
  BY DeadAlone DEF Dead, DeadOf
<1> USE DEF Once, TypeOK, guest, wires, host, history
<1>1. CASE Restart
  <2>1. /\ kind[r] = "exec" /\ r \in served /\ runs[r] # 0 /\ command[r] = "running"
        /\ thread[r] = "outside" /\ StreamOf(r)
    BY <1>1 DEF Restart, Died, Stream
  <2>2. thread'[r] = "closed" /\ UNCHANGED <<call, printed, toGuest>>
    BY <1>1, <2>1 DEF Restart, Serving
  <2>3. call[r] # "over" => Pinged(r) \/ Untold(r)
    BY <2>1 DEF StreamOf, Telling
  <2> QED
    BY <2>2, <2>3 DEF DeadOf, Pinged, Untold
<1>2. ASSUME NEW q \in Requests, Interceptor(q) \/ ConnectFails(q) \/ Kill(q) PROVE FALSE
  BY <1>2 DEF Died, Interceptor, Connect, ConnectFails, Send, Receive, Hangup, Kill
<1>3. ASSUME NEW q \in Requests, Server(q) PROVE FALSE
  BY <1>3 DEF Died, Server, Accept, Eof, Serve, Refuse, StartCommand, ReadRequest,
              Collect, WriteReply
<1>4. ASSUME NEW q \in Requests, Ping(q) \/ CommandEnds(q) \/ Served(q) PROVE FALSE
  BY <1>4 DEF Died, Ping, CommandEnds, Served
<1>5. CASE UNCHANGED vars
  BY <1>5 DEF vars, Died
<1> QED
  BY <1>1, <1>2, <1>3, <1>4, <1>5 DEF Next, Outside

\* What a caller was told it knows.
LEMMA KnownStays ==
  ASSUME TypeOK, Once, Heard, [Next]_vars, NEW r \in Requests, r \in heardDone' => r \in heardDone
  PROVE  Known(r)' = Known(r)
<1>1. CASE r \in heardDone
  <2>1. call[r] = "over" /\ r \in served /\ command[r] # "running"
    BY <1>1 DEF Heard
  <2>2. printed'[r] = printed[r] /\ exit'[r] = exit[r]
    BY <2>1, OverStays
  <2>3. heardDone \subseteq heardDone'
    BY DEF Next, Restart, Interceptor, Server, Outside, Connect, ConnectFails, Send, Receive,
           Hangup, Kill, Ping, Accept, Eof, Serve, Refuse, StartCommand, ReadRequest,
           CommandEnds, Collect, Served, WriteReply, vars, history
  <2> QED
    BY <1>1, <2>2, <2>3 DEF Known
<1>2. CASE r \notin heardDone
  BY <1>2 DEF Known
<1> QED
  BY <1>1, <1>2

\* Steps that do nothing to a command as its caller sees it.
Quiet == UNCHANGED <<result, heardDone>>
         /\ \A r \in Requests : CommandState(r)' = CommandState(r)

LEMMA QuietRemote ==
  ASSUME TypeOK, Once, Heard, [Next]_vars, Quiet
  PROVE  UNCHANGED Remote!remote
<1>1. \A r \in Requests : Known(r)' = Known(r)
  BY KnownStays DEF Quiet
<1>2. [r \in Requests |-> CommandState(r)]' = [r \in Requests |-> CommandState(r)]
  BY DEF Quiet
<1>3. [r \in Requests |-> Known(r)]' = [r \in Requests |-> Known(r)]
  BY <1>1
<1> QED
  BY <1>2, <1>3 DEF Quiet, Remote!remote

\* The step that one command takes from s to t.
LEMMA CommandGoes ==
  ASSUME NEW r \in Requests, NEW s, NEW t, CommandState(r) = s, CommandState(r)' = t,
         \A q \in Requests \ {r} : CommandState(q)' = CommandState(q)
  PROVE  Remote!Goes(r, s, t)
BY DEF Remote!Goes

\* Most steps are quiet.
LEMMA OthersQuiet ==
  ASSUME TypeOK, Once, NEW r \in Requests,
         \/ Connect(r) \/ Send(r) \/ Hangup(r) \/ ConnectFails(r) \/ Kill(r) \/ Ping(r)
         \/ Accept(r) \/ Eof(r) \/ Serve(r) \/ Collect(r) \/ WriteReply(r) \/ Served(r)
         \/ Receive(r) /\ heardDone' = heardDone
  PROVE  Quiet
<1> USE DEF Once, TypeOK, guest, wires, host, history
<1>1. UNCHANGED <<result, heardDone, kind, command, runs>>
      /\ (served' = served \/ (served' = served \cup {r} /\ kind[r] # "exec"))
  BY DEF Connect, Send, Hangup, ConnectFails, Kill, Ping, Accept, Eof, Serve, ReadRequest,
         Collect, WriteReply, Served, Receive
<1> QED
  BY <1>1 DEF Quiet, CommandState

\* A command that runs was counted.
Counted == \A r \in Requests : command[r] = "running" => runs[r] # 0

LEMMA CountedStep == TypeOK /\ Once /\ Counted /\ [Next]_vars => Counted'
<1> SUFFICES ASSUME TypeOK, Once, Counted, [Next]_vars PROVE Counted'
  OBVIOUS
<1> USE DEF Counted, Once, TypeOK, guest, wires, host, history
<1>1. CASE Restart
  BY <1>1 DEF Restart
<1>2. ASSUME NEW r \in Requests, Interceptor(r) \/ Outside(r) PROVE Counted'
  BY <1>2 DEF Interceptor, Outside, Connect, ConnectFails, Send, Receive, Hangup, Kill,
              Ping, CommandEnds, Served
<1>3. ASSUME NEW r \in Requests, Server(r) PROVE Counted'
  BY <1>3 DEF Server, Accept, Eof, Serve, Refuse, StartCommand, ReadRequest, Collect, WriteReply
<1>4. CASE UNCHANGED vars
  BY <1>4 DEF vars
<1> QED
  BY <1>1, <1>2, <1>3, <1>4 DEF Next

\* Every step is one that RemoteCommand allows, or nothing to it.
LEMMA RemoteStep ==
  TypeOK /\ Once /\ Stream /\ Heard /\ DoneTellsAll /\ Dead /\ Counted /\ [Next]_vars
    => [Remote!Next]_(Remote!remote)
<1> SUFFICES ASSUME TypeOK, Once, Stream, Heard, DoneTellsAll, Dead, Counted, [Next]_vars
             PROVE  [Remote!Next]_(Remote!remote)
  OBVIOUS
<1> DEFINE Knowledge == [r \in Requests |-> Known(r)]
<1>k. heardDone' = heardDone => Knowledge' = Knowledge
  BY KnownStays
<1>1. CASE Restart
  <2>1. UNCHANGED <<kind, served, runs, result, heardDone>>
    BY <1>1 DEF Restart, guest, history
  <2>2. ASSUME NEW r \in Requests
        PROVE  CommandState(r)' = IF CommandState(r) = "running" THEN "killed" ELSE CommandState(r)
    <3>1. command'[r] = IF command[r] = "running" THEN "none" ELSE command[r]
      BY <1>1 DEF Restart
    <3>2. command[r] \in {"none", "running", "ended"} /\ (command[r] = "running" => runs[r] # 0)
      BY DEF TypeOK, Counted
    <3> QED
      BY <2>1, <3>1, <3>2 DEF CommandState
  <2>3. Remote!Die
    BY <1>k, <2>1, <2>2 DEF Remote!Die
  <2> QED
    BY <2>3 DEF Remote!Next
<1>2. ASSUME NEW r \in Requests, Refuse(r) PROVE Remote!Next
  <2>1. /\ r \in toHost /\ kind[r] = "exec" /\ served' = served \cup {r}
        /\ UNCHANGED <<kind, command, runs, result, heardDone>>
    BY <1>2 DEF Refuse, ReadRequest, guest
  <2>2. r \notin served /\ runs[r] = 0 /\ command[r] = "none"
    BY <2>1 DEF Once
  <2>3. CommandState(r) = "asked" /\ CommandState(r)' = "refused"
    BY <2>1, <2>2 DEF CommandState
  <2>4. \A q \in Requests \ {r} : CommandState(q)' = CommandState(q)
    BY <2>1 DEF CommandState
  <2>5. Remote!Refuse(r)
    BY <1>k, <2>1, <2>3, <2>4, CommandGoes DEF Remote!Refuse
  <2> QED
    BY <2>5 DEF Remote!Next
<1>3. ASSUME NEW r \in Requests, StartCommand(r) PROVE Remote!Next
  <2>1. /\ r \in toHost /\ kind[r] = "exec" /\ served' = served \cup {r}
        /\ command' = [command EXCEPT ![r] = "running"] /\ runs' = [runs EXCEPT ![r] = @ + 1]
        /\ UNCHANGED <<kind, result, heardDone>>
    BY <1>3 DEF StartCommand, ReadRequest, guest
  <2>2. r \notin served
    BY <2>1 DEF Once
  <2>3. CommandState(r) = "asked" /\ CommandState(r)' = "running"
    BY <2>1, <2>2 DEF CommandState, TypeOK
  <2>4. \A q \in Requests \ {r} : CommandState(q)' = CommandState(q)
    BY <2>1 DEF CommandState, TypeOK
  <2>5. Remote!Start(r)
    BY <1>k, <2>1, <2>3, <2>4, CommandGoes DEF Remote!Start
  <2> QED
    BY <2>5 DEF Remote!Next
<1>4. ASSUME NEW r \in Requests, CommandEnds(r) PROVE Remote!Next
  <2>1. /\ command[r] = "running" /\ command' = [command EXCEPT ![r] = "ended"]
        /\ \E x \in Results : result' = [result EXCEPT ![r] = x]
        /\ UNCHANGED <<kind, served, runs, heardDone>>
    BY <1>4 DEF CommandEnds, guest, history
  <2>2. r \in served /\ kind[r] = "exec"
    BY <2>1 DEF Once
  <2>3. CommandState(r) = "running" /\ CommandState(r)' = "ended"
    BY <2>1, <2>2 DEF CommandState, TypeOK
  <2>4. \A q \in Requests \ {r} : CommandState(q)' = CommandState(q)
    BY <2>1 DEF CommandState, TypeOK
  <2>5. Remote!End(r)
    BY <1>k, <2>1, <2>3, <2>4, CommandGoes DEF Remote!End
  <2> QED
    BY <2>5 DEF Remote!Next
<1>5. ASSUME NEW r \in Requests, Receive(r), heardDone' # heardDone PROVE Remote!Next
  <2>1. /\ r \in Requests /\ kind[r] = "exec" /\ Head(toGuest[r]).type = "done" /\ toGuest[r] # <<>>
        /\ heardDone' = heardDone \cup {r} /\ r \notin heardDone /\ call[r] = "waiting"
        /\ UNCHANGED <<kind, served, command, runs, result, printed>>
    BY <1>5 DEF Receive, host
  <2>2. StreamOf(r) /\ DeadOf(r)
    BY <2>1 DEF Stream, Dead
  <2>3. /\ command[r] # "running" /\ r \in served /\ call'[r] = "over"
        /\ Len(printed[r]) = Len(Told(r)) - 1
        /\ \A i \in 1..Len(printed[r]) : Told(r)[i].type = printed[r][i]
        /\ exit'[r] = (IF command[r] = "ended" THEN result[r].code ELSE 1)
    BY <1>5, <2>1, <2>2, DoneReceived
  <2>4. printed[r] \in Seq({"stdout", "stderr"})
    BY DEF TypeOK
  <2>5. IF command[r] = "ended"
          THEN printed[r] = (IF result[r].out = "none" THEN <<>> ELSE <<"stdout">>)
                            \o (IF result[r].err = "none" THEN <<>> ELSE <<"stderr">>)
          ELSE printed[r] = <<"stderr">>
    BY <2>1, <2>3, <2>4, PrintedAll
  <2>6. CommandState(r) \in {"ended", "refused"} /\ (CommandState(r) = "ended" <=> command[r] = "ended")
    <3>1. ~(command[r] = "none" /\ runs[r] # 0)
      BY <2>1, <2>2, <2>3 DEF DeadOf, Died, Pinged, Untold
    <3>2. command[r] \in {"none", "running", "ended"}
      BY DEF TypeOK
    <3> QED
      BY <2>1, <2>3, <3>1, <3>2 DEF CommandState
  <2>7. \A q \in Requests : CommandState(q)' = CommandState(q)
    BY <2>1 DEF CommandState
  <2>8. Known(r)' = IF command[r] = "ended"
                      THEN [code |-> result[r].code, shown |-> Remote!Shown(result[r])]
                      ELSE [code |-> 1, shown |-> <<"stderr">>]
    <3>1. Known(r)' = [code |-> exit'[r], shown |-> printed[r]]
      BY <2>1 DEF Known
    <3> QED
      BY <2>3, <2>5, <3>1 DEF Remote!Shown
  <2>9. \A q \in Requests \ {r} : Known(q)' = Known(q)
    BY <2>1, KnownStays
  <2>10. Known(r)' = Remote!Answer(r)
    BY <2>6, <2>8 DEF Remote!Answer, Remote!Refusal
  <2>11. Knowledge' = [Knowledge EXCEPT ![r] = Remote!Answer(r)]
    BY <2>9, <2>10
  <2>12. Remote!Tell(r)
    BY <2>1, <2>6, <2>7, <2>11 DEF Remote!Tell
  <2> QED
    BY <2>12 DEF Remote!Next
<1>6. CASE Quiet
  BY <1>6, QuietRemote
<1>7. CASE UNCHANGED vars
  BY <1>7, QuietRemote DEF Quiet, CommandState, vars, guest, wires, host, history
<1> QED
  BY <1>1, <1>2, <1>3, <1>4, <1>5, <1>6, <1>7, OthersQuiet
     DEF Next, Interceptor, Server, Outside

\* What RemoteCommand says holds of the host server and the guests: a command is
\* started at most once and told of only when it has ended or was never started,
\* for any number of calls, restarts, pings and threads and any results.
THEOREM RemoteCorrect == Spec => ImplementsRemoteCommand
<1>1. Init => Remote!Init
  BY DEF Init, Remote!Init, CommandState, Known, NoResult, Remote!Nothing, Remote!NoAnswer
<1>2. Init => DoneTellsAll /\ Dead /\ Counted
  BY DEF Init, DoneTellsAll, Dead, DeadOf, Died, Counted
<1>3. Spec => [](TypeOK /\ Once /\ Stream /\ Heard /\ DoneTellsAll /\ Dead /\ Counted)
  BY <1>2, InitType, TypeStep, OnceInit, OnceStep, StreamInit, StreamStep, DoneStep, DeadStep,
     CountedStep, PTL DEF Spec
<1>4. TypeOK /\ Once /\ Stream /\ Heard /\ DoneTellsAll /\ Dead /\ Counted /\ [Next]_vars
        => [Remote!Next]_(Remote!remote)
  BY RemoteStep
<1> QED
  BY <1>1, <1>3, <1>4, PTL DEF Spec, ImplementsRemoteCommand, Remote!Spec

-----------------------------------------------------------------------------
(* Framing: what the reader is told, and where it is.                      *)

\* Places in the stream of the messages bg, one after the other: the last byte of
\* a message is followed by the first of the next.  Place 0 of message 0 is
\* before the first.
End(bg, m) == IF m = 0 THEN 0 ELSE Bytes(bg[m])
Place(bg)  == [m : 0 .. Len(bg), i : Nat]

After(bg, a, b) ==
  \/ a.m > 0 /\ a.i < End(bg, a.m) /\ b = [m |-> a.m, i |-> a.i + 1]
  \/ a.i = End(bg, a.m) /\ a.m < Len(bg) /\ b = [m |-> a.m + 1, i |-> 1]

\* Writers that are where nx says have written nothing after a.
LastWritten(bg, nx, a) ==
  /\ a.m = Len(bg)
  /\ \/ \E w \in DOMAIN nx : nx[w].i > 0 /\ a.i = nx[w].i
     \/ (\A w \in DOMAIN nx : nx[w].i = 0) /\ a.i = End(bg, a.m)

\* They have written s since p, and nothing else.
Flow(bg, nx, s, p) ==
  /\ IF s = <<>> THEN LastWritten(bg, nx, p)
     ELSE After(bg, p, s[1]) /\ LastWritten(bg, nx, s[Len(s)])
  /\ \A k \in 1 .. Len(s) - 1 : After(bg, s[k], s[k + 1])

\* A writer in the middle of a message is in the middle of one that was begun ...
Middle ==
  \A w \in Writers : next[w].i > 0 =>
    /\ next[w].n <= Len(script.writes[w])
    /\ next[w].m \in 1 .. Len(begun) /\ begun[next[w].m] = Present(w)
    /\ next[w].i < Bytes(Present(w))

\* ... and, if no other was when it wrote, in that of the last.
InTurn ==
  ~mixed => \A v, w \in Writers : next[w].i > 0 =>
              next[w].m = Len(begun) /\ (next[v].i > 0 => v = w)

\* A single writer begins its messages in their order.
Single ==
  Len(script.writes) = 1 =>
    /\ ~mixed
    /\ Len(begun) <= Len(script.writes[1])
    /\ \A m \in DOMAIN begun : begun[m] = script.writes[1][m]
    /\ next[1].n = Len(begun) + (IF next[1].i = 0 THEN 1 ELSE 0)

\* Nothing follows a descriptor.
FdIsLast == \A m \in DOMAIN begun : begun[m].fd =>
              Len(script.writes) = 1 /\ m = Len(script.writes[1])

\* Where a reader is that has not lost any byte, when it has read up to p.
Reading(p) ==
  tears = 0 =>
    /\ Len(delivered) <= Len(begun) /\ \A k \in DOMAIN delivered : delivered[k] = k
    /\ reader = "length" =>
         IF got = <<>> THEN p.m = Len(delivered) /\ p.i = End(begun, p.m)
         ELSE got = <<p>> /\ p.m = Len(delivered) + 1 /\ p.i = 1
    /\ reader = "body" =>
         /\ p.m = Len(delivered) + 1 /\ p.i = 2 + Len(got)
         /\ want = Field(begun[p.m].size)
         /\ \A k \in DOMAIN got : got[k] = [m |-> p.m, i |-> 2 + k]
    /\ reader = "fd" =>
         p.m > 0 /\ p.m = Len(delivered) /\ begun[p.m].fd /\ p.i = Bytes(begun[p.m]) - 1

\* Where one is that has lost the beginning of a message: what it takes for a
\* body does not begin where one does.
Torn(p) ==
  tears = 1 =>
    /\ reader # "fd"
    /\ reader = "length" =>
         /\ p.m > 0
         /\ IF got = <<>> THEN p.i \in 1 .. 1 + begun[p.m].size
            ELSE got = <<p>> /\ p.i \in 2 .. 2 + begun[p.m].size
    /\ reader = "body" =>
         /\ want > 0
         /\ IF got = <<>> THEN p.m > 0 /\ p.i = 3 ELSE got[1].i # 3

ReaderIsSomewhere ==
  ~mixed => \E p \in Place(begun) : Flow(begun, next, wire, p) /\ Reading(p) /\ Torn(p)

TearsAreTimed == tears > 0 => script.timed

\* What remains so after the reader's end.
Ending ==
  Unbroken =>
    /\ reader = "ended" =>
         \/ ~open /\ (CutOff \/ Len(delivered) = Len(begun))
         \/ Len(delivered) = Len(begun) /\ \E m \in DOMAIN begun : begun[m].fd
    /\ reader = "failed" => CutOff \/ (script.timed /\ \E m \in DOMAIN begun : begun[m].fd)

WireInv == /\ WireTypeOK /\ Middle /\ InTurn /\ Single /\ FdIsLast
           /\ ReaderIsSomewhere /\ TearsAreTimed /\ Ending

-----------------------------------------------------------------------------
(* Framing: types.                                                         *)

\* The bytes of the messages begun.
WireByte == [m : 1 .. Len(begun), i : Nat \ {0}]

\* What the constants are.
LEMMA ScriptType ==
  ASSUME WireTypeOK
  PROVE  /\ script.writes \in Seq(Seq(Message)) /\ script.timed \in BOOLEAN
         /\ Writers = 1 .. Len(script.writes) /\ Len(script.writes) \in Nat
         /\ \A w \in Writers : /\ script.writes[w] \in Seq(Message)
                               /\ Len(script.writes[w]) \in Nat
                               /\ DOMAIN script.writes[w] = 1 .. Len(script.writes[w])
BY ScriptsAssumption DEF WireTypeOK, Writers

\* Messages that are begun stay what they are, and the bytes those of messages begun.
LEMMA MoreBegun ==
  ASSUME begun \in Seq(Message), NEW message \in Message, begun' = Append(begun, message)
  PROVE  /\ begun' \in Seq(Message) /\ Len(begun') = Len(begun) + 1 /\ Len(begun) \in Nat
         /\ \A m \in 1 .. Len(begun) : begun'[m] = begun[m]
         /\ begun'[Len(begun) + 1] = message
BY AppendProperties

\* What a writer is at has a size.
LEMMA PresentType ==
  ASSUME WireTypeOK, NEW w \in Writers, next[w].n <= Len(script.writes[w])
  PROVE  Present(w) \in Message
<1>1. next[w].n \in Nat \ {0}
  BY DEF WireTypeOK
<1> QED
  BY <1>1, ScriptType DEF Present

LEMMA BytesType ==
  ASSUME NEW message \in Message
  PROVE  Bytes(message) \in Nat /\ message.size \in Nat \ {0} /\ message.fd \in BOOLEAN
         /\ Bytes(message) = message.size + (IF message.fd THEN 3 ELSE 2)
BY DEF Message, Bytes

\* What is appended comes after what there was.
LEMMA Appended ==
  ASSUME NEW S, NEW s \in Seq(S), NEW t \in Seq(S)
  PROVE  /\ s \o t \in Seq(S) /\ Len(s \o t) = Len(s) + Len(t) /\ Len(s) \in Nat
         /\ \A k \in 1 .. Len(s) : (s \o t)[k] = s[k]
         /\ \A k \in 1 .. Len(t) : (s \o t)[Len(s) + k] = t[k]
<1>1. Len(s) \in Nat /\ Len(t) \in Nat
  OBVIOUS
<1>2. \A k \in 1 .. Len(s) : (s \o t)[k] = s[k]
  BY <1>1, ConcatProperties
<1>3. ASSUME NEW k \in 1 .. Len(t) PROVE (s \o t)[Len(s) + k] = t[k]
  BY <1>1, ConcatProperties
<1> QED
  BY <1>1, <1>2, <1>3, ConcatProperties

\* A function on an initial interval is a sequence.
LEMMA FunctionSeq ==
  ASSUME NEW S, NEW n \in Nat, NEW f \in [1 .. n -> S]
  PROVE  f \in Seq(S) /\ Len(f) = n
<1>1. f \in Seq(S)
  BY SeqDef
<1>2. DOMAIN f = 1 .. n /\ DOMAIN f = 1 .. Len(f) /\ Len(f) \in Nat
  BY <1>1
<1> QED
  BY <1>1, <1>2

\* What a writer puts on the wire.
LEMMA PutBytes ==
  ASSUME WireTypeOK, NEW w \in Writers, NEW m \in 1 .. Len(begun'), NEW j \in Nat, Put(w, m, j),
         j > next[w].i, begun' \in Seq(Message), Len(begun) <= Len(begun')
  PROVE  LET new == [k \in 1 .. j - next[w].i |-> [m |-> m, i |-> next[w].i + k]] IN
         /\ next[w].i \in Nat /\ j - next[w].i \in Nat \ {0}
         /\ new \in Seq(WireByte') /\ wire \in Seq(WireByte')
         /\ wire' = wire \o new /\ wire' \in Seq(WireByte')
         /\ Len(new) = j - next[w].i /\ Len(wire') = Len(wire) + Len(new) /\ Len(wire) \in Nat
         /\ \A k \in 1 .. Len(wire) : wire'[k] = wire[k]
         /\ \A k \in 1 .. Len(new) : wire'[Len(wire) + k] = [m |-> m, i |-> next[w].i + k]
<1> DEFINE new == [k \in 1 .. j - next[w].i |-> [m |-> m, i |-> next[w].i + k]]
<1>1. next[w].i \in Nat /\ j - next[w].i \in Nat \ {0}
  BY DEF WireTypeOK
<1>2. new \in [1 .. j - next[w].i -> WireByte']
  BY <1>1 DEF WireByte
<1>3. new \in Seq(WireByte') /\ Len(new) = j - next[w].i
  <2> DEFINE S == WireByte'
             n == j - next[w].i
  <2>1. n \in Nat /\ new \in [1 .. n -> S]
    BY <1>1, <1>2
  <2> HIDE DEF S, n, new
  <2>2. new \in Seq(S) /\ Len(new) = n
    BY <2>1, FunctionSeq
  <2> QED
    BY <2>2 DEF S, n
<1>4. wire \in Seq(WireByte')
  <2>1. WireByte \subseteq WireByte' /\ wire \in Seq(WireByte)
    BY DEF WireByte, WireTypeOK
  <2> QED
    BY <2>1, SeqMonotonic
<1>5. wire' = wire \o new
  BY DEF Put
<1>6. \A k \in 1 .. Len(new) : new[k] = [m |-> m, i |-> next[w].i + k]
  BY <1>3
<1>7. /\ wire \o new \in Seq(WireByte') /\ Len(wire \o new) = Len(wire) + Len(new)
      /\ Len(wire) \in Nat
      /\ \A k \in 1 .. Len(wire) : (wire \o new)[k] = wire[k]
      /\ \A k \in 1 .. Len(new) : (wire \o new)[Len(wire) + k] = new[k]
  <2> DEFINE S == WireByte'
  <2> HIDE DEF new, S
  <2>1. new \in Seq(S) /\ wire \in Seq(S)
    BY <1>3, <1>4 DEF S
  <2>2. /\ wire \o new \in Seq(S) /\ Len(wire \o new) = Len(wire) + Len(new)
        /\ Len(wire) \in Nat
        /\ \A k \in 1 .. Len(wire) : (wire \o new)[k] = wire[k]
        /\ \A k \in 1 .. Len(new) : (wire \o new)[Len(wire) + k] = new[k]
    BY <2>1, Appended
  <2> QED
    BY <2>2 DEF S
<1> QED
  BY <1>1, <1>3, <1>4, <1>5, <1>6, <1>7

\* Writing keeps the types.
LEMMA PutType ==
  ASSUME WireTypeOK, NEW w \in Writers, NEW m \in 1 .. Len(begun'), NEW j \in Nat, Put(w, m, j),
         j > next[w].i, begun' \in Seq(Message), Len(begun) <= Len(begun')
  PROVE  WireTypeOK'
<1>1. wire' \in Seq(WireByte')
  BY PutBytes
<1>2. UNCHANGED <<script, open, reader, got, want, delivered, tears>> /\ Writers' = Writers
  BY DEF Put, reading, Writers
<1>3. next' \in [Writers -> [n : Nat \ {0}, m : Nat, i : Nat]]
  BY DEF WireTypeOK, Put
<1>4. \A v \in Writers : next'[v].m <= Len(begun')
  <2>1. \A v \in Writers : v # w => next'[v] = next[v]
    BY DEF WireTypeOK, Put
  <2>2. next'[w].m = m
    BY DEF WireTypeOK, Put
  <2>3. Len(begun') \in Nat /\ Len(begun) \in Nat
    BY DEF WireTypeOK
  <2>4. \A v \in Writers : next[v].m \in Nat /\ next[v].m <= Len(begun)
    BY DEF WireTypeOK
  <2>5. \A v \in Writers : v # w => next'[v].m <= Len(begun')
    BY <2>1, <2>3, <2>4
  <2> QED
    BY <2>2, <2>3, <2>5
<1>5. got' \in Seq(WireByte')
  <2>1. WireByte \subseteq WireByte' /\ got \in Seq(WireByte)
    BY DEF WireByte, WireTypeOK
  <2> QED
    BY <2>1, <1>2, SeqMonotonic
<1>6. delivered' \in Seq(1 .. Len(begun'))
  <2>1. 1 .. Len(begun) \subseteq 1 .. Len(begun') /\ delivered \in Seq(1 .. Len(begun))
    BY DEF WireTypeOK
  <2> QED
    BY <2>1, <1>2, SeqMonotonic
<1>7. mixed' \in BOOLEAN
  BY DEF Put, WireTypeOK
<1> QED
  BY <1>1, <1>2, <1>3, <1>4, <1>5, <1>6, <1>7 DEF WireTypeOK, WireByte

\* What the writers' steps have in common: some of them put bytes of the message
\* that they begin, or began, up to one within it.
Writes(w, j) ==
  /\ Has(w) /\ j \in next[w].i + 1 .. Bytes(Present(w))
  /\ \/ next[w].i = 0 /\ j <= 2 /\ begun' = Append(begun, Present(w)) /\ Put(w, Len(begun) + 1, j)
     \/ next[w].i > 0 /\ UNCHANGED begun /\ Put(w, next[w].m, j)

LEMMA StepWrites ==
  ASSUME WireTypeOK, NEW w \in Writers, Begin(w) \/ WriteLength(w) \/ WriteBody(w) \/ SendFd(w)
  PROVE  \E j \in Nat : Writes(w, j)
<1>1. /\ Has(w) /\ Present(w) \in Message /\ next[w].i \in Nat
      /\ Present(w).size \in Nat \ {0} /\ Bytes(Present(w)) \in Nat
      /\ Bytes(Present(w)) = Present(w).size + (IF Present(w).fd THEN 3 ELSE 2)
  BY PresentType, BytesType DEF Begin, WriteLength, WriteBody, SendFd, Has, WireTypeOK
<1>2. CASE Begin(w)
  BY <1>1, <1>2 DEF Begin, Writes
<1>3. CASE WriteLength(w)
  BY <1>1, <1>3 DEF WriteLength, Writes
<1>4. CASE WriteBody(w)
  BY <1>1, <1>4 DEF WriteBody, Writes
<1>5. CASE SendFd(w)
  BY <1>1, <1>5 DEF SendFd, Writes
<1> QED
  BY <1>2, <1>3, <1>4, <1>5

LEMMA WritesBegun ==
  ASSUME WireTypeOK, Middle, NEW w \in Writers, NEW j \in Nat, Writes(w, j)
  PROVE  /\ Present(w) \in Message /\ next[w].i \in Nat /\ j > next[w].i /\ j <= Bytes(Present(w))
         /\ begun' \in Seq(Message) /\ Len(begun) \in Nat
         /\ \A k \in 1 .. Len(begun) : begun'[k] = begun[k]
         /\ \E m \in 1 .. Len(begun') : Put(w, m, j) /\ begun'[m] = Present(w)
              /\ IF next[w].i = 0 THEN m = Len(begun) + 1 /\ Len(begun') = Len(begun) + 1
                 ELSE m = next[w].m /\ begun' = begun
<1>1. Present(w) \in Message /\ next[w].i \in Nat /\ begun \in Seq(Message)
  BY PresentType DEF Writes, Has, WireTypeOK
<1>2. j > next[w].i /\ j <= Bytes(Present(w))
  BY <1>1, BytesType DEF Writes
<1>3. CASE next[w].i = 0
  <2>1. begun' = Append(begun, Present(w)) /\ Put(w, Len(begun) + 1, j)
    BY <1>3 DEF Writes
  <2> QED
    BY <1>1, <1>2, <1>3, <2>1, MoreBegun
<1>4. CASE next[w].i > 0
  BY <1>1, <1>2, <1>4 DEF Writes, Middle
<1> QED
  BY <1>1, <1>3, <1>4

\* A length is one again when its digits are put together.
LEMMA Digits ==
  ASSUME WireTypeOK, NEW b \in WireByte
  PROVE  /\ Digit(b) \in 0 .. Base - 1
         /\ b.i = 1 => Digit(b) = Field(begun[b.m].size) \div Base
         /\ b.i = 2 => Digit(b) = Field(begun[b.m].size) % Base
         /\ b.i \in 3 .. 2 + begun[b.m].size => Digit(b) = Base - 1
<1> DEFINE size == begun[b.m].size
<1>1. size \in Nat \ {0} /\ b.i \in Nat \ {0}
  <2>1. b.m \in 1 .. Len(begun) /\ b.i \in Nat \ {0} /\ begun \in Seq(Message)
    BY DEF WireByte, WireTypeOK
  <2>2. begun[b.m] \in Message
    BY <2>1
  <2> QED
    BY <2>1, <2>2 DEF Message
<1>2. Base \in Nat /\ Base > 1
  BY ScriptsAssumption
<1>3. Base * Base \in Nat \ {0}
  BY <1>2
<1>4. Field(size) \in Nat /\ Field(size) < Base * Base
  BY <1>1, <1>3 DEF Field
<1>5. Field(size) % Base \in 0 .. Base - 1
  BY <1>2, <1>4
<1>6. Field(size) \div Base \in 0 .. Base - 1
  <2> HIDE DEF size
  <2> DEFINE f == Field(size)
  <2>1. f \in Nat /\ f < Base * Base
    BY <1>4
  <2> HIDE DEF f
  <2>2. f = Base * (f \div Base) + (f % Base) /\ (f % Base) \in 0 .. Base - 1 /\ f \div Base \in Int
    BY <1>2, <2>1
  <2>3. f \div Base >= 0
    BY <1>2, <2>1
  <2>4. f \div Base < Base
    BY <1>2, <2>1, <2>2, <2>3
  <2> QED
    BY <1>2, <2>2, <2>3, <2>4 DEF f
<1> QED
  BY <1>1, <1>2, <1>5, <1>6 DEF Digit

LEMMA WireInitType == WireInit => WireTypeOK
<1> SUFFICES ASSUME WireInit PROVE WireTypeOK
  OBVIOUS
<1>1. /\ begun = <<>> /\ wire = <<>> /\ got = <<>> /\ delivered = <<>> /\ Len(<<>>) = 0
      /\ script \in Scripts /\ reader = "length" /\ want = 0 /\ open = TRUE /\ mixed = FALSE
      /\ tears = 0 /\ next = [w \in Writers |-> [n |-> 1, m |-> 0, i |-> 0]]
  BY DEF WireInit
<1>2. MAX_FRAME_SIZE \in Nat
  BY ScriptsAssumption
<1>3. \A S : <<>> \in Seq(S)
  BY EmptySeq
<1>4. next \in [Writers -> [n : Nat \ {0}, m : Nat, i : Nat]] /\ \A w \in Writers : next[w].m <= 0
  BY <1>1
<1>5. begun \in Seq(Message) /\ wire \in Seq([m : 1 .. Len(begun), i : Nat \ {0}])
      /\ got \in Seq([m : 1 .. Len(begun), i : Nat \ {0}]) /\ delivered \in Seq(1 .. Len(begun))
  BY <1>1, <1>3
<1>6. Len(begun) = 0 /\ Len(got) <= (IF reader = "body" THEN want ELSE 1)
  BY <1>1
<1>7. \A w \in Writers : next[w].m <= Len(begun)
  BY <1>4, <1>6
<1>8. want \in 0 .. MAX_FRAME_SIZE
  BY <1>1, <1>2
<1>9. next \in [Writers -> [n : Nat \ {0}, m : Nat, i : Nat]]
  BY <1>4
<1>10. /\ script \in Scripts /\ reader \in {"length", "body", "fd", "ended", "failed"}
       /\ open = TRUE /\ mixed = FALSE /\ tears \in 0 .. 2
  BY DEF WireInit
<1> QED
  BY <1>5, <1>6, <1>7, <1>8, <1>9, <1>10 DEF WireTypeOK

\* What the reader takes off the wire.
LEMMA Taken ==
  ASSUME WireTypeOK, wire # <<>>
  PROVE  /\ Byte \in WireByte /\ wire[1] = Byte /\ Len(wire) \in Nat \ {0}
         /\ Tail(wire) \in Seq(WireByte) /\ Len(Tail(wire)) = Len(wire) - 1
         /\ \A k \in 1 .. Len(wire) - 1 : Tail(wire)[k] = wire[k + 1]
<1> DEFINE S == WireByte
<1>1. wire \in Seq(S)
  BY DEF WireTypeOK, WireByte
<1> HIDE DEF S
<1>2. /\ Head(wire) \in S /\ wire[1] = Head(wire) /\ Len(wire) \in Nat \ {0}
      /\ Tail(wire) \in Seq(S) /\ Len(Tail(wire)) = Len(wire) - 1
      /\ \A k \in 1 .. Len(wire) - 1 : Tail(wire)[k] = wire[k + 1]
  BY <1>1, HeadTailProperties
<1> QED
  BY <1>2 DEF S, Byte

\* What a length says is within the field, and is that of its message.
LEMMA Length ==
  ASSUME WireTypeOK, NEW a \in WireByte, NEW b \in WireByte
  PROVE  /\ Digit(a) * Base + Digit(b) \in Nat
         /\ a.i = 1 /\ b = [m |-> a.m, i |-> 2] =>
              Digit(a) * Base + Digit(b) = Field(begun[a.m].size)
         /\ a.i \in 3 .. 2 + begun[a.m].size => Digit(a) * Base + Digit(b) > MAX_FRAME_SIZE
         /\ b.i \in 3 .. 2 + begun[b.m].size => Digit(a) * Base + Digit(b) > 0
<1>1. Base \in Nat /\ Base > 1 /\ MAX_FRAME_SIZE \in Nat /\ MAX_FRAME_SIZE < (Base - 1) * Base
  BY ScriptsAssumption
<1>2. Digit(a) \in 0 .. Base - 1 /\ Digit(b) \in 0 .. Base - 1
  BY Digits
<1>3. Digit(a) * Base \in Nat
  BY <1>1, <1>2
<1>4. ASSUME a.i = 1, b = [m |-> a.m, i |-> 2]
      PROVE  Digit(a) * Base + Digit(b) = Field(begun[a.m].size)
  <2> DEFINE f == Field(begun[a.m].size)
  <2>1. Digit(a) = f \div Base /\ Digit(b) = f % Base
    BY <1>4, Digits
  <2>2. f \in Nat
    <3>1. a.m \in 1 .. Len(begun) /\ begun \in Seq(Message)
      BY DEF WireByte, WireTypeOK
    <3>2. begun[a.m] \in Message
      BY <3>1
    <3>3. begun[a.m].size \in Nat
      BY <3>2 DEF Message
    <3>4. Base * Base \in Nat \ {0}
      BY <1>1
    <3> QED
      BY <3>3, <3>4 DEF Field
  <2> HIDE DEF f
  <2>3. f = (f \div Base) * Base + (f % Base)
    BY <1>1, <2>2
  <2> QED
    BY <2>1, <2>3 DEF f
<1>5. ASSUME a.i \in 3 .. 2 + begun[a.m].size PROVE Digit(a) * Base + Digit(b) > MAX_FRAME_SIZE
  <2>1. Digit(a) = Base - 1
    BY <1>5, Digits
  <2> QED
    BY <1>1, <1>2, <2>1
<1>6. ASSUME b.i \in 3 .. 2 + begun[b.m].size PROVE Digit(a) * Base + Digit(b) > 0
  <2>1. Digit(b) = Base - 1
    BY <1>6, Digits
  <2> QED
    BY <1>1, <1>2, <1>3, <2>1
<1> QED
  BY <1>2, <1>3, <1>4, <1>5, <1>6

\* A reader's step leaves the writers alone, and takes at most a byte.
ReaderStep == ReadLength \/ ReadBody \/ Body \/ RecvFd \/ EndOfStream \/ Timeout

LEMMA ReaderWriting ==
  ASSUME ReaderStep
  PROVE  UNCHANGED writing /\ (wire' = wire \/ (wire # <<>> /\ wire' = Tail(wire)))
<1>1. CASE ReadLength
  BY <1>1 DEF ReadLength, Reads
<1>2. CASE ReadBody
  BY <1>2 DEF ReadBody, Reads
<1>3. CASE Body
  <2>1. CASE IsMessage(got)
    <3>1. wire' = wire /\ (Reads("fd", <<>>, 0) \/ Reads("length", <<>>, 0))
      BY <1>3, <2>1 DEF Body
    <3>2. UNCHANGED writing
      BY <3>1 DEF Reads
    <3> QED
      BY <3>1, <3>2
  <2>2. CASE ~IsMessage(got)
    <3>1. wire' = wire /\ Reads("failed", <<>>, 0)
      BY <1>3, <2>2 DEF Body
    <3>2. UNCHANGED writing
      BY <3>1 DEF Reads
    <3> QED
      BY <3>1, <3>2
  <2> QED
    BY <2>1, <2>2
<1>4. CASE RecvFd
  BY <1>4 DEF RecvFd, Reads
<1>5. CASE EndOfStream
  BY <1>5 DEF EndOfStream, Reads
<1>6. CASE Timeout
  BY <1>6 DEF Timeout
<1> QED
  BY <1>1, <1>2, <1>3, <1>4, <1>5, <1>6 DEF ReaderStep

LEMMA ReaderType ==
  ASSUME WireTypeOK, ReaderStep
  PROVE  WireTypeOK'
<1>1. UNCHANGED <<script, next, begun, open, mixed>> /\ Writers' = Writers /\ WireByte' = WireByte
  BY ReaderWriting DEF writing, Writers, WireByte
<1>2. wire' \in Seq(WireByte)
  BY ReaderWriting, Taken DEF WireTypeOK, WireByte
<1> SUFFICES /\ got' \in Seq(WireByte) /\ delivered' \in Seq(1 .. Len(begun))
             /\ reader' \in {"length", "body", "fd", "ended", "failed"}
             /\ Len(got') <= (IF reader' = "body" THEN want' ELSE 1)
             /\ want' \in 0 .. MAX_FRAME_SIZE /\ tears' \in 0 .. 2
  BY <1>1, <1>2 DEF WireTypeOK, WireByte
<1>3. /\ got \in Seq(WireByte) /\ delivered \in Seq(1 .. Len(begun)) /\ tears \in 0 .. 2
      /\ want \in 0 .. MAX_FRAME_SIZE /\ MAX_FRAME_SIZE \in Nat
      /\ <<>> \in Seq(WireByte) /\ Len(<<>>) = 0
  BY ScriptsAssumption DEF WireTypeOK, WireByte
<1> DEFINE Typed == /\ got' \in Seq(WireByte)
                    /\ reader' \in {"length", "body", "fd", "ended", "failed"}
                    /\ Len(got') <= (IF reader' = "body" THEN want' ELSE 1)
                    /\ want' \in 0 .. MAX_FRAME_SIZE /\ tears' \in 0 .. 2
<1>r. ASSUME NEW r \in {"length", "fd", "ended", "failed"}, NEW g \in Seq(WireByte),
             Reads(r, g, 0), Len(g) <= 1
      PROVE  Typed
  BY <1>3, <1>r DEF Reads
<1>e. ASSUME NEW r \in {"length", "fd", "ended", "failed"}, Reads(r, <<>>, 0)
      PROVE  Typed
  BY <1>3, <1>e DEF Reads
<1>b. ASSUME NEW g \in Seq(WireByte), NEW n \in 0 .. MAX_FRAME_SIZE, Reads("body", g, n), Len(g) <= n
      PROVE  Typed
  BY <1>3, <1>b DEF Reads
<1> HIDE DEF Typed
<1>4. CASE ReadLength
  <2>1. Byte \in WireByte /\ <<Byte>> \in Seq(WireByte) /\ Len(<<Byte>>) = 1
    BY <1>4, Taken DEF ReadLength
  <2> HIDE DEF Byte
  <2>2. CASE got = <<>>
    <3>1. Reads("length", <<Byte>>, 0) /\ delivered' = delivered
      BY <1>4, <2>2 DEF ReadLength
    <3>2. Len(<<Byte>>) <= 1
      BY <2>1
    <3> QED
      BY <1>3, <1>r, <2>1, <3>1, <3>2 DEF Typed
  <2>3. CASE got # <<>>
    <3>1. got[1] \in WireByte
      BY <1>3, <2>3
    <3>2. Digit(got[1]) * Base + Digit(Byte) \in Nat
      BY <2>1, <3>1, Length
    <3> DEFINE length == Digit(got[1]) * Base + Digit(Byte)
    <3>3. delivered' = delivered /\ \/ Reads("failed", <<>>, 0)
                                    \/ length <= MAX_FRAME_SIZE /\ Reads("body", <<>>, length)
      BY <1>3, <1>4, <2>3, <3>2 DEF ReadLength
    <3> HIDE DEF length
    <3>4. length \in Nat
      BY <3>2 DEF length
    <3>5. length <= MAX_FRAME_SIZE => length \in 0 .. MAX_FRAME_SIZE /\ Len(<<>>) <= length
      BY <1>3, <3>4
    <3>6. Typed
      BY <1>3, <1>e, <1>b, <3>3, <3>5
    <3> QED
      BY <1>3, <3>3, <3>6 DEF Typed
  <2> QED
    BY <2>2, <2>3
<1>5. CASE ReadBody
  <2>1. Byte \in WireByte
    BY <1>5, Taken DEF ReadBody
  <2>2. Append(got, Byte) \in Seq(WireByte) /\ Len(Append(got, Byte)) = Len(got) + 1
    BY <1>3, <2>1, AppendProperties
  <2> HIDE DEF Byte
  <2>3. Reads("body", Append(got, Byte), want) /\ delivered' = delivered /\ Len(got) < want
    BY <1>5 DEF ReadBody
  <2>4. Len(Append(got, Byte)) <= want
    BY <1>3, <2>2, <2>3
  <2> QED
    BY <1>3, <1>b, <2>2, <2>3, <2>4 DEF Typed
<1>6. CASE Body
  <2>1. CASE IsMessage(got)
    <3>1. got[1].m \in 1 .. Len(begun)
      BY <1>3, <2>1 DEF IsMessage, WireByte
    <3>2. Append(delivered, got[1].m) \in Seq(1 .. Len(begun))
      BY <1>3, <3>1, AppendProperties
    <3>3. /\ delivered' = Append(delivered, got[1].m)
          /\ Reads("fd", <<>>, 0) \/ Reads("length", <<>>, 0)
      BY <1>6, <2>1 DEF Body
    <3> QED
      BY <1>3, <1>e, <3>2, <3>3 DEF Typed
  <2>2. CASE ~IsMessage(got)
    <3>1. Reads("failed", <<>>, 0) /\ delivered' = delivered
      BY <1>6, <2>2 DEF Body
    <3> QED
      BY <1>3, <1>e, <3>1 DEF Typed
  <2> QED
    BY <2>1, <2>2
<1>7. CASE RecvFd
  <2>1. (Reads("ended", <<>>, 0) \/ Reads("failed", <<>>, 0)) /\ delivered' = delivered
    BY <1>7 DEF RecvFd
  <2> QED
    BY <1>3, <1>e, <2>1 DEF Typed
<1>8. CASE EndOfStream
  <2>1. (Reads("ended", <<>>, 0) \/ Reads("failed", <<>>, 0)) /\ delivered' = delivered
    BY <1>8 DEF EndOfStream
  <2> QED
    BY <1>3, <1>e, <2>1 DEF Typed
<1>9. CASE Timeout
  BY <1>3, <1>9 DEF Timeout
<1> QED
  BY <1>4, <1>5, <1>6, <1>7, <1>8, <1>9 DEF ReaderStep

-----------------------------------------------------------------------------
(* Framing: the writers' messages.                                         *)

\* What a write changes for the writers.
LEMMA PutNext ==
  ASSUME WireTypeOK, NEW w \in Writers, NEW m, NEW j, Put(w, m, j)
  PROVE  /\ script' = script /\ Writers' = Writers /\ open' = open /\ UNCHANGED reading
         /\ mixed' = (mixed \/ \E v \in Writers \ {w} : next[v].i > 0)
         /\ \A v \in Writers : v # w => next'[v] = next[v]
         /\ next'[w].m = m
         /\ j = Bytes(Present(w)) => next'[w].n = next[w].n + 1 /\ next'[w].i = 0
         /\ j # Bytes(Present(w)) => next'[w].n = next[w].n /\ next'[w].i = j
BY DEF WireTypeOK, Put, Writers

LEMMA WritesMiddle ==
  ASSUME WireTypeOK, Middle, NEW w \in Writers, NEW j \in Nat, Writes(w, j)
  PROVE  Middle'
<1>1. PICK m \in 1 .. Len(begun') : Put(w, m, j) /\ begun'[m] = Present(w)
  BY WritesBegun
<1>2. /\ Present(w) \in Message /\ j > next[w].i /\ j <= Bytes(Present(w)) /\ next[w].i \in Nat
      /\ Len(begun) \in Nat /\ Len(begun') \in Nat /\ Len(begun) <= Len(begun')
      /\ \A k \in 1 .. Len(begun) : begun'[k] = begun[k]
      /\ next[w].n <= Len(script.writes[w])
  BY WritesBegun DEF Writes, Has
<1> SUFFICES ASSUME NEW v \in Writers, next'[v].i > 0
             PROVE  /\ next'[v].n <= Len(script.writes[v])
                    /\ next'[v].m \in 1 .. Len(begun') /\ begun'[next'[v].m] = script.writes[v][next'[v].n]
                    /\ next'[v].i < Bytes(script.writes[v][next'[v].n])
  BY <1>1, PutNext DEF Middle, Present, Bytes
<1>3. CASE v = w
  <2>1. j # Bytes(Present(w)) /\ next'[w].n = next[w].n /\ next'[w].m = m /\ next'[w].i = j
    BY <1>1, <1>3, PutNext
  <2> QED
    BY <1>1, <1>2, <1>3, <2>1, BytesType DEF Present
<1>4. CASE v # w
  <2>1. next'[v] = next[v]
    BY <1>1, <1>4, PutNext
  <2> QED
    BY <1>2, <2>1 DEF Middle, Present
<1> QED
  BY <1>3, <1>4

LEMMA WritesInTurn ==
  ASSUME WireTypeOK, Middle, InTurn, NEW w \in Writers, NEW j \in Nat, Writes(w, j)
  PROVE  InTurn'
<1>1. PICK m \in 1 .. Len(begun') :
        /\ Put(w, m, j)
        /\ IF next[w].i = 0 THEN m = Len(begun) + 1 /\ Len(begun') = Len(begun) + 1
           ELSE m = next[w].m /\ begun' = begun
  BY WritesBegun
<1> SUFFICES ASSUME ~mixed', NEW v \in Writers, NEW u \in Writers, next'[u].i > 0
             PROVE  next'[u].m = Len(begun') /\ (next'[v].i > 0 => v = u)
  BY <1>1, PutNext DEF InTurn
<1>2. ~mixed /\ \A t \in Writers \ {w} : ~(next[t].i > 0)
  BY <1>1, PutNext
<1>3. \A t \in Writers \ {w} : ~(next'[t].i > 0)
  BY <1>1, <1>2, PutNext
<1>4. u = w /\ (next'[v].i > 0 => v = u)
  BY <1>3
<1>5. next'[w].m = m
  BY <1>1, PutNext
<1>6. m = Len(begun')
  <2>1. next[w].i \in Nat
    BY DEF WireTypeOK
  <2> QED
    BY <1>1, <1>2, <2>1 DEF InTurn
<1> QED
  BY <1>4, <1>5, <1>6

LEMMA WritesSingle ==
  ASSUME WireTypeOK, Middle, Single, NEW w \in Writers, NEW j \in Nat, Writes(w, j)
  PROVE  Single'
<1>1. PICK m \in 1 .. Len(begun') :
        /\ Put(w, m, j) /\ begun'[m] = Present(w)
        /\ IF next[w].i = 0 THEN m = Len(begun) + 1 /\ Len(begun') = Len(begun) + 1
           ELSE m = next[w].m /\ begun' = begun
  BY WritesBegun
<1> SUFFICES ASSUME Len(script.writes) = 1
             PROVE  /\ ~mixed' /\ Len(begun') <= Len(script.writes[1])
                    /\ \A k \in DOMAIN begun' : begun'[k] = script.writes[1][k]
                    /\ next'[1].n = Len(begun') + (IF next'[1].i = 0 THEN 1 ELSE 0)
  BY <1>1, PutNext DEF Single
<1>2. w = 1 /\ Writers = {1}
  BY ScriptType
<1>3. /\ ~mixed /\ Len(begun) <= Len(script.writes[1])
      /\ \A k \in DOMAIN begun : begun[k] = script.writes[1][k]
      /\ next[1].i = 0 => next[1].n = Len(begun) + 1
      /\ next[1].i # 0 => next[1].n = Len(begun)
  <2>1. Len(begun) \in Nat
    BY DEF WireTypeOK
  <2> QED
    BY <2>1 DEF Single
<1>n. /\ j = Bytes(Present(w)) => next'[1].n = next[1].n + 1 /\ next'[1].i = 0
      /\ j # Bytes(Present(w)) => next'[1].n = next[1].n /\ next'[1].i = j
  BY <1>1, <1>2, PutNext
<1>4. ~mixed'
  BY <1>1, <1>2, <1>3, PutNext
<1>5. /\ next[1].n <= Len(script.writes[1]) /\ Present(w) = script.writes[1][next[1].n]
      /\ next[1].i \in Nat /\ j > next[1].i /\ begun \in Seq(Message) /\ begun' \in Seq(Message)
      /\ Len(begun) \in Nat /\ Len(script.writes[1]) \in Nat
      /\ \A k \in 1 .. Len(begun) : begun'[k] = begun[k]
  BY <1>2, ScriptType, WritesBegun DEF Writes, Has, Present, WireTypeOK
<1>6. DOMAIN begun = 1 .. Len(begun) /\ DOMAIN begun' = 1 .. Len(begun') /\ Len(begun') \in Nat
  BY <1>5
<1>7. CASE next[1].i = 0
  <2>1. next[1].n = Len(begun) + 1 /\ m = Len(begun) + 1 /\ Len(begun') = Len(begun) + 1
    BY <1>1, <1>2, <1>3, <1>7
  <2>2. ASSUME NEW k \in DOMAIN begun' PROVE begun'[k] = script.writes[1][k]
    <3>1. k \in 1 .. Len(begun) \/ k = m
      BY <1>5, <1>6, <2>1
    <3>2. CASE k \in 1 .. Len(begun)
      BY <1>3, <1>5, <1>6, <3>2
    <3>3. CASE k = m
      <4>1. begun'[m] = script.writes[1][m]
        BY <1>1, <1>5, <2>1
      <4> QED
        BY <3>3, <4>1
    <3> QED
      BY <3>1, <3>2, <3>3
  <2>3. next'[1].n = Len(begun') + (IF next'[1].i = 0 THEN 1 ELSE 0)
    BY <1>n, <1>5, <2>1
  <2> QED
    BY <1>4, <1>5, <2>1, <2>2, <2>3
<1>8. CASE next[1].i # 0
  <2>1. begun' = begun /\ next[1].n = Len(begun)
    BY <1>1, <1>2, <1>3, <1>8
  <2>2. j # 0
    BY <1>5, <1>8
  <2>3. next'[1].n = Len(begun) + (IF next'[1].i = 0 THEN 1 ELSE 0)
    BY <1>n, <1>5, <2>1, <2>2
  <2> QED
    BY <1>3, <1>4, <2>1, <2>3
<1> QED
  BY <1>7, <1>8

LEMMA WritesFdIsLast ==
  ASSUME WireTypeOK, Middle, Single, FdIsLast, NEW w \in Writers, NEW j \in Nat, Writes(w, j)
  PROVE  FdIsLast'
<1>1. PICK m \in 1 .. Len(begun') :
        /\ Put(w, m, j) /\ begun'[m] = Present(w)
        /\ IF next[w].i = 0 THEN m = Len(begun) + 1 /\ Len(begun') = Len(begun) + 1
           ELSE m = next[w].m /\ begun' = begun
  BY WritesBegun
<1>2. /\ begun \in Seq(Message) /\ begun' \in Seq(Message) /\ Len(begun) \in Nat
      /\ \A k \in 1 .. Len(begun) : begun'[k] = begun[k]
      /\ next[w].n \in Nat \ {0} /\ next[w].n <= Len(script.writes[w])
  BY WritesBegun DEF Writes, Has, WireTypeOK
<1> SUFFICES ASSUME NEW k \in 1 .. Len(begun'), begun'[k].fd
             PROVE  Len(script.writes) = 1 /\ k = Len(script.writes[1])
  <2>1. script' = script /\ DOMAIN begun' = 1 .. Len(begun')
    BY <1>1, <1>2, PutNext
  <2> QED
    BY <2>1 DEF FdIsLast
<1>3. CASE k \in 1 .. Len(begun)
  BY <1>2, <1>3 DEF FdIsLast
<1>4. CASE k \notin 1 .. Len(begun)
  <2>1. next[w].i = 0 /\ k = Len(begun) + 1 /\ m = k
    BY <1>1, <1>2, <1>4
  <2>2. script.writes[w][next[w].n].fd
    BY <1>1, <2>1 DEF Present
  <2>3. script \in Scripts /\ w \in DOMAIN script.writes /\ next[w].n \in DOMAIN script.writes[w]
    BY <1>2, ScriptType DEF WireTypeOK, Writers
  <2>4. Len(script.writes) = 1 /\ next[w].n = Len(script.writes[w])
    BY <2>2, <2>3, ScriptsAssumption
  <2>5. w = 1 /\ next[1].n = Len(begun) + 1
    BY <2>1, <2>4, ScriptType DEF Single
  <2> QED
    BY <2>1, <2>4, <2>5
<1> QED
  BY <1>3, <1>4

-----------------------------------------------------------------------------
(* Framing: the bytes on the wire are those after the reader's place.      *)

\* A message's last byte is not before its third.
LEMMA EndType ==
  ASSUME NEW bg \in Seq(Message), NEW m \in 0 .. Len(bg)
  PROVE  /\ End(bg, m) \in Nat
         /\ m > 0 => /\ bg[m] \in Message /\ bg[m].size \in Nat \ {0} /\ bg[m].fd \in BOOLEAN
                     /\ End(bg, m) = bg[m].size + (IF bg[m].fd THEN 3 ELSE 2)
                     /\ End(bg, m) >= 2 + bg[m].size
<1>1. CASE m = 0
  BY <1>1 DEF End
<1>2. CASE m # 0
  <2>1. m > 0 /\ bg[m] \in Message
    BY <1>2
  <2>2. bg[m].size \in Nat \ {0} /\ bg[m].fd \in BOOLEAN
        /\ Bytes(bg[m]) = bg[m].size + (IF bg[m].fd THEN 3 ELSE 2)
    BY <2>1, BytesType
  <2> QED
    BY <1>2, <2>1, <2>2 DEF End
<1> QED
  BY <1>1, <1>2

\* More messages leave the places that there were in their order.
LEMMA AfterGrows ==
  ASSUME NEW bg \in Seq(Message), NEW more \in Seq(Message), Len(bg) <= Len(more),
         \A k \in 1 .. Len(bg) : more[k] = bg[k], NEW a \in Place(bg), NEW b, After(bg, a, b)
  PROVE  After(more, a, b)
<1>1. a.m \in 0 .. Len(bg) /\ Len(bg) \in Nat /\ Len(more) \in Nat
  BY DEF Place
<1>2. End(more, a.m) = End(bg, a.m)
  BY <1>1 DEF End
<1> QED
  BY <1>1, <1>2 DEF After

\* What follows what was written last follows the reader's place too.
LEMMA FlowGrows ==
  ASSUME NEW bg \in Seq(Message), NEW more \in Seq(Message), Len(bg) <= Len(more),
         \A k \in 1 .. Len(bg) : more[k] = bg[k],
         NEW nx, NEW later, NEW p \in Place(bg), NEW s \in Seq(Place(bg)), Flow(bg, nx, s, p),
         NEW new \in Seq(Place(more)), NEW n \in Nat \ {0}, n = Len(new),
         \A a \in Place(bg) : LastWritten(bg, nx, a) => After(more, a, new[1]),
         \A k \in 1 .. n - 1 : After(more, new[k], new[k + 1]),
         LastWritten(more, later, new[n])
  PROVE  Flow(more, later, s \o new, p)
<1> DEFINE t == s \o new
<1>1. /\ Len(t) = Len(s) + n /\ Len(s) \in Nat
      /\ \A k \in 1 .. Len(s) : t[k] = s[k]
      /\ \A k \in 1 .. n : t[Len(s) + k] = new[k]
  <2>1. Place(bg) \subseteq Place(more)
    BY DEF Place
  <2>2. s \in Seq(Place(more))
    BY <2>1, SeqMonotonic
  <2> QED
    BY <2>2, Appended
<1> HIDE DEF t
<1>2. \A k \in 1 .. Len(s) : s[k] \in Place(bg)
  OBVIOUS
<1>3. t # <<>> /\ t[Len(t)] = new[n]
  BY <1>1
<1>4. After(more, p, t[1])
  <2>1. CASE s = <<>>
    <3>1. LastWritten(bg, nx, p) /\ Len(s) = 0
      BY <2>1 DEF Flow
    <3>2. t[1] = new[1]
      BY <1>1, <3>1
    <3> QED
      BY <3>1, <3>2
  <2>2. CASE s # <<>>
    <3>1. 1 \in 1 .. Len(s) /\ After(bg, p, s[1])
      BY <2>2, EmptySeq DEF Flow
    <3>2. After(more, p, s[1])
      BY <3>1, AfterGrows
    <3> QED
      BY <1>1, <3>1, <3>2
  <2> QED
    BY <2>1, <2>2
<1>5. ASSUME NEW k \in 1 .. Len(t) - 1 PROVE After(more, t[k], t[k + 1])
  <2>1. CASE k < Len(s)
    <3>1. k \in 1 .. Len(s) - 1 /\ k \in 1 .. Len(s) /\ k + 1 \in 1 .. Len(s)
      BY <1>1, <2>1
    <3>2. After(bg, s[k], s[k + 1])
      BY <3>1 DEF Flow
    <3>3. After(more, s[k], s[k + 1])
      BY <1>2, <3>1, <3>2, AfterGrows
    <3> QED
      BY <1>1, <3>1, <3>3
  <2>2. CASE k = Len(s)
    <3>1. s # <<>> /\ k \in 1 .. Len(s) /\ k + 1 = Len(s) + 1
      BY <1>1, <2>2
    <3>2. LastWritten(bg, nx, s[k]) /\ s[k] \in Place(bg)
      BY <1>2, <2>2, <3>1 DEF Flow
    <3>3. t[k] = s[k] /\ t[k + 1] = new[1]
      BY <1>1, <3>1
    <3> QED
      BY <3>2, <3>3
  <2>3. CASE k > Len(s)
    <3>1. PICK i \in 1 .. n - 1 : k = Len(s) + i
      <4>1. k - Len(s) \in 1 .. n - 1 /\ k = Len(s) + (k - Len(s))
        BY <1>1, <2>3
      <4> QED
        BY <4>1
    <3>2. i \in 1 .. n /\ i + 1 \in 1 .. n /\ k + 1 = Len(s) + (i + 1)
      BY <1>1, <3>1
    <3>3. t[Len(s) + i] = new[i] /\ t[Len(s) + (i + 1)] = new[i + 1]
      BY <1>1, <3>2
    <3>4. After(more, new[i], new[i + 1])
      BY <3>1
    <3> QED
      BY <3>1, <3>2, <3>3, <3>4
  <2> QED
    BY <1>1, <2>1, <2>2, <2>3
<1> QED
  BY <1>3, <1>4, <1>5 DEF Flow, t

\* The reader takes the byte that comes after its place.
LEMMA FlowTaken ==
  ASSUME NEW S, NEW bg, NEW nx, NEW s \in Seq(S), s # <<>>, NEW p, Flow(bg, nx, s, p)
  PROVE  After(bg, p, s[1]) /\ Flow(bg, nx, Tail(s), s[1])
<1>1. /\ Len(s) \in Nat \ {0} /\ Tail(s) \in Seq(S) /\ Len(Tail(s)) = Len(s) - 1
      /\ \A k \in 1 .. Len(s) - 1 : Tail(s)[k] = s[k + 1]
  BY HeadTailProperties
<1>2. /\ After(bg, p, s[1]) /\ LastWritten(bg, nx, s[Len(s)])
      /\ \A k \in 1 .. Len(s) - 1 : After(bg, s[k], s[k + 1])
  BY DEF Flow
<1>3. CASE Len(s) = 1
  <2> DEFINE t == Tail(s)
  <2>1. t \in Seq(S) /\ Len(t) = 0
    BY <1>1, <1>3
  <2> HIDE DEF t
  <2>2. t = <<>>
    BY <2>1
  <2>3. LastWritten(bg, nx, s[1]) /\ 1 .. Len(t) - 1 = {}
    BY <1>2, <1>3, <2>1
  <2> QED
    BY <1>2, <2>2, <2>3 DEF Flow, t
<1>4. CASE Len(s) > 1
  <2> DEFINE t == Tail(s)
  <2>1. Len(t) \in Nat \ {0} /\ Len(t) = Len(s) - 1 /\ \A k \in 1 .. Len(t) : t[k] = s[k + 1]
    BY <1>1, <1>4
  <2> HIDE DEF t
  <2>2. t # <<>>
    BY <2>1
  <2>3. After(bg, s[1], t[1])
    BY <1>2, <1>4, <2>1
  <2>4. LastWritten(bg, nx, t[Len(t)])
    <3>1. t[Len(t)] = s[Len(t) + 1] /\ Len(t) + 1 = Len(s)
      BY <1>1, <2>1
    <3> QED
      BY <1>2, <3>1
  <2>5. ASSUME NEW k \in 1 .. Len(t) - 1 PROVE After(bg, t[k], t[k + 1])
    <3>1. k + 1 \in 1 .. Len(s) - 1 /\ t[k] = s[k + 1] /\ t[k + 1] = s[(k + 1) + 1]
      BY <1>1, <2>1
    <3> QED
      BY <1>2, <3>1
  <2> QED
    BY <1>2, <2>2, <2>3, <2>4, <2>5 DEF Flow, t
<1> QED
  BY <1>1, <1>3, <1>4

\* A writer's bytes come after those that were written before.
LEMMA WritesFlow ==
  ASSUME WireTypeOK, Middle, InTurn, ~mixed', NEW w \in Writers, NEW j \in Nat, Writes(w, j),
         NEW p \in Place(begun), Flow(begun, next, wire, p)
  PROVE  Flow(begun', next', wire', p)
<1>1. PICK m \in 1 .. Len(begun') :
        /\ Put(w, m, j) /\ begun'[m] = Present(w)
        /\ IF next[w].i = 0 THEN m = Len(begun) + 1 /\ Len(begun') = Len(begun) + 1
           ELSE m = next[w].m /\ begun' = begun
  BY WritesBegun
<1>2. /\ Present(w) \in Message /\ next[w].i \in Nat /\ j > next[w].i /\ j <= Bytes(Present(w))
      /\ begun \in Seq(Message) /\ begun' \in Seq(Message) /\ Len(begun) \in Nat
      /\ Len(begun') \in Nat /\ Len(begun) <= Len(begun')
      /\ \A k \in 1 .. Len(begun) : begun'[k] = begun[k]
      /\ DOMAIN next = Writers /\ DOMAIN next' = Writers
  <2>1. /\ Present(w) \in Message /\ next[w].i \in Nat /\ j > next[w].i /\ j <= Bytes(Present(w))
        /\ begun' \in Seq(Message) /\ Len(begun) \in Nat
        /\ \A k \in 1 .. Len(begun) : begun'[k] = begun[k]
    BY WritesBegun
  <2>2. begun \in Seq(Message) /\ DOMAIN next = Writers /\ DOMAIN next' = Writers
    BY <1>1 DEF WireTypeOK, Put
  <2>3. Len(begun') \in Nat /\ Len(begun) <= Len(begun')
    BY <1>1, <2>1
  <2> QED
    BY <2>1, <2>2, <2>3
<1> DEFINE n == j - next[w].i
           new == [k \in 1 .. n |-> [m |-> m, i |-> next[w].i + k]]
<1>3. /\ wire' = wire \o new /\ Len(new) = n /\ n \in Nat \ {0}
      /\ new \in Seq(WireByte') /\ \A k \in 1 .. n : new[k] = [m |-> m, i |-> next[w].i + k]
  <2>1. /\ wire' = wire \o new /\ Len(new) = n /\ n \in Nat \ {0} /\ new \in Seq(WireByte')
    BY <1>1, <1>2, PutBytes
  <2> QED
    BY <2>1
<1>i. n = j - next[w].i /\ n > 0 /\ next[w].i + n = j /\ next[w].i + 1 > 0
      /\ \A k \in 1 .. n : next[w].i + k <= j
  BY <1>2
<1> HIDE DEF new, n
<1>4. new \in Seq(Place(begun')) /\ wire \in Seq(Place(begun))
  <2>1. WireByte' \subseteq Place(begun') /\ WireByte \subseteq Place(begun)
    BY <1>2 DEF WireByte, Place
  <2>2. wire \in Seq(WireByte)
    BY DEF WireTypeOK, WireByte
  <2> QED
    BY <1>3, <2>1, <2>2, SeqMonotonic
<1>5. m > 0 /\ End(begun', m) = Bytes(Present(w)) /\ m = Len(begun')
  <2>1. ~mixed /\ next[w].i > 0 => next[w].m = Len(begun)
    BY DEF InTurn
  <2>2. ~mixed
    BY <1>1, PutNext
  <2> QED
    BY <1>1, <1>2, <2>1, <2>2 DEF End
<1>o. \A v \in Writers : v # w => ~(next[v].i > 0) /\ next[v].i \in Nat /\ next'[v] = next[v]
  BY <1>1, PutNext DEF WireTypeOK
<1>6. ASSUME NEW a \in Place(begun), LastWritten(begun, next, a)
      PROVE  After(begun', a, new[1])
  <2>1. new[1] = [m |-> m, i |-> next[w].i + 1] /\ a.m = Len(begun)
    <3>1. 1 \in 1 .. n
      BY <1>3
    <3> QED
      BY <1>3, <1>6, <3>1 DEF LastWritten
  <2>2. CASE next[w].i = 0
    <3>1. a.i = End(begun, a.m) /\ m = a.m + 1 /\ a.m < Len(begun')
      BY <1>1, <1>2, <1>6, <1>o, <2>1, <2>2 DEF LastWritten
    <3>2. End(begun', a.m) = End(begun, a.m)
      BY <1>2, <2>1 DEF End
    <3> QED
      BY <2>1, <2>2, <3>1, <3>2 DEF After
  <2>3. CASE next[w].i # 0
    <3>1. a.i = next[w].i /\ m = a.m
      BY <1>1, <1>2, <1>5, <1>6, <1>o, <2>1, <2>3 DEF LastWritten
    <3>2. a.m > 0 /\ a.i < End(begun', a.m)
      BY <1>2, <1>5, <3>1, BytesType
    <3> QED
      BY <2>1, <3>1, <3>2 DEF After
  <2> QED
    BY <2>2, <2>3
<1>7. ASSUME NEW k \in 1 .. n - 1 PROVE After(begun', new[k], new[k + 1])
  <2>1. new[k] = [m |-> m, i |-> next[w].i + k] /\ new[k + 1] = [m |-> m, i |-> next[w].i + (k + 1)]
    <3>1. k \in 1 .. n /\ k + 1 \in 1 .. n
      BY <1>3
    <3> QED
      BY <1>3, <3>1
  <2>2. next[w].i + k < End(begun', m) /\ next[w].i + (k + 1) = (next[w].i + k) + 1
    <3>1. k + 1 \in 1 .. n
      BY <1>3
    <3>2. next[w].i + (k + 1) <= j
      BY <1>i, <3>1
    <3>3. Bytes(Present(w)) \in Nat
      BY <1>2, BytesType
    <3>4. k \in Nat /\ next[w].i \in Nat /\ j <= Bytes(Present(w))
      BY <1>2, <1>3
    <3> HIDE DEF Bytes
    <3>5. next[w].i + k < Bytes(Present(w)) /\ next[w].i + (k + 1) = (next[w].i + k) + 1
      BY <3>2, <3>3, <3>4
    <3> QED
      BY <1>5, <3>5
  <2> QED
    BY <1>5, <2>1, <2>2 DEF After
<1>8. LastWritten(begun', next', new[n])
  <2>1. new[n].m = m /\ new[n].i = j
    <3>1. n \in 1 .. n
      BY <1>3
    <3>2. new[n] = [m |-> m, i |-> next[w].i + n]
      BY <1>3, <3>1
    <3>3. new[n].m = m /\ new[n].i = next[w].i + n
      BY <3>2
    <3> QED
      BY <1>i, <3>3
  <2>2. CASE j = Bytes(Present(w))
    <3>1. next'[w].i = 0
      BY <1>1, <2>2, PutNext
    <3>2. \A v \in Writers : next'[v].i = 0
      BY <1>o, <3>1
    <3> QED
      BY <1>2, <1>5, <2>1, <2>2, <3>2 DEF LastWritten
  <2>3. CASE j # Bytes(Present(w))
    <3>1. next'[w].i = j /\ j > 0
      BY <1>1, <1>2, <2>3, PutNext
    <3> QED
      BY <1>2, <1>5, <2>1, <3>1 DEF LastWritten
  <2> QED
    BY <2>2, <2>3
<1>9. ASSUME NEW bg, NEW more, NEW s, NEW t, NEW nx, NEW later, NEW u, NEW k,
             bg = begun, more = begun', s = wire, t = new, nx = next, later = next', u = wire', k = n
      PROVE  Flow(more, later, u, p)
  <2>1. /\ bg \in Seq(Message) /\ more \in Seq(Message) /\ Len(bg) <= Len(more)
        /\ \A i \in 1 .. Len(bg) : more[i] = bg[i]
        /\ p \in Place(bg) /\ s \in Seq(Place(bg)) /\ Flow(bg, nx, s, p)
        /\ t \in Seq(Place(more)) /\ k \in Nat \ {0} /\ k = Len(t)
        /\ \A a \in Place(bg) : LastWritten(bg, nx, a) => After(more, a, t[1])
        /\ \A i \in 1 .. k - 1 : After(more, t[i], t[i + 1])
        /\ LastWritten(more, later, t[k])
    BY <1>2, <1>3, <1>4, <1>6, <1>7, <1>8, <1>9
  <2>2. Flow(more, later, s \o t, p)
    BY <2>1, FlowGrows
  <2> QED
    BY <1>3, <1>9, <2>2
<1> QED
  BY <1>9

-----------------------------------------------------------------------------
(* Framing: a reader's step takes it from its place to the next.           *)

\* What a length field says is at most the size of its message, and is that size
\* unless the message is too large.
LEMMA FieldType ==
  ASSUME WireTypeOK, NEW m \in 1 .. Len(begun)
  PROVE  /\ begun[m] \in Message /\ begun[m].size \in Nat \ {0}
         /\ Field(begun[m].size) \in Nat /\ Field(begun[m].size) <= begun[m].size
         /\ begun[m].size <= MAX_FRAME_SIZE => Field(begun[m].size) = begun[m].size
<1>1. begun[m] \in Message /\ begun[m].size \in Nat \ {0}
  BY BytesType DEF WireTypeOK
<1>2. /\ Base \in Nat /\ Base > 1 /\ MAX_FRAME_SIZE \in Nat
      /\ MAX_FRAME_SIZE < (Base - 1) * Base
  BY ScriptsAssumption
<1> DEFINE f == Base * Base
<1>3. f \in Nat \ {0} /\ MAX_FRAME_SIZE < f
  BY <1>2
<1> HIDE DEF f
<1>4. \A n \in Nat \ {0} : /\ (n % f) \in Nat /\ (n % f) <= n
                           /\ n <= MAX_FRAME_SIZE => (n % f) = n
  BY <1>2, <1>3
<1> QED
  BY <1>1, <1>4 DEF Field, f

\* What writers do does not move the reader.
LEMMA ReadingGrows ==
  ASSUME WireTypeOK, UNCHANGED reading, begun' \in Seq(Message), Len(begun) <= Len(begun'),
         \A k \in 1 .. Len(begun) : begun'[k] = begun[k],
         NEW p \in Place(begun), Reading(p), Torn(p)
  PROVE  p \in Place(begun') /\ Reading(p)' /\ Torn(p)'
<1>1. /\ reader' = reader /\ got' = got /\ want' = want /\ delivered' = delivered /\ tears' = tears
      /\ Len(begun) \in Nat /\ Len(begun') \in Nat /\ Len(delivered) \in Nat
      /\ p.m \in 0 .. Len(begun) /\ p.i \in Nat
  BY DEF reading, WireTypeOK, Place
<1>2. p.m > 0 => begun'[p.m] = begun[p.m]
  BY <1>1
<1>3. End(begun', p.m) = End(begun, p.m)
  BY <1>1, <1>2 DEF End
<1>4. p \in Place(begun')
  BY <1>1 DEF Place
<1>5. Reading(p)'
  <2> SUFFICES ASSUME tears = 0 PROVE Reading(p)'
    BY <1>1 DEF Reading
  <2>1. Len(delivered) <= Len(begun') /\ \A k \in DOMAIN delivered : delivered[k] = k
    BY <1>1 DEF Reading
  <2>2. reader = "length" =>
         IF got = <<>> THEN p.m = Len(delivered) /\ p.i = End(begun', p.m)
         ELSE got = <<p>> /\ p.m = Len(delivered) + 1 /\ p.i = 1
    BY <1>3 DEF Reading
  <2>3. reader = "body" =>
         /\ p.m = Len(delivered) + 1 /\ p.i = 2 + Len(got)
         /\ want = Field(begun'[p.m].size)
         /\ \A k \in DOMAIN got : got[k] = [m |-> p.m, i |-> 2 + k]
    BY <1>1, <1>2 DEF Reading
  <2>4. reader = "fd" =>
         p.m > 0 /\ p.m = Len(delivered) /\ begun'[p.m].fd /\ p.i = Bytes(begun'[p.m]) - 1
    BY <1>1, <1>2 DEF Reading
  <2> QED
    BY <1>1, <2>1, <2>2, <2>3, <2>4 DEF Reading
<1>6. Torn(p)'
  BY <1>1, <1>2 DEF Torn
<1> QED
  BY <1>4, <1>5, <1>6

\* The byte that the reader takes is the next one in the stream.
LEMMA Taking ==
  ASSUME WireTypeOK, wire # <<>>, wire' = Tail(wire), UNCHANGED writing,
         NEW p \in Place(begun), Flow(begun, next, wire, p)
  PROVE  \E b \in WireByte : /\ b = Byte /\ b \in Place(begun) /\ After(begun, p, b)
                             /\ Flow(begun', next', wire', b)
<1>1. /\ Byte \in WireByte /\ wire[1] = Byte /\ wire \in Seq(WireByte)
      /\ begun' = begun /\ next' = next
  BY Taken DEF WireTypeOK, WireByte, writing
<1>2. Byte \in Place(begun)
  BY <1>1 DEF WireByte, Place
<1>3. After(begun, p, wire[1]) /\ Flow(begun, next, Tail(wire), wire[1])
  <2> DEFINE S == WireByte
  <2>1. wire \in Seq(S)
    BY <1>1
  <2> HIDE DEF S
  <2> QED
    BY <2>1, FlowTaken
<1> QED
  BY <1>1, <1>2, <1>3

\* Inside a message the next byte is the message's next.
LEMMA Within ==
  ASSUME WireTypeOK, NEW p \in Place(begun), NEW b, After(begun, p, b), p.m > 0,
         p.i < End(begun, p.m)
  PROVE  b = [m |-> p.m, i |-> p.i + 1]
<1>1. End(begun, p.m) \in Nat /\ p.i \in Nat
  BY EndType DEF WireTypeOK, Place
<1> QED
  BY <1>1 DEF After

\* Where a reader is that there is, and may be from one step to the next.
Somewhere == \E p \in Place(begun) : Flow(begun, next, wire, p) /\ Reading(p) /\ Torn(p)

LEMMA ReadLengthPlace ==
  ASSUME WireTypeOK, ReadLength, Somewhere
  PROVE  Somewhere'
<1>1. PICK p \in Place(begun) : Flow(begun, next, wire, p) /\ Reading(p) /\ Torn(p)
  BY DEF Somewhere
<1>2. /\ wire # <<>> /\ wire' = Tail(wire) /\ reader = "length" /\ delivered' = delivered
      /\ UNCHANGED writing /\ tears' = tears /\ begun' = begun
  <2>1. wire # <<>> /\ wire' = Tail(wire) /\ reader = "length" /\ delivered' = delivered
    BY DEF ReadLength
  <2>2. UNCHANGED writing
    BY ReaderWriting DEF ReaderStep
  <2>3. tears' = tears
    BY DEF ReadLength, Reads
  <2> QED
    BY <2>1, <2>2, <2>3 DEF writing
<1>3. PICK b \in WireByte : /\ b = Byte /\ b \in Place(begun) /\ After(begun, p, b)
                            /\ Flow(begun', next', wire', b)
  BY <1>1, <1>2, Taking
<1>4. /\ p.m \in 0 .. Len(begun) /\ p.i \in Nat /\ Len(begun) \in Nat /\ begun \in Seq(Message)
      /\ Len(delivered) \in Nat /\ b.m \in 1 .. Len(begun) /\ got \in Seq(WireByte)
      /\ tears \in 0 .. 2
  BY DEF WireTypeOK, Place, WireByte
<1>5. /\ End(begun, p.m) \in Nat
      /\ p.m > 0 => begun[p.m].size \in Nat \ {0} /\ End(begun, p.m) >= 2 + begun[p.m].size
  BY <1>4, EndType
<1> DEFINE length == Digit(got[1]) * Base + Digit(b)
<1> SUFFICES Reading(b)' /\ Torn(b)'
  BY <1>2, <1>3 DEF Somewhere
<1>6. CASE got = <<>>
  <2>1. reader' = "length" /\ got' = <<b>>
    BY <1>3, <1>6 DEF ReadLength, Reads
  <2>2. got' # <<>>
    BY <2>1
  <2>3. Reading(b)'
    <3> SUFFICES ASSUME tears = 0 PROVE Reading(b)'
      BY <1>2 DEF Reading
    <3>1. /\ Len(delivered) <= Len(begun) /\ \A k \in DOMAIN delivered : delivered[k] = k
          /\ p.m = Len(delivered) /\ p.i = End(begun, p.m)
      BY <1>1, <1>2, <1>6 DEF Reading
    <3>2. b = [m |-> p.m + 1, i |-> 1]
      BY <1>3, <1>5, <3>1 DEF After
    <3>3. b.m = Len(delivered) + 1 /\ b.i = 1
      BY <3>1, <3>2
    <3> QED
      BY <1>2, <2>1, <2>2, <3>1, <3>3 DEF Reading
  <2>4. Torn(b)'
    <3> SUFFICES ASSUME tears = 1 PROVE Torn(b)'
      BY <1>2 DEF Torn
    <3>1. p.m > 0 /\ p.i \in 1 .. 1 + begun[p.m].size
      BY <1>1, <1>2, <1>6 DEF Torn
    <3>2. b = [m |-> p.m, i |-> p.i + 1]
      BY <1>3, <1>4, <1>5, <3>1, Within
    <3>3. b.m > 0 /\ b.i \in 2 .. 2 + begun[b.m].size
      BY <1>4, <1>5, <3>1, <3>2
    <3> QED
      BY <1>2, <2>1, <2>2, <3>3 DEF Torn
  <2> QED
    BY <2>3, <2>4
<1>7. CASE got # <<>>
  <2>1. got[1] \in WireByte
    BY <1>4, <1>7
  <2>2. length \in Nat
    BY <2>1, Length
  <2>3. got' = <<>> /\ \/ reader' = "failed" /\ length > MAX_FRAME_SIZE
                       \/ reader' = "body" /\ want' = length /\ ~(length > MAX_FRAME_SIZE)
    BY <1>3, <1>7 DEF ReadLength, Reads
  <2> HIDE DEF length
  <2>4. Len(got') = 0 /\ DOMAIN got' = {}
    BY <2>3
  <2>5. Reading(b)'
    <3> SUFFICES ASSUME tears = 0 PROVE Reading(b)'
      BY <1>2 DEF Reading
    <3>1. /\ Len(delivered) <= Len(begun) /\ \A k \in DOMAIN delivered : delivered[k] = k
          /\ got = <<p>> /\ p.m = Len(delivered) + 1 /\ p.i = 1
      BY <1>1, <1>2, <1>7 DEF Reading
    <3>2. b = [m |-> p.m, i |-> 2]
      BY <1>3, <1>4, <1>5, <3>1, Within
    <3>3. got[1] = p
      BY <3>1
    <3>4. length = Field(begun[p.m].size)
      BY <2>1, <3>1, <3>2, <3>3, Length DEF length
    <3>5. b.m = p.m /\ b.i = 2
      BY <3>2
    <3>6. reader' = "body" => /\ b.m = Len(delivered') + 1 /\ b.i = 2 + Len(got')
                              /\ want' = Field(begun'[b.m].size)
      BY <1>2, <2>3, <2>4, <3>1, <3>4, <3>5
    <3>7. reader' # "length" /\ reader' # "fd"
      BY <2>3
    <3> QED
      BY <1>2, <2>4, <3>1, <3>6, <3>7 DEF Reading
  <2>6. Torn(b)'
    <3> SUFFICES ASSUME tears = 1 PROVE Torn(b)'
      BY <1>2 DEF Torn
    <3>1. p.m > 0 /\ got = <<p>> /\ p.i \in 2 .. 2 + begun[p.m].size
      BY <1>1, <1>2, <1>7 DEF Torn
    <3>2. got[1] = p
      BY <3>1
    <3>3. CASE p.i > 2
      <4>1. p.i \in 3 .. 2 + begun[p.m].size
        BY <1>4, <1>5, <3>1, <3>3
      <4>2. length > MAX_FRAME_SIZE
        BY <2>1, <3>2, <4>1, Length DEF length
      <4>3. reader' = "failed"
        BY <2>3, <4>2
      <4> QED
        BY <4>3 DEF Torn
    <3>4. CASE p.i = 2
      <4>1. b = [m |-> p.m, i |-> 3]
        BY <1>3, <1>4, <1>5, <3>1, <3>4, Within
      <4>2. b.m > 0 /\ b.i = 3 /\ b.i \in 3 .. 2 + begun[b.m].size
        BY <1>4, <1>5, <3>1, <4>1
      <4>3. length > 0
        BY <2>1, <4>2, Length DEF length
      <4>4. reader' # "length" /\ reader' # "fd" /\ (reader' = "body" => want' > 0)
        BY <2>3, <4>3
      <4> QED
        BY <2>3, <4>2, <4>4 DEF Torn
    <3> QED
      BY <3>1, <3>3, <3>4
  <2> QED
    BY <2>5, <2>6
<1> QED
  BY <1>6, <1>7

LEMMA ReadBodyPlace ==
  ASSUME WireTypeOK, ReadBody, Somewhere
  PROVE  Somewhere'
<1>1. PICK p \in Place(begun) : Flow(begun, next, wire, p) /\ Reading(p) /\ Torn(p)
  BY DEF Somewhere
<1>2. /\ wire # <<>> /\ wire' = Tail(wire) /\ reader = "body" /\ delivered' = delivered
      /\ UNCHANGED writing /\ tears' = tears /\ begun' = begun /\ reader' = "body"
      /\ Len(got) < want /\ want' = want /\ got' = Append(got, Byte)
  BY DEF ReadBody, Reads, writing
<1>3. PICK b \in WireByte : /\ b = Byte /\ b \in Place(begun) /\ After(begun, p, b)
                            /\ Flow(begun', next', wire', b)
  BY <1>1, <1>2, Taking
<1>4. /\ p.m \in 0 .. Len(begun) /\ p.i \in Nat /\ Len(begun) \in Nat /\ begun \in Seq(Message)
      /\ Len(delivered) \in Nat /\ got \in Seq(WireByte) /\ Len(got) \in Nat /\ want \in Nat
      /\ DOMAIN got = 1 .. Len(got)
  BY ScriptsAssumption DEF WireTypeOK, Place, WireByte
<1>5. /\ got' \in Seq(WireByte) /\ Len(got') = Len(got) + 1 /\ got'[Len(got) + 1] = b
      /\ \A k \in 1 .. Len(got) : got'[k] = got[k]
      /\ DOMAIN got' = 1 .. Len(got) + 1
  <2>1. got' = Append(got, b)
    BY <1>2, <1>3
  <2> QED
    BY <1>4, <2>1, AppendProperties
<1> SUFFICES Reading(b)' /\ Torn(b)'
  BY <1>2, <1>3 DEF Somewhere
<1>6. Reading(b)'
  <2> SUFFICES ASSUME tears = 0 PROVE Reading(b)'
    BY <1>2 DEF Reading
  <2>1. /\ Len(delivered) <= Len(begun) /\ \A k \in DOMAIN delivered : delivered[k] = k
        /\ p.m = Len(delivered) + 1 /\ p.i = 2 + Len(got) /\ want = Field(begun[p.m].size)
        /\ \A k \in DOMAIN got : got[k] = [m |-> p.m, i |-> 2 + k]
    BY <1>1, <1>2 DEF Reading
  <2>2. p.m \in 1 .. Len(begun) /\ p.m > 0
    BY <1>4, <2>1
  <2>3. want <= begun[p.m].size /\ begun[p.m].size \in Nat
    BY <2>1, <2>2, FieldType
  <2>4. End(begun, p.m) >= 2 + begun[p.m].size /\ End(begun, p.m) \in Nat
    BY <1>4, <2>2, EndType
  <2>5. p.i < End(begun, p.m)
    BY <1>2, <1>4, <2>1, <2>3, <2>4
  <2>6. b = [m |-> p.m, i |-> p.i + 1]
    BY <1>3, <2>2, <2>5, Within
  <2>7. b.m = p.m /\ b.i = 2 + (Len(got) + 1)
    BY <1>4, <2>1, <2>6
  <2>8. \A k \in DOMAIN got' : got'[k] = [m |-> b.m, i |-> 2 + k]
    <3> SUFFICES ASSUME NEW k \in 1 .. Len(got) + 1 PROVE got'[k] = [m |-> b.m, i |-> 2 + k]
      BY <1>5
    <3>1. CASE k \in 1 .. Len(got)
      BY <1>4, <1>5, <2>1, <2>7, <3>1
    <3>2. CASE k = Len(got) + 1
      <4>1. b = [m |-> b.m, i |-> 2 + (Len(got) + 1)]
        BY <2>6, <2>7
      <4> QED
        BY <1>5, <3>2, <4>1
    <3> QED
      BY <1>4, <3>1, <3>2
  <2> QED
    BY <1>2, <1>5, <2>1, <2>7, <2>8 DEF Reading
<1>7. Torn(b)'
  <2> SUFFICES ASSUME tears = 1 PROVE Torn(b)'
    BY <1>2 DEF Torn
  <2>1. want > 0 /\ IF got = <<>> THEN p.m > 0 /\ p.i = 3 ELSE got[1].i # 3
    BY <1>1, <1>2 DEF Torn
  <2>2. got' # <<>>
    BY <1>4, <1>5
  <2>3. got'[1].i # 3
    <3>1. CASE got = <<>>
      <4>1. Len(got) = 0 /\ got'[1] = b
        BY <1>5, <3>1
      <4>2. b = [m |-> p.m, i |-> 4] \/ b = [m |-> p.m + 1, i |-> 1]
        BY <1>3, <2>1, <3>1 DEF After
      <4> QED
        BY <4>1, <4>2
    <3>2. CASE got # <<>>
      <4>1. 1 \in 1 .. Len(got)
        BY <1>4, <3>2
      <4> QED
        BY <1>5, <2>1, <3>2, <4>1
    <3> QED
      BY <3>1, <3>2
  <2> QED
    BY <1>2, <2>1, <2>2, <2>3 DEF Torn
<1> QED
  BY <1>6, <1>7

LEMMA BodyPlace ==
  ASSUME WireTypeOK, Body, Somewhere
  PROVE  Somewhere'
<1>1. PICK p \in Place(begun) : Flow(begun, next, wire, p) /\ Reading(p) /\ Torn(p)
  BY DEF Somewhere
<1>2. /\ reader = "body" /\ Len(got) = want /\ UNCHANGED writing
      /\ \/ /\ IsMessage(got) /\ delivered' = Append(delivered, got[1].m)
            /\ reader' = IF begun[got[1].m].fd THEN "fd" ELSE "length"
         \/ ~IsMessage(got) /\ reader' = "failed" /\ delivered' = delivered
      /\ got' = <<>> /\ tears' = tears /\ wire' = wire
  BY DEF Body, Reads
<1>3. /\ begun' = begun /\ next' = next /\ wire' = wire
      /\ p.m \in 0 .. Len(begun) /\ p.i \in Nat /\ Len(begun) \in Nat /\ begun \in Seq(Message)
      /\ Len(delivered) \in Nat /\ delivered \in Seq(1 .. Len(begun))
      /\ DOMAIN delivered = 1 .. Len(delivered)
  BY <1>2 DEF WireTypeOK, Place, writing
<1> SUFFICES Reading(p)' /\ Torn(p)'
  BY <1>1, <1>3 DEF Somewhere
<1>4. Reading(p)'
  <2> SUFFICES ASSUME tears = 0 PROVE Reading(p)'
    BY <1>2 DEF Reading
  <2>1. /\ Len(delivered) <= Len(begun) /\ \A k \in DOMAIN delivered : delivered[k] = k
        /\ p.m = Len(delivered) + 1 /\ p.i = 2 + Len(got)
        /\ \A k \in DOMAIN got : got[k] = [m |-> p.m, i |-> 2 + k]
    BY <1>1, <1>2 DEF Reading
  <2>2. CASE IsMessage(got)
    <3>1. got # <<>> /\ Len(got) = begun[got[1].m].size /\ 1 \in DOMAIN got
      BY <2>2 DEF IsMessage, WireTypeOK
    <3>2. got[1].m = p.m
      BY <2>1, <3>1
    <3>3. p.m > 0 /\ p.m \in 1 .. Len(begun) /\ begun[p.m].fd \in BOOLEAN
          /\ End(begun, p.m) = begun[p.m].size + (IF begun[p.m].fd THEN 3 ELSE 2)
          /\ End(begun, p.m) = Bytes(begun[p.m]) /\ begun[p.m].size \in Nat
      BY <1>3, <2>1, EndType DEF End
    <3>4. delivered' = Append(delivered, p.m)
      BY <1>2, <2>2, <3>2
    <3>5. /\ Len(delivered') = p.m /\ DOMAIN delivered' = 1 .. p.m
          /\ \A k \in DOMAIN delivered' : delivered'[k] = k
      <4>1. /\ delivered' \in Seq(1 .. Len(begun)) /\ Len(delivered') = Len(delivered) + 1
            /\ delivered'[Len(delivered) + 1] = p.m
            /\ \A k \in 1 .. Len(delivered) : delivered'[k] = delivered[k]
        BY <1>3, <3>3, <3>4, AppendProperties
      <4>2. DOMAIN delivered' = 1 .. p.m /\ Len(delivered') = p.m
        BY <1>3, <2>1, <4>1
      <4>3. ASSUME NEW k \in 1 .. p.m PROVE delivered'[k] = k
        <5>1. k \in 1 .. Len(delivered) \/ k = p.m
          BY <1>3, <2>1
        <5>2. CASE k \in 1 .. Len(delivered)
          <6>1. delivered'[k] = delivered[k] /\ delivered[k] = k
            BY <1>3, <2>1, <4>1, <5>2
          <6> QED
            BY <6>1
        <5>3. CASE k = p.m
          BY <2>1, <4>1, <5>3
        <5> QED
          BY <5>1, <5>2, <5>3
      <4> QED
        BY <4>2, <4>3
    <3>6. p.i = 2 + begun[p.m].size
      BY <2>1, <3>1, <3>2
    <3>7. /\ begun[p.m].fd => reader' = "fd" /\ p.i = Bytes(begun[p.m]) - 1
          /\ ~begun[p.m].fd => reader' = "length" /\ p.i = End(begun, p.m)
      <4>1. reader' = IF begun[p.m].fd THEN "fd" ELSE "length"
        BY <1>2, <2>2, <3>2
      <4>2. begun[p.m].fd => p.i = Bytes(begun[p.m]) - 1
        BY <3>3, <3>6
      <4>3. ~begun[p.m].fd => p.i = End(begun, p.m)
        BY <3>3, <3>6
      <4> QED
        BY <4>1, <4>2, <4>3
    <3> QED
      BY <1>2, <1>3, <3>3, <3>5, <3>7 DEF Reading
  <2>3. CASE ~IsMessage(got)
    BY <1>2, <1>3, <2>1, <2>3 DEF Reading
  <2> QED
    BY <2>2, <2>3
<1>5. Torn(p)'
  <2> SUFFICES ASSUME tears = 1 PROVE Torn(p)'
    BY <1>2 DEF Torn
  <2>1. want > 0 /\ (got # <<>> => got[1].i # 3)
    BY <1>1, <1>2 DEF Torn
  <2>2. ~IsMessage(got)
    <3>1. ASSUME IsMessage(got) PROVE FALSE
      <4>1. got # <<>> /\ 1 \in DOMAIN got
        BY <3>1 DEF IsMessage, WireTypeOK
      <4>2. got[1] = [m |-> got[1].m, i |-> 3]
        BY <3>1, <4>1 DEF IsMessage
      <4> QED
        BY <2>1, <4>1, <4>2
    <3> QED
      BY <3>1
  <2> QED
    BY <1>2, <2>2 DEF Torn
<1> QED
  BY <1>4, <1>5

LEMMA RecvFdPlace ==
  ASSUME WireTypeOK, RecvFd, Somewhere
  PROVE  Somewhere'
<1>1. PICK p \in Place(begun) : Flow(begun, next, wire, p) /\ Reading(p) /\ Torn(p)
  BY DEF Somewhere
<1>2. /\ wire # <<>> /\ wire' = Tail(wire) /\ reader = "fd" /\ delivered' = delivered
      /\ UNCHANGED writing /\ tears' = tears /\ begun' = begun /\ reader' \in {"ended", "failed"}
  BY DEF RecvFd, Reads, writing
<1>3. PICK b \in WireByte : /\ b = Byte /\ b \in Place(begun) /\ After(begun, p, b)
                            /\ Flow(begun', next', wire', b)
  BY <1>1, <1>2, Taking
<1>4. Reading(b)' /\ Torn(b)'
  BY <1>1, <1>2 DEF Reading, Torn
<1> QED
  BY <1>2, <1>3, <1>4 DEF Somewhere

LEMMA EndOfStreamPlace ==
  ASSUME WireTypeOK, EndOfStream, Somewhere
  PROVE  Somewhere'
<1>1. PICK p \in Place(begun) : Flow(begun, next, wire, p) /\ Reading(p) /\ Torn(p)
  BY DEF Somewhere
<1>2. /\ wire' = wire /\ delivered' = delivered /\ next' = next
      /\ tears' = tears /\ begun' = begun /\ reader' \in {"ended", "failed"}
  BY DEF EndOfStream, Reads, writing
<1>3. Reading(p)' /\ Torn(p)'
  BY <1>1, <1>2 DEF Reading, Torn
<1> QED
  BY <1>1, <1>2, <1>3 DEF Somewhere

LEMMA TimeoutPlace ==
  ASSUME WireTypeOK, Timeout, Somewhere
  PROVE  Somewhere'
<1>1. PICK p \in Place(begun) : Flow(begun, next, wire, p) /\ Reading(p) /\ Torn(p)
  BY DEF Somewhere
<1>2. /\ wire' = wire /\ delivered' = delivered /\ next' = next /\ begun' = begun
      /\ \/ reader = "length"
         \/ reader = "body" /\ Len(got) < want
         \/ reader = "fd"
      /\ reader' = IF reader = "fd" THEN "failed" ELSE "length"
      /\ tears' = IF (reader = "body" \/ got # <<>>) /\ tears < 2 THEN tears + 1 ELSE tears
      /\ got' = <<>> /\ want' = 0
  BY DEF Timeout, writing
<1>3. /\ p.m \in 0 .. Len(begun) /\ p.i \in Nat /\ Len(begun) \in Nat /\ begun \in Seq(Message)
      /\ Len(delivered) \in Nat /\ Len(got) \in Nat /\ tears \in 0 .. 2 /\ want \in Nat
  BY ScriptsAssumption DEF WireTypeOK, Place
<1> SUFFICES Reading(p)' /\ Torn(p)'
  BY <1>1, <1>2 DEF Somewhere
<1>4. Reading(p)'
  <2> SUFFICES ASSUME tears' = 0 PROVE Reading(p)'
    BY DEF Reading
  <2>1. tears = 0 /\ reader # "body" /\ got = <<>>
    BY <1>2, <1>3
  <2> QED
    BY <1>1, <1>2, <2>1 DEF Reading
<1>5. Torn(p)'
  <2> SUFFICES ASSUME tears' = 1, reader' = "length"
               PROVE  p.m > 0 /\ p.i \in 1 .. 1 + begun[p.m].size
    BY <1>2 DEF Torn
  <2>1. CASE tears = 1
    <3>1. reader = "length" /\ got = <<>>
      BY <1>2, <2>1
    <3> QED
      BY <1>1, <2>1, <3>1 DEF Torn
  <2>2. CASE tears # 1
    <3>1. tears = 0 /\ (reader = "body" \/ (reader = "length" /\ got # <<>>))
      BY <1>2, <1>3, <2>2
    <3>2. p.m = Len(delivered) + 1 /\ p.m \in 1 .. Len(begun) /\ p.m > 0
      BY <1>1, <1>3, <3>1 DEF Reading
    <3>3. begun[p.m].size \in Nat \ {0} /\ Field(begun[p.m].size) <= begun[p.m].size
          /\ Field(begun[p.m].size) \in Nat
      BY <3>2, FieldType
    <3>4. CASE reader = "length"
      <4>1. p.i = 1
        BY <1>1, <3>1, <3>4 DEF Reading
      <4> QED
        BY <3>2, <3>3, <4>1
    <3>5. CASE reader = "body"
      <4>1. p.i = 2 + Len(got) /\ Len(got) < Field(begun[p.m].size)
        BY <1>1, <1>2, <3>1, <3>5 DEF Reading
      <4> QED
        BY <1>3, <3>2, <3>3, <4>1
    <3> QED
      BY <3>1, <3>4, <3>5
  <2> QED
    BY <2>1, <2>2
<1> QED
  BY <1>4, <1>5

LEMMA ReaderPlace ==
  ASSUME WireTypeOK, ReaderStep, Somewhere
  PROVE  Somewhere'
BY ReadLengthPlace, ReadBodyPlace, BodyPlace, RecvFdPlace, EndOfStreamPlace, TimeoutPlace
   DEF ReaderStep

LEMMA WritesPlace ==
  ASSUME WireTypeOK, Middle, InTurn, ~mixed', NEW w \in Writers, NEW j \in Nat, Writes(w, j), Somewhere
  PROVE  Somewhere'
<1>1. PICK p \in Place(begun) : Flow(begun, next, wire, p) /\ Reading(p) /\ Torn(p)
  BY DEF Somewhere
<1>2. Flow(begun', next', wire', p)
  BY <1>1, WritesFlow
<1>3. /\ begun' \in Seq(Message) /\ Len(begun) <= Len(begun')
      /\ \A k \in 1 .. Len(begun) : begun'[k] = begun[k]
  BY WritesBegun
<1>4. UNCHANGED reading
  BY WritesBegun, PutNext
<1> QED
  BY <1>1, <1>2, <1>3, <1>4, ReadingGrows DEF Somewhere

-----------------------------------------------------------------------------
(* Framing: what the end of the reader says.                               *)

\* Writers do not undo an end.
LEMMA WritesEnding ==
  ASSUME WireTypeOK, Middle, Single, FdIsLast, Ending, NEW w \in Writers, NEW j \in Nat, Writes(w, j)
  PROVE  Ending'
<1>1. PICK n \in 1 .. Len(begun') :
        /\ Put(w, n, j)
        /\ IF next[w].i = 0 THEN n = Len(begun) + 1 /\ Len(begun') = Len(begun) + 1
           ELSE n = next[w].m /\ begun' = begun
  BY WritesBegun
<1>2. /\ begun \in Seq(Message) /\ begun' \in Seq(Message) /\ Len(begun) \in Nat
      /\ Len(begun) <= Len(begun') /\ Len(begun') \in Nat
      /\ DOMAIN begun = 1 .. Len(begun) /\ DOMAIN begun' = 1 .. Len(begun')
      /\ \A k \in 1 .. Len(begun) : begun'[k] = begun[k]
  <2>1. /\ begun \in Seq(Message) /\ begun' \in Seq(Message) /\ Len(begun) \in Nat
        /\ \A k \in 1 .. Len(begun) : begun'[k] = begun[k]
    BY WritesBegun DEF WireTypeOK
  <2> QED
    BY <1>1, <2>1
<1>3. /\ open /\ open' = open /\ reader' = reader /\ delivered' = delivered /\ tears' = tears
      /\ script' = script /\ next[w].n <= Len(script.writes[w]) /\ (mixed => mixed')
  BY <1>1, PutNext DEF Writes, Has, reading
<1>4. Unbroken' => Unbroken
  <2> SUFFICES ASSUME ~mixed', tears' = 0, \A m \in DOMAIN begun' : begun'[m].size <= MAX_FRAME_SIZE
               PROVE  Unbroken
    BY DEF Unbroken
  <2>1. ASSUME NEW k \in 1 .. Len(begun) PROVE begun[k].size <= MAX_FRAME_SIZE
    <3>1. k \in DOMAIN begun' /\ begun'[k] = begun[k]
      BY <1>2
    <3> QED
      BY <3>1
  <2> QED
    BY <1>2, <1>3, <2>1 DEF Unbroken
<1>5. (\E m \in DOMAIN begun : begun[m].fd) => (\E m \in DOMAIN begun' : begun'[m].fd)
  <2> SUFFICES ASSUME NEW k \in 1 .. Len(begun), begun[k].fd PROVE \E m \in DOMAIN begun' : begun'[m].fd
    BY <1>2
  <2>1. k \in DOMAIN begun' /\ begun'[k].fd
    BY <1>2
  <2> QED
    BY <2>1
<1>6. (\E m \in DOMAIN begun : begun[m].fd) => Len(begun') = Len(begun)
  <2> SUFFICES ASSUME NEW k \in 1 .. Len(begun), begun[k].fd PROVE Len(begun') = Len(begun)
    BY <1>2
  <2>1. Len(script.writes) = 1 /\ k = Len(script.writes[1])
    BY <1>2 DEF FdIsLast
  <2>2. w = 1
    BY <2>1, ScriptType
  <2>3. Len(begun) <= k /\ (next[1].i = 0 => next[1].n = Len(begun) + 1)
    BY <1>2, <2>1 DEF Single
  <2>4. next[1].n <= k
    BY <1>3, <2>1, <2>2
  <2>5. next[1].i # 0
    BY <1>2, <2>3, <2>4
  <2> QED
    BY <1>1, <2>2, <2>5
<1> SUFFICES ASSUME Unbroken
             PROVE  /\ reader = "ended" => Len(delivered) = Len(begun') /\ \E m \in DOMAIN begun' : begun'[m].fd
                    /\ reader = "failed" => script.timed /\ \E m \in DOMAIN begun' : begun'[m].fd
  BY <1>3, <1>4 DEF Ending
<1>7. /\ reader = "ended" => Len(delivered) = Len(begun) /\ \E m \in DOMAIN begun : begun[m].fd
      /\ reader = "failed" => script.timed /\ \E m \in DOMAIN begun : begun[m].fd
  BY <1>3 DEF Ending, CutOff
<1> QED
  BY <1>5, <1>6, <1>7

\* Nor does the close.
LEMMA CloseEnding == ASSUME WireTypeOK, Ending, CloseWire PROVE Ending'
<1>1. /\ open /\ ~open' /\ UNCHANGED <<script, next, begun, mixed, reader, delivered, tears>>
  BY DEF CloseWire, reading
<1>2. Unbroken' = Unbroken
  BY <1>1 DEF Unbroken
<1> SUFFICES ASSUME Unbroken PROVE Ending'
  BY <1>2 DEF Ending
<1>3. /\ reader = "ended" => Len(delivered) = Len(begun) /\ \E m \in DOMAIN begun : begun[m].fd
      /\ reader = "failed" => script.timed /\ \E m \in DOMAIN begun : begun[m].fd
  BY <1>1 DEF Ending, CutOff
<1> QED
  BY <1>1, <1>3 DEF Ending

\* A reader in step ends where its messages do, or where a writer was cut off.
LEMMA ReaderEnding ==
  ASSUME WireTypeOK, Single, FdIsLast, ReaderStep, Somewhere, Unbroken,
         reader' \in {"ended", "failed"}
  PROVE  /\ reader' = "ended" =>
              \/ ~open /\ (CutOff \/ Len(delivered') = Len(begun))
              \/ Len(delivered') = Len(begun) /\ \E m \in DOMAIN begun : begun[m].fd
         /\ reader' = "failed" => CutOff \/ (script.timed /\ \E m \in DOMAIN begun : begun[m].fd)
<1>1. PICK p \in Place(begun) : Flow(begun, next, wire, p) /\ Reading(p)
  BY DEF Somewhere
<1>2. /\ p.m \in 0 .. Len(begun) /\ p.i \in Nat /\ Len(begun) \in Nat /\ begun \in Seq(Message)
      /\ DOMAIN begun = 1 .. Len(begun) /\ DOMAIN next = Writers
      /\ Len(delivered) \in Nat /\ Len(got) \in Nat /\ want \in Nat /\ got \in Seq(WireByte)
  BY ScriptsAssumption DEF WireTypeOK, Place, WireByte
<1>3. tears = 0 /\ Len(delivered) <= Len(begun)
  BY <1>1 DEF Unbroken, Reading
<1>4. /\ End(begun, p.m) \in Nat
      /\ p.m > 0 => /\ begun[p.m].size \in Nat \ {0} /\ begun[p.m].size <= MAX_FRAME_SIZE
                    /\ Field(begun[p.m].size) = begun[p.m].size
                    /\ End(begun, p.m) = begun[p.m].size + (IF begun[p.m].fd THEN 3 ELSE 2)
                    /\ End(begun, p.m) = Bytes(begun[p.m])
                    /\ begun[p.m].fd \in BOOLEAN
  <2>1. p.m > 0 => p.m \in 1 .. Len(begun) /\ p.m \in DOMAIN begun /\ p.m # 0
    BY <1>2
  <2>2. p.m > 0 => begun[p.m].size <= MAX_FRAME_SIZE
    BY <2>1 DEF Unbroken
  <2>3. p.m > 0 => Field(begun[p.m].size) = begun[p.m].size
    BY <2>1, <2>2, FieldType
  <2>4. p.m > 0 => End(begun, p.m) = Bytes(begun[p.m])
    BY <2>1 DEF End
  <2> QED
    BY <1>2, <2>2, <2>3, <2>4, EndType
<1>fd. ASSUME reader = "fd"
       PROVE  /\ p.m > 0 /\ p.m = Len(delivered) /\ begun[p.m].fd /\ p.i = End(begun, p.m) - 1
              /\ p.i = 2 + begun[p.m].size /\ Len(delivered) = Len(begun)
              /\ \E m \in DOMAIN begun : begun[m].fd
  <2>1. p.m > 0 /\ p.m = Len(delivered) /\ begun[p.m].fd /\ p.i = Bytes(begun[p.m]) - 1
    BY <1>1, <1>3, <1>fd DEF Reading
  <2>2. p.m \in DOMAIN begun
    BY <1>2, <2>1
  <2>3. Len(script.writes) = 1 /\ p.m = Len(script.writes[1])
    BY <2>1, <2>2 DEF FdIsLast
  <2>4. Len(begun) <= p.m
    BY <2>3 DEF Single
  <2>5. p.i = 2 + begun[p.m].size
    BY <1>4, <2>1
  <2> QED
    BY <1>2, <1>4, <2>1, <2>2, <2>4, <2>5
<1>body. ASSUME reader = "body"
         PROVE  /\ p.m > 0 /\ p.i = 2 + Len(got) /\ want = begun[p.m].size
                /\ \A k \in DOMAIN got : got[k] = [m |-> p.m, i |-> 2 + k]
  <2>1. /\ p.m = Len(delivered) + 1 /\ p.i = 2 + Len(got) /\ want = Field(begun[p.m].size)
        /\ \A k \in DOMAIN got : got[k] = [m |-> p.m, i |-> 2 + k]
    BY <1>1, <1>3, <1>body DEF Reading
  <2>2. p.m > 0
    BY <1>2, <2>1
  <2> QED
    BY <1>4, <2>1, <2>2
<1>cut. ASSUME ~open, wire = <<>>, p.i # End(begun, p.m) PROVE CutOff
  <2>1. LastWritten(begun, next, p)
    BY <1>1, <1>cut DEF Flow
  <2> QED
    BY <1>2, <1>cut, <2>1 DEF LastWritten, CutOff
<1>5. CASE ReadLength
  <2>1. reader = "length" /\ got # <<>> /\ wire # <<>> /\ wire' = Tail(wire) /\ UNCHANGED writing
    BY <1>5 DEF ReadLength, Reads
  <2>2. PICK b \in WireByte : b = Byte /\ After(begun, p, b)
    BY <1>1, <2>1, Taking
  <2>3. Digit(got[1]) * Base + Digit(b) > MAX_FRAME_SIZE
    BY <1>5, <2>1, <2>2 DEF ReadLength, Reads
  <2>4. got = <<p>> /\ p.m = Len(delivered) + 1 /\ p.i = 1
    BY <1>1, <1>3, <2>1 DEF Reading
  <2>5. p.m > 0 /\ got[1] = p /\ got[1] \in WireByte
    BY <1>2, <2>1, <2>4
  <2>6. p.i < End(begun, p.m)
    BY <1>4, <2>4, <2>5
  <2>7. b = [m |-> p.m, i |-> 2]
    BY <2>2, <2>4, <2>5, <2>6, Within
  <2>8. Digit(got[1]) * Base + Digit(b) = Field(begun[p.m].size)
    BY <2>4, <2>5, <2>7, Length
  <2>9. MAX_FRAME_SIZE \in Nat
    BY ScriptsAssumption
  <2> QED
    BY <1>4, <2>3, <2>5, <2>8, <2>9
<1>6. CASE ReadBody
  BY <1>6 DEF ReadBody, Reads
<1>7. CASE Body
  <2>1. reader = "body" /\ Len(got) = want
    BY <1>7 DEF Body
  <2>2. Len(got) = begun[p.m].size /\ p.m > 0
    BY <1>body, <2>1
  <2>3. got # <<>> /\ 1 \in DOMAIN got
    BY <1>2, <1>4, <2>2
  <2>4. got[1].m = p.m
    BY <1>body, <2>1, <2>3
  <2>5. IsMessage(got)
    BY <1>body, <2>1, <2>2, <2>3, <2>4 DEF IsMessage
  <2>6. reader' = IF begun[got[1].m].fd THEN "fd" ELSE "length"
    BY <1>7, <2>5 DEF Body, Reads
  <2>7. reader' # "ended" /\ reader' # "failed"
    BY <2>6
  <2> QED
    BY <2>7
<1>8. CASE RecvFd
  <2>1. reader = "fd" /\ wire # <<>> /\ wire' = Tail(wire) /\ delivered' = delivered /\ UNCHANGED writing
    BY <1>8 DEF RecvFd, Reads
  <2>2. PICK b \in WireByte : b = Byte /\ After(begun, p, b)
    BY <1>1, <2>1, Taking
  <2>3. p.i < End(begun, p.m) /\ p.m > 0
    BY <1>4, <1>fd, <2>1
  <2>4. b = [m |-> p.m, i |-> p.i + 1]
    BY <2>2, <2>3, Within
  <2>5. IsFd(b)
    <3>1. b.m = p.m /\ b.i = 3 + begun[p.m].size
      BY <1>4, <1>fd, <2>1, <2>3, <2>4
    <3>2. b.i > 2 + begun[p.m].size
      BY <1>4, <2>3, <3>1
    <3> QED
      BY <3>1, <3>2 DEF IsFd
  <2>6. reader' = "ended"
    BY <1>8, <2>2, <2>5 DEF RecvFd, Reads
  <2> QED
    BY <1>fd, <2>1, <2>6
<1>9. CASE EndOfStream
  <2>1. /\ ~open /\ wire = <<>> /\ delivered' = delivered
        /\ \/ reader = "length" /\ reader' = "ended"
           \/ reader = "body" /\ Len(got) < want /\ reader' = "failed"
           \/ reader = "fd" /\ reader' = "failed"
    BY <1>9 DEF EndOfStream, Reads
  <2>2. CASE reader = "length"
    <3>1. CASE p.i # End(begun, p.m)
      BY <1>cut, <2>1, <2>2, <3>1
    <3>2. CASE p.i = End(begun, p.m)
      <4>1. p.m = Len(begun)
        BY <1>1, <2>1 DEF Flow, LastWritten
      <4>2. CASE got = <<>>
        <5>1. p.m = Len(delivered)
          BY <1>1, <1>3, <2>2, <4>2 DEF Reading
        <5> QED
          BY <2>1, <2>2, <4>1, <5>1
      <4>3. CASE got # <<>>
        <5>1. p.m = Len(delivered) + 1 /\ p.i = 1
          BY <1>1, <1>3, <2>2, <4>3 DEF Reading
        <5> QED
          BY <1>2, <1>4, <3>2, <5>1
      <4> QED
        BY <4>2, <4>3
    <3> QED
      BY <3>1, <3>2
  <2>3. CASE reader = "body"
    <3>1. p.i # End(begun, p.m)
      BY <1>2, <1>4, <1>body, <2>1, <2>3
    <3> QED
      BY <1>cut, <2>1, <2>3, <3>1
  <2>4. CASE reader = "fd"
    <3>1. p.i # End(begun, p.m)
      BY <1>4, <1>fd, <2>4
    <3> QED
      BY <1>cut, <2>1, <2>4, <3>1
  <2> QED
    BY <2>1, <2>2, <2>3, <2>4
<1>10. CASE Timeout
  <2>1. script.timed /\ reader' = IF reader = "fd" THEN "failed" ELSE "length"
    BY <1>10 DEF Timeout
  <2>2. reader = "fd" /\ reader' = "failed"
    BY <2>1
  <2> QED
    BY <1>fd, <2>1, <2>2
<1> QED
  BY <1>5, <1>6, <1>7, <1>8, <1>9, <1>10 DEF ReaderStep

LEMMA TearsStay == ASSUME WireTypeOK, ReaderStep PROVE tears' = 0 => tears = 0
<1>1. tears \in 0 .. 2
  BY DEF WireTypeOK
<1>2. tears' = tears \/ tears' = tears + 1
  BY DEF ReaderStep, ReadLength, ReadBody, Body, RecvFd, EndOfStream, Timeout, Reads
<1> QED
  BY <1>1, <1>2

-----------------------------------------------------------------------------
(* Framing: the theorems.                                                  *)

LEMMA WireInitInv == WireInit => WireInv
<1> SUFFICES ASSUME WireInit PROVE WireInv
  OBVIOUS
<1>1. WireTypeOK
  BY WireInitType
<1>2. /\ begun = <<>> /\ wire = <<>> /\ got = <<>> /\ delivered = <<>> /\ mixed = FALSE /\ tears = 0
      /\ reader = "length" /\ open /\ DOMAIN next = Writers
      /\ \A w \in Writers : next[w].n = 1 /\ next[w].i = 0
  BY DEF WireInit
<1>3. Len(begun) = 0 /\ DOMAIN begun = {} /\ DOMAIN delivered = {} /\ Len(delivered) = 0
  BY <1>2
<1>4. Middle /\ InTurn
  BY <1>2 DEF Middle, InTurn
<1>5. Single
  <2> SUFFICES ASSUME Len(script.writes) = 1 PROVE Single
    BY DEF Single
  <2>1. 1 \in Writers /\ Len(script.writes[1]) \in Nat
    BY <1>1, ScriptType
  <2>2. next[1].n = 0 + (IF next[1].i = 0 THEN 1 ELSE 0)
    BY <1>2, <2>1
  <2>3. Len(begun) <= Len(script.writes[1])
    BY <1>3, <2>1
  <2> QED
    BY <1>2, <1>3, <2>2, <2>3 DEF Single
<1>6. FdIsLast
  BY <1>3 DEF FdIsLast
<1>7. Somewhere
  <2> DEFINE p == [m |-> 0, i |-> 0]
  <2>1. p \in Place(begun)
    BY <1>3 DEF Place
  <2>2. LastWritten(begun, next, p)
    BY <1>2, <1>3 DEF LastWritten, End
  <2>3. 1 .. Len(wire) - 1 = {}
    BY <1>2
  <2>4. Flow(begun, next, wire, p)
    BY <1>2, <2>2, <2>3 DEF Flow
  <2>5. Reading(p)
    BY <1>2, <1>3 DEF Reading, End
  <2>6. Torn(p)
    BY <1>2 DEF Torn
  <2> QED
    BY <2>1, <2>4, <2>5, <2>6 DEF Somewhere
<1>8. TearsAreTimed
  BY <1>2 DEF TearsAreTimed
<1>9. Ending
  BY <1>2 DEF Ending
<1> QED
  BY <1>1, <1>4, <1>5, <1>6, <1>7, <1>8, <1>9 DEF WireInv, ReaderIsSomewhere, Somewhere

\* A reader's step and the close leave the writers' part of the invariant alone.
LEMMA WritersAlone ==
  ASSUME Middle, InTurn, Single, FdIsLast, UNCHANGED <<script, next, begun, mixed>>
  PROVE  Middle' /\ InTurn' /\ Single' /\ FdIsLast'
<1>1. Middle'
  BY DEF Middle, Writers, Present, Bytes
<1>2. InTurn'
  BY DEF InTurn, Writers
<1>3. Single' /\ FdIsLast'
  BY DEF Single, FdIsLast
<1> QED
  BY <1>1, <1>2, <1>3

LEMMA WireStep == WireInv /\ [WireNext]_wireVars => WireInv'
<1> SUFFICES ASSUME WireInv, [WireNext]_wireVars PROVE WireInv'
  OBVIOUS
<1>1. /\ WireTypeOK /\ Middle /\ InTurn /\ Single /\ FdIsLast /\ TearsAreTimed /\ Ending
      /\ ~mixed => Somewhere
  BY DEF WireInv, ReaderIsSomewhere, Somewhere
<1> SUFFICES /\ WireTypeOK' /\ Middle' /\ InTurn' /\ Single' /\ FdIsLast'
             /\ TearsAreTimed' /\ Ending' /\ (~mixed' => Somewhere')
  BY DEF WireInv, ReaderIsSomewhere, Somewhere
<1>2. ASSUME NEW w \in Writers, Begin(w) \/ WriteLength(w) \/ WriteBody(w) \/ SendFd(w)
      PROVE  /\ WireTypeOK' /\ Middle' /\ InTurn' /\ Single' /\ FdIsLast'
             /\ TearsAreTimed' /\ Ending' /\ (~mixed' => Somewhere')
  <2>1. PICK j \in Nat : Writes(w, j)
    BY <1>1, <1>2, StepWrites
  <2>2. PICK m \in 1 .. Len(begun') : Put(w, m, j)
    BY <1>1, <2>1, WritesBegun
  <2>3. WireTypeOK'
    <3>1. j > next[w].i /\ begun' \in Seq(Message) /\ Len(begun) <= Len(begun')
      BY <1>1, <2>1, WritesBegun
    <3> QED
      BY <1>1, <2>2, <3>1, PutType
  <2>4. Middle' /\ InTurn' /\ Single' /\ FdIsLast' /\ Ending'
    BY <1>1, <2>1, WritesMiddle, WritesInTurn, WritesSingle, WritesFdIsLast, WritesEnding
  <2>5. script' = script /\ tears' = tears /\ (mixed => mixed')
    BY <1>1, <2>2, PutNext DEF reading
  <2>6. ~mixed' => Somewhere'
    BY <1>1, <2>1, <2>5, WritesPlace
  <2> QED
    BY <1>1, <2>3, <2>4, <2>5, <2>6 DEF TearsAreTimed
<1>3. CASE CloseWire
  <2>1. UNCHANGED <<script, next, begun, mixed, reading, wire>> /\ open' = FALSE
    BY <1>3 DEF CloseWire
  <2>2. WireTypeOK'
    BY <1>1, <2>1 DEF WireTypeOK, Writers, reading
  <2>3. Somewhere => Somewhere'
    BY <2>1 DEF Somewhere, Reading, Torn, reading
  <2>4. Ending'
    BY <1>1, <1>3, CloseEnding
  <2> QED
    BY <1>1, <2>1, <2>2, <2>3, <2>4, WritersAlone DEF TearsAreTimed, reading
<1>4. CASE ReaderStep
  <2>1. UNCHANGED <<script, next, begun, open, mixed>>
    BY <1>4, ReaderWriting DEF writing
  <2>2. WireTypeOK'
    BY <1>1, <1>4, ReaderType
  <2>3. ~mixed' => Somewhere'
    BY <1>1, <1>4, <2>1, ReaderPlace
  <2>4. TearsAreTimed'
    <3>1. tears' = tears \/ script.timed
      BY <1>4 DEF ReaderStep, ReadLength, ReadBody, Body, RecvFd, EndOfStream, Timeout, Reads
    <3> QED
      BY <1>1, <2>1, <3>1 DEF TearsAreTimed
  <2>5. Ending'
    <3>1. tears' = 0 => tears = 0
      BY <1>1, <1>4, TearsStay
    <3>2. Unbroken' => Unbroken
      BY <2>1, <3>1 DEF Unbroken
    <3>3. Unbroken => Somewhere
      BY <1>1 DEF Unbroken
    <3>4. CutOff' = CutOff /\ open' = open /\ begun' = begun /\ script' = script
      BY <2>1 DEF CutOff, Writers
    <3> QED
      BY <1>1, <1>4, <3>2, <3>3, <3>4, ReaderEnding DEF Ending
  <2> QED
    BY <1>1, <2>1, <2>2, <2>3, <2>4, <2>5, WritersAlone
<1>5. CASE UNCHANGED wireVars
  <2>1. UNCHANGED <<script, next, begun, open, mixed, wire, reader, got, want, delivered, tears>>
    BY <1>5 DEF wireVars, writing, reading
  <2>2. WireTypeOK'
    BY <1>1, <2>1 DEF WireTypeOK, Writers
  <2>3. Somewhere => Somewhere'
    BY <2>1 DEF Somewhere, Reading, Torn
  <2>4. Ending'
    BY <1>1, <2>1 DEF Ending, Unbroken, CutOff, Writers
  <2> QED
    BY <1>1, <2>1, <2>2, <2>3, <2>4, WritersAlone DEF TearsAreTimed
<1> QED
  BY <1>2, <1>3, <1>4, <1>5 DEF WireNext, ReaderStep

\* Wire frames: whatever is written, the bytes on the wire, those the reader holds
\* and what it has delivered are of messages that were begun, and what it holds of
\* a body is no more than the body has and than MAX_FRAME_SIZE.
THEOREM WireTypeCorrect == WireSpec => []WireTypeOK
<1>1. WireSpec => []WireInv
  BY WireInitInv, WireStep, PTL DEF WireSpec
<1>2. WireInv => WireTypeOK
  BY DEF WireInv
<1> QED
  BY <1>1, <1>2, PTL

LEMMA WireInvInStep == WireInv => InStep
<1> SUFFICES ASSUME WireInv, Unbroken
             PROVE  /\ Len(delivered) <= Len(begun) /\ \A k \in DOMAIN delivered : delivered[k] = k
                    /\ reader = "ended" => CutOff \/ Len(delivered) = Len(begun)
                    /\ reader = "failed" => CutOff \/ (script.timed /\ \E m \in DOMAIN begun : begun[m].fd)
  BY DEF InStep
<1>1. Somewhere /\ tears = 0
  BY DEF WireInv, ReaderIsSomewhere, Somewhere, Unbroken
<1>2. Len(delivered) <= Len(begun) /\ \A k \in DOMAIN delivered : delivered[k] = k
  BY <1>1 DEF Somewhere, Reading
<1> QED
  BY <1>2 DEF WireInv, Ending

\* write_frame and read_frame: as long as no two writers are in the middle of a
\* frame at once, no read times out inside one and none is too large, what has
\* been delivered is what was begun, in order and without a gap; and the reader
\* ends short of all of it only where a writer was cut off inside a frame, or
\* where it did not wait for a descriptor.
THEOREM InStepCorrect == WireSpec => []InStep
<1>1. WireSpec => []WireInv
  BY WireInitInv, WireStep, PTL DEF WireSpec
<1> QED
  BY <1>1, WireInvInStep, PTL

LEMMA TornIsQuiet == WireInv /\ [WireNext]_wireVars => [tears = 1 => delivered' = delivered]_wireVars
<1> SUFFICES ASSUME WireInv, WireNext, tears = 1 PROVE delivered' = delivered
  OBVIOUS
<1>1. WireTypeOK /\ Single /\ (~mixed => Somewhere) /\ script.timed
  BY DEF WireInv, ReaderIsSomewhere, Somewhere, TearsAreTimed
<1>2. ASSUME NEW w \in Writers, Begin(w) \/ WriteLength(w) \/ WriteBody(w) \/ SendFd(w)
      PROVE  delivered' = delivered
  BY <1>2 DEF Begin, WriteLength, WriteBody, SendFd, Put, reading
<1>3. CASE Body
  <2>1. script \in Scripts
    BY <1>1 DEF WireTypeOK
  <2>2. Len(script.writes) = 1
    BY <1>1, <2>1, ScriptsAssumption
  <2>3. Somewhere
    BY <1>1, <2>2 DEF Single
  <2>4. want > 0 /\ (got # <<>> => got[1].i # 3)
    BY <1>3, <2>3 DEF Somewhere, Torn, Body
  <2>5. ASSUME IsMessage(got) PROVE FALSE
    <3>1. got # <<>> /\ 1 \in DOMAIN got
      BY <1>1, <2>5 DEF IsMessage, WireTypeOK
    <3>2. got[1] = [m |-> got[1].m, i |-> 3]
      BY <2>5, <3>1 DEF IsMessage
    <3> QED
      BY <2>4, <3>1, <3>2
  <2> QED
    BY <1>3, <2>5 DEF Body
<1>4. CASE CloseWire \/ ReadLength \/ ReadBody \/ RecvFd \/ EndOfStream \/ Timeout
  BY <1>4 DEF CloseWire, ReadLength, ReadBody, RecvFd, EndOfStream, Timeout, reading
<1> QED
  BY <1>2, <1>3, <1>4 DEF WireNext

\* read_frame under a read timeout: a frame that was torn by one is not taken for
\* another, since what the reader takes for the next length is the body of a JSON
\* object: nothing is delivered until a second read is torn.
THEOREM QuietCorrect == WireSpec => QuietAfterTear
<1>1. WireSpec => []WireInv
  BY WireInitInv, WireStep, PTL DEF WireSpec
<1> QED
  BY <1>1, TornIsQuiet, PTL DEF WireSpec, QuietAfterTear
=============================================================================
