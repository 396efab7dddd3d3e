------------------------------ MODULE Framing -------------------------------
(***************************************************************************)
(* One direction of a connection, byte by byte: length-prefixed frames,    *)
(* which their writers write in several calls and the reader reads in      *)
(* several, some of which end in the middle.  To the guest two threads     *)
(* write, the connection's own (HelloAck, Ping, replies) and a monitor     *)
(* (CheckIdle), on two handles of one socket; to the host there is one     *)
(* writer, and reads time out.                                             *)
(*                                                                         *)
(* A length is two digits to the base Base instead of four bytes.  A byte  *)
(* of JSON is the highest digit, as any printable character makes a length *)
(* beyond MAX_FRAME_SIZE when it is read as the first byte of one.         *)
(***************************************************************************)
EXTENDS Naturals, Sequences

CONSTANTS
  Base,            \* one more than the highest digit
  MAX_FRAME_SIZE,
  Scripts          \* what may be written: see ScriptsAssumption

\* A script says for each writer, in order, how long the JSON of its messages
\* is and whether a descriptor follows; and whether the reads time out.  The
\* host's reads do, to which each guest or session writes alone; a descriptor
\* comes after the only message of its connection.
Message == [size : Nat \ {0}, fd : BOOLEAN]
ASSUME ScriptsAssumption ==
  /\ Base \in Nat /\ Base > 1
  /\ MAX_FRAME_SIZE \in Nat /\ MAX_FRAME_SIZE < (Base - 1) * Base
  /\ \A s \in Scripts :
       /\ s.timed \in BOOLEAN
       /\ s.writes \in Seq(Seq(Message))
       /\ s.timed => Len(s.writes) = 1
       /\ \A w \in DOMAIN s.writes : \A n \in DOMAIN s.writes[w] :
            s.writes[w][n].fd => Len(s.writes) = 1 /\ n = Len(s.writes[w])

VARIABLES
  script,     \* the one of Scripts that is played
  next,       \* per writer, the message it is at and the bytes of it it wrote
  begun,      \* the messages that were begun, in order; bytes say which is theirs
  wire,       \* the bytes written and not yet read
  open,       \* do the writers have the connection open?
  reader,     \* where the reader is: in a length, a body, a descriptor; or done
  got,        \* the bytes of the present length or body
  want,       \* the length of the present body
  delivered,  \* the messages the reader has got, by their places in begun
  mixed,      \* history: two writers were in the middle of a frame
  tears       \* history: reads that timed out in the middle of a frame, at most 2

writing  == <<script, next, begun, open, mixed>>
reading  == <<reader, got, want, delivered, tears>>
wireVars == <<writing, reading, wire>>

Writers == DOMAIN script.writes
Bytes(message) == 2 + message.size + (IF message.fd THEN 1 ELSE 0)

\* `len() as u32` loses what does not fit.
Field(size) == size % (Base * Base)

\* The byte at position i of a frame: two digits, the JSON, the descriptor's.
Digit(b) == LET size == begun[b.m].size IN
  IF b.i = 1 THEN Field(size) \div Base
  ELSE IF b.i = 2 THEN Field(size) % Base
  ELSE IF b.i <= 2 + size THEN Base - 1 ELSE 0

IsFd(b) == b.i > 2 + begun[b.m].size

WireTypeOK ==
  /\ script \in Scripts
  /\ begun \in Seq(Message)
  /\ next \in [Writers -> [n : Nat \ {0}, m : Nat, i : Nat]]
  /\ \A w \in Writers : next[w].m <= Len(begun)
  /\ wire \in Seq([m : 1 .. Len(begun), i : Nat \ {0}])
  /\ got \in Seq([m : 1 .. Len(begun), i : Nat \ {0}])
  /\ reader \in {"length", "body", "fd", "ended", "failed"}
  /\ Len(got) <= (IF reader = "body" THEN want ELSE 1)
  /\ want \in 0 .. MAX_FRAME_SIZE
  /\ delivered \in Seq(1 .. Len(begun))
  /\ open \in BOOLEAN /\ mixed \in BOOLEAN /\ tears \in 0 .. 2

WireInit ==
  /\ script \in Scripts
  /\ next = [w \in Writers |-> [n |-> 1, m |-> 0, i |-> 0]]
  /\ begun = <<>> /\ wire = <<>> /\ open = TRUE
  /\ reader = "length" /\ got = <<>> /\ want = 0 /\ delivered = <<>>
  /\ mixed = FALSE /\ tears = 0

-----------------------------------------------------------------------------
(* The writers.                                                            *)

\* What w is at, and whether there is anything.
Present(w) == script.writes[w][next[w].n]
Has(w) == open /\ next[w].n <= Len(script.writes[w])

\* The bytes up to j of w's message, which is the m-th that was begun.
Put(w, m, j) ==
  /\ wire' = wire \o [k \in 1 .. j - next[w].i |-> [m |-> m, i |-> next[w].i + k]]
  /\ next' = [next EXCEPT ![w] = IF j = Bytes(Present(w))
                                   THEN [n |-> @.n + 1, m |-> m, i |-> 0]
                                   ELSE [n |-> @.n, m |-> m, i |-> j]]
  /\ mixed' = (mixed \/ \E v \in Writers \ {w} : next[v].i > 0)
  /\ UNCHANGED <<script, open, reading>>

\* write_frame: the length, which write_all may write in two calls, ...
Begin(w) ==
  /\ Has(w) /\ next[w].i = 0
  /\ begun' = Append(begun, Present(w))
  /\ \E j \in 1 .. 2 : Put(w, Len(begun) + 1, j)

WriteLength(w) ==
  /\ Has(w) /\ next[w].i = 1
  /\ Put(w, next[w].m, 2)
  /\ UNCHANGED begun

\* Mutated: what one call does not write of the JSON is left out.
WriteBodyOnce(w) ==
  /\ Has(w) /\ next[w].i = 2
  /\ \E k \in 1 .. Present(w).size :
       wire' = wire \o [j \in 1 .. k |-> [m |-> next[w].m, i |-> 2 + j]]
  /\ next' = [next EXCEPT ![w] = [@ EXCEPT !.n = @ + 1, !.i = 0]]
  /\ UNCHANGED <<script, begun, open, mixed, reading>>

\* ... the JSON in as many as the socket's buffer makes of it, ...
WriteBody(w) ==
  /\ Has(w) /\ next[w].i >= 2
  /\ \E j \in next[w].i + 1 .. 2 + Present(w).size : Put(w, next[w].m, j)
  /\ UNCHANGED begun

\* ... and send_fd, with a byte of its own.
SendFd(w) ==
  /\ Has(w) /\ Present(w).fd /\ next[w].i = Bytes(Present(w)) - 1
  /\ Put(w, next[w].m, next[w].i + 1)
  /\ UNCHANGED begun

\* The writer is done, or has died.
CloseWire == /\ open /\ open' = FALSE
             /\ UNCHANGED <<script, next, begun, mixed, reading, wire>>

-----------------------------------------------------------------------------
(* The reader.                                                             *)

Reads(r, g, n) == /\ reader' = r /\ got' = g /\ want' = n
                  /\ UNCHANGED <<writing, tears>>

\* read_exact returns what there is, one byte at least, until it has enough; a
\* read over several bytes is several steps here.
Byte == Head(wire)

\* Mutated: MAX_FRAME_SIZE is not looked at.
ReadLengthUnchecked ==
  /\ reader = "length" /\ wire # <<>>
  /\ wire' = Tail(wire)
  /\ IF got = <<>> THEN Reads("length", <<Byte>>, 0)
     ELSE Reads("body", <<>>, Digit(got[1]) * Base + Digit(Byte))
  /\ UNCHANGED delivered

\* Mutated: a length that is too large is passed over.
ReadLengthSkips ==
  /\ reader = "length" /\ wire # <<>>
  /\ wire' = Tail(wire)
  /\ LET length == Digit(got[1]) * Base + Digit(Byte) IN
     IF got = <<>> THEN Reads("length", <<Byte>>, 0)
     ELSE IF length > MAX_FRAME_SIZE THEN Reads("length", <<>>, 0)
     ELSE Reads("body", <<>>, length)
  /\ UNCHANGED delivered

ReadLength ==
  /\ reader = "length" /\ wire # <<>>
  /\ wire' = Tail(wire)
  /\ LET length == Digit(got[1]) * Base + Digit(Byte) IN
     IF got = <<>> THEN Reads("length", <<Byte>>, 0)
     ELSE IF length > MAX_FRAME_SIZE THEN Reads("failed", <<>>, 0)
     ELSE Reads("body", <<>>, length)
  /\ UNCHANGED delivered

\* Only the whole of a JSON object parses, and nothing but it.
IsMessage(bytes) ==
  /\ bytes # <<>>
  /\ \A k \in DOMAIN bytes : bytes[k] = [m |-> bytes[1].m, i |-> 2 + k]
  /\ Len(bytes) = begun[bytes[1].m].size

\* A body that does not parse ends the connection.
Body ==
  /\ reader = "body" /\ Len(got) = want
  /\ IF IsMessage(got)
     THEN /\ delivered' = Append(delivered, got[1].m)
          /\ Reads(IF begun[got[1].m].fd THEN "fd" ELSE "length", <<>>, 0)
     ELSE Reads("failed", <<>>, 0) /\ UNCHANGED delivered
  /\ UNCHANGED wire

ReadBody ==
  /\ reader = "body" /\ Len(got) < want /\ wire # <<>>
  /\ wire' = Tail(wire)
  /\ Reads("body", Append(got, Byte), want)
  /\ UNCHANGED delivered

\* recv_fd takes a byte and the descriptor that comes with it; either way the
\* connection is over.
RecvFd ==
  /\ reader = "fd" /\ wire # <<>>
  /\ wire' = Tail(wire)
  /\ Reads(IF IsFd(Byte) THEN "ended" ELSE "failed", <<>>, 0)
  /\ UNCHANGED delivered

\* The end of the stream: inside a length it is like one between two frames.
EndOfStream ==
  /\ ~open /\ wire = <<>>
  /\ \/ reader = "length" /\ Reads("ended", <<>>, 0)
     \/ reader = "body" /\ Len(got) < want /\ Reads("failed", <<>>, 0)
     \/ reader = "fd" /\ Reads("failed", <<>>, 0)
  /\ UNCHANGED <<wire, delivered>>

\* A read of the host times out.  What was read of a frame is forgotten, and
\* the next read begins where this one ended.
Timeout ==
  /\ script.timed /\ open /\ wire = <<>>
  /\ \/ reader = "length"
     \/ reader = "body" /\ Len(got) < want
     \/ reader = "fd"
  /\ reader' = IF reader = "fd" THEN "failed" ELSE "length"
  /\ tears' = IF (reader = "body" \/ got # <<>>) /\ tears < 2 THEN tears + 1 ELSE tears
  /\ got' = <<>> /\ want' = 0
  /\ UNCHANGED <<writing, wire, delivered>>

WireNext == \/ \E w \in Writers : Begin(w) \/ WriteLength(w) \/ WriteBody(w) \/ SendFd(w)
            \/ CloseWire
            \/ ReadLength \/ ReadBody \/ Body \/ RecvFd \/ EndOfStream \/ Timeout

WireSpec == WireInit /\ [][WireNext]_wireVars

-----------------------------------------------------------------------------
(* Properties.                                                             *)

Unbroken == ~mixed /\ tears = 0 /\ \A m \in DOMAIN begun : begun[m].size <= MAX_FRAME_SIZE
CutOff == ~open /\ \E w \in Writers : next[w].i > 0

\* As long as writers do not mix their frames, no read times out inside one, and
\* none is too large for the reader (the writer does not look), the reader is in
\* step: it gets the messages once and in the order in which they were begun,
\* and all of them if its end is not that of a writer in the middle of one; and
\* it fails at no other end, but for a descriptor that it does not wait for.
InStep ==
  Unbroken =>
    /\ Len(delivered) <= Len(begun) /\ \A k \in DOMAIN delivered : delivered[k] = k
    /\ reader = "ended" => CutOff \/ Len(delivered) = Len(begun)
    /\ reader = "failed" => CutOff \/ (script.timed /\ \E m \in DOMAIN begun : begun[m].fd)

\* Once a read has timed out inside a frame nothing is delivered: what is read
\* next is a length beyond MAX_FRAME_SIZE, or swallows what follows as a body that
\* does not parse.  Only another read that times out inside what the reader takes
\* for a frame can, by chance, drop the rest of the first one.
QuietAfterTear == [][tears = 1 => delivered' = delivered]_wireVars
=============================================================================
