----------------------------- MODULE MCFraming ------------------------------
(* Scripts for Framing, with lengths to the base 4 and at most 11.         *)
EXTENDS Framing

M(size)  == [size |-> size, fd |-> FALSE]
To(host, writes) == [timed |-> host, writes |-> writes]

\* To the guest: HelloAck and a Ping beside CheckIdles; replies, one of which is
\* too large.  To the host: Hello and two answers; RegisterSession; requests
\* that are too large for the reader, or for the length.
SomeScripts == {
  To(FALSE, << <<M(3), M(1)>>, <<M(2), M(2)>> >>),
  To(FALSE, << <<M(5), M(12), M(1)>> >>),
  To(TRUE,  << <<M(3), M(1), M(2), M(1)>> >>),
  To(TRUE,  << <<[size |-> 3, fd |-> TRUE]>> >>),
  To(TRUE,  << <<M(14), M(1)>> >>),
  To(TRUE,  << <<M(17), M(1)>> >>) }
=============================================================================
