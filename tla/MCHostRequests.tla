--------------------------- MODULE MCHostRequests ---------------------------
(* Constants of HostRequests that a configuration cannot spell out.        *)
EXTENDS HostRequests

\* A silent success, one whose output does not fit a frame, a failure that
\* writes to both streams, and one that a signal ends.
SomeResults == {[code |-> 0, out |-> "none", err |-> "none"],
                [code |-> 0, out |-> "huge", err |-> "some"],
                [code |-> 2, out |-> "some", err |-> "some"],
                [code |-> 1, out |-> "none", err |-> "some"]}

\* Only failures, of which one has more to say than a frame holds.
Failures == {[code |-> 2, out |-> "some", err |-> "none"],
             [code |-> 2, out |-> "huge", err |-> "none"]}
=============================================================================
