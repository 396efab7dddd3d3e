--------------------------- MODULE RemoteCommand ----------------------------
(***************************************************************************)
(* What host-exec promises about a command on the host, without processes, *)
(* connections, frames or threads: it is started at most once, whether its *)
(* caller still waits or not; it ends, or dies with the server; and a      *)
(* caller that is told of an end is told of this one, and everything.  Of  *)
(* a command that died with the server nobody is told anything, least of   *)
(* all that it was refused: "refused" means that nothing was done.         *)
(* HostRequests implements it.                                             *)
(***************************************************************************)
EXTENDS Naturals, Sequences

CONSTANTS
  Calls,
  Results    \* what commands leave: [code, out, err], see HostRequests

VARIABLES
  state,     \* of the command of each call
  left,      \* what it has left
  told,      \* calls that know of its end, or of the refusal
  answer     \* what they know: exit code, and what they have printed

remote == <<state, left, told, answer>>

Nothing   == [code |-> 0, out |-> "none", err |-> "none"]
NoAnswer  == [code |-> 0, shown |-> <<>>]
Refusal   == [code |-> 1, shown |-> <<"stderr">>]
Shown(x)  == (IF x.out = "none" THEN <<>> ELSE <<"stdout">>)
             \o (IF x.err = "none" THEN <<>> ELSE <<"stderr">>)
Answer(c) == IF state[c] = "ended" THEN [code |-> left[c].code, shown |-> Shown(left[c])]
             ELSE Refusal

Init ==
  /\ state = [c \in Calls |-> "asked"] /\ left = [c \in Calls |-> Nothing]
  /\ told = {} /\ answer = [c \in Calls |-> NoAnswer]

Goes(c, s, t) == state[c] = s /\ state' = [state EXCEPT ![c] = t]

Refuse(c) == Goes(c, "asked", "refused") /\ UNCHANGED <<left, told, answer>>
Start(c)  == Goes(c, "asked", "running") /\ UNCHANGED <<left, told, answer>>
End(c)    == /\ Goes(c, "running", "ended")
             /\ \E x \in Results : left' = [left EXCEPT ![c] = x]
             /\ UNCHANGED <<told, answer>>

\* The server dies, and with it all that it has started.
Die ==
  /\ state' = [c \in Calls |-> IF state[c] = "running" THEN "killed" ELSE state[c]]
  /\ UNCHANGED <<left, told, answer>>

Tell(c) ==
  /\ c \notin told /\ state[c] \in {"refused", "ended"}
  /\ told' = told \cup {c}
  /\ answer' = [answer EXCEPT ![c] = Answer(c)]
  /\ UNCHANGED <<state, left>>

Next == Die \/ \E c \in Calls : Refuse(c) \/ Start(c) \/ End(c) \/ Tell(c)

Spec == Init /\ [][Next]_remote
=============================================================================
