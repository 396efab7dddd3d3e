---------------------------- MODULE SessionLedger ----------------------------
(***************************************************************************)
(* What the host server promises about terminal sessions, without threads, *)
(* counters or sockets: it knows a set of registered sessions, a session   *)
(* leaves the set only after it has ended, and the session that leaves the *)
(* set empty - that one and no other - owes the guest daemon a CheckIdle.  *)
(* IdleStop implements it with one atomic counter and a thread a session.  *)
(***************************************************************************)
EXTENDS Naturals

CONSTANT Sessions

VARIABLES
  alive,    \* sessions whose process has not ended
  active,   \* sessions registered with the server
  due,      \* sessions that owe a CheckIdle
  epoch     \* how often the server has been restarted

ledger == <<alive, active, due, epoch>>

Init == alive = Sessions /\ active = {} /\ due = {} /\ epoch = 0

End(s) == /\ s \in alive
          /\ alive' = alive \ {s}
          /\ UNCHANGED <<active, due, epoch>>

\* A session may end before its registration is read.
Register(s) == /\ s \notin active \cup due
               /\ active' = active \cup {s}
               /\ UNCHANGED <<alive, due, epoch>>

Leave(s) == /\ s \in active \ alive
            /\ active' = active \ {s}
            /\ due' = IF active = {s} THEN due \cup {s} ELSE due
            /\ UNCHANGED <<alive, epoch>>

Ask(s) == /\ s \in due
          /\ due' = due \ {s}
          /\ UNCHANGED <<alive, active, epoch>>

\* A new server knows nobody and owes nothing.
Forget == /\ epoch' = epoch + 1
          /\ active' = {} /\ due' = {}
          /\ UNCHANGED alive

Next == \/ Forget
        \/ \E s \in Sessions : End(s) \/ Register(s) \/ Leave(s) \/ Ask(s)

Spec == Init /\ [][Next]_ledger
=============================================================================
