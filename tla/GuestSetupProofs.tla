-------------------------- MODULE GuestSetupProofs --------------------------
(***************************************************************************)
(* GuestSetup for any capabilities, groups and protocol versions, and any  *)
(* number of starts, in old and new file systems.                          *)
(***************************************************************************)
EXTENDS GuestSetup, TLAPS

\* The steps of the set-up, from the first to the one before the marker.
Working == {"userdel", "groupadd", "useradd", "join", "rewrite", "sudo", "mark"}

\* What a set-up in which no tool has failed has achieved when it is there.
Progress ==
  /\ entry \in Working => ~marker
  /\ ~failed =>
       /\ entry \in Working \ {"userdel"} => uid["other"] # "host"
       /\ entry \in {"useradd", "join", "rewrite", "sudo", "mark"} => "user" \in groups
       /\ entry \in {"join", "rewrite", "sudo", "mark"} => uid["user"] # "none"
       /\ entry \in {"sudo", "mark"} => groups \ {"user"} \subseteq members

\* There is a daemon only beside a command, and it was granted something only
\* if it was greeted.
Daemons ==
  /\ entry # "command" => daemon = "none"
  /\ daemon \in {"none", "connect", "hello"} => granted = {} /\ toLink = {}
  /\ daemon = "link" => toLink # {}
  /\ daemon = "listening" => toLink = {}

\* How far the daemon has got with what it was granted.
Linking ==
  /\ granted \subseteq ever /\ links \subseteq ever
  /\ granted \ toLink \subseteq links
  /\ stream /\ daemon \in {"unlink", "link", "listening"} =>
       image = server.protocol /\ granted = server.enabled

IInv == TypeOK /\ Progress /\ MarkerMeansSetUp /\ Daemons /\ Linking

-----------------------------------------------------------------------------
\* The state in which nothing has been started yet.
LEMMA InitInvariant == Init => IInv
<1> SUFFICES ASSUME Init PROVE IInv
  OBVIOUS
<1>1. TypeOK
  <2>1. /\ uid \in [{"user", "other"} -> Ids]
        /\ starts \in 0 .. MaxStarts /\ "user" \notin Groups
    BY ConstantsAssumption DEF Init, Ids
  <2> QED
    BY <2>1 DEF Init, TypeOK
<1>2. Progress /\ MarkerMeansSetUp
  BY DEF Init, Progress, Working, MarkerMeansSetUp
<1>3. Daemons /\ Linking
  BY DEF Init, Daemons, Linking
<1> QED
  BY <1>1, <1>2, <1>3 DEF IInv

\* A start finds a new file system, in which nothing was done or granted, or
\* the old one.
LEMMA StartStep == IInv /\ Start => IInv'
<1> SUFFICES ASSUME IInv, Start PROVE IInv'
  OBVIOUS
<1> USE DEF IInv, Start
<1>1. TypeOK'
  <2>1. CASE NewFiles
    <3>1. "user" \notin Groups
      BY ConstantsAssumption
    <3>2. groups' \subseteq Groups \cup {"user"} /\ members' = {}
      BY <2>1 DEF NewFiles
    <3>3. uid' \in [{"user", "other"} -> Ids]
      BY <2>1 DEF NewFiles
    <3>4. starts' \in 0 .. MaxStarts
      BY ConstantsAssumption DEF TypeOK
    <3> QED
      BY <2>1, <3>1, <3>2, <3>3, <3>4 DEF TypeOK, NewFiles
  <2>2. CASE UNCHANGED <<fs, image, failed, ever>>
    BY <2>2, ConstantsAssumption DEF TypeOK, fs
  <2> QED
    BY <2>1, <2>2
<1>2. (Progress /\ MarkerMeansSetUp)'
  BY DEF NewFiles, Progress, Working, MarkerMeansSetUp, fs
<1>3. (Daemons /\ Linking)'
  BY DEF NewFiles, Daemons, Linking, fs
<1> QED
  BY <1>1, <1>2, <1>3

\* The steps of the set-up are about the files that the daemon leaves alone.
Setup == \/ CheckMarker \/ RemoveForeign \/ AddGroup \/ AddUser
         \/ JoinGroups \/ RewriteGroups \/ Sudoers \/ Mark

LEMMA SetupStep == IInv /\ Setup => IInv'
<1> SUFFICES ASSUME IInv, Setup PROVE IInv'
  OBVIOUS
<1> USE DEF IInv, Goes
<1>1. CASE CheckMarker
  <2>1. TypeOK' BY <1>1 DEF CheckMarker, TypeOK, fs
  <2>2. (Progress /\ MarkerMeansSetUp)'
    BY <1>1 DEF CheckMarker, Progress, Working, MarkerMeansSetUp, fs
  <2>3. (Daemons /\ Linking)' BY <1>1 DEF CheckMarker, Daemons, Linking, fs
  <2> QED BY <2>1, <2>2, <2>3
<1>2. CASE RemoveForeign
  <2>1. TypeOK' BY <1>2 DEF RemoveForeign, TypeOK, Ids
  <2>2. (Progress /\ MarkerMeansSetUp)'
    BY <1>2 DEF RemoveForeign, Progress, Working, MarkerMeansSetUp, TypeOK
  <2>3. (Daemons /\ Linking)' BY <1>2 DEF RemoveForeign, Daemons, Linking
  <2> QED BY <2>1, <2>2, <2>3
<1>3. CASE AddGroup
  <2>1. TypeOK' BY <1>3 DEF AddGroup, TypeOK
  <2>2. (Progress /\ MarkerMeansSetUp)'
    BY <1>3 DEF AddGroup, Progress, Working, MarkerMeansSetUp
  <2>3. (Daemons /\ Linking)' BY <1>3 DEF AddGroup, Daemons, Linking
  <2> QED BY <2>1, <2>2, <2>3
<1>4. CASE AddUser
  <2>1. TypeOK' BY <1>4 DEF AddUser, TypeOK, Ids
  <2>2. (Progress /\ MarkerMeansSetUp)'
    BY <1>4 DEF AddUser, Progress, Working, MarkerMeansSetUp, TypeOK
  <2>3. (Daemons /\ Linking)' BY <1>4 DEF AddUser, Daemons, Linking
  <2> QED BY <2>1, <2>2, <2>3
<1>5. CASE JoinGroups
  <2>1. TypeOK' BY <1>5 DEF JoinGroups, TypeOK, fs
  <2>2. (Progress /\ MarkerMeansSetUp)'
    BY <1>5 DEF JoinGroups, Progress, Working, MarkerMeansSetUp, fs
  <2>3. (Daemons /\ Linking)' BY <1>5 DEF JoinGroups, Daemons, Linking, fs
  <2> QED BY <2>1, <2>2, <2>3
<1>6. CASE RewriteGroups
  <2>1. TypeOK' BY <1>6 DEF RewriteGroups, TypeOK
  <2>2. (Progress /\ MarkerMeansSetUp)'
    BY <1>6 DEF RewriteGroups, Progress, Working, MarkerMeansSetUp
  <2>3. (Daemons /\ Linking)' BY <1>6 DEF RewriteGroups, Daemons, Linking
  <2> QED BY <2>1, <2>2, <2>3
<1>7. CASE Sudoers
  <2>1. TypeOK' BY <1>7 DEF Sudoers, TypeOK, fs
  <2>2. (Progress /\ MarkerMeansSetUp)'
    BY <1>7 DEF Sudoers, Progress, Working, MarkerMeansSetUp, fs
  <2>3. (Daemons /\ Linking)' BY <1>7 DEF Sudoers, Daemons, Linking, fs
  <2> QED BY <2>1, <2>2, <2>3
<1>8. CASE Mark
  <2>1. TypeOK' BY <1>8 DEF Mark, TypeOK
  <2>2. (Progress /\ MarkerMeansSetUp)'
    BY <1>8 DEF Mark, Progress, Working, MarkerMeansSetUp
  <2>3. (Daemons /\ Linking)' BY <1>8 DEF Mark, Daemons, Linking
  <2> QED BY <2>1, <2>2, <2>3
<1> QED
  BY <1>1, <1>2, <1>3, <1>4, <1>5, <1>6, <1>7, <1>8 DEF Setup

\* A fork, and the death of everything in the container: groups may be lost, but
\* only from a set-up that has not left its marker.
LEMMA ForkKillStep == IInv /\ (Fork \/ Kill) => IInv'
<1> SUFFICES ASSUME IInv, Fork \/ Kill PROVE IInv'
  OBVIOUS
<1> USE DEF IInv
<1>1. CASE Fork
  <2>1. TypeOK' BY <1>1 DEF Fork, TypeOK, fs, others
  <2>2. (Progress /\ MarkerMeansSetUp)'
    BY <1>1 DEF Fork, Progress, Working, MarkerMeansSetUp, fs, others
  <2>3. (Daemons /\ Linking)' BY <1>1 DEF Fork, Daemons, Linking, fs, others
  <2> QED BY <2>1, <2>2, <2>3
<1>2. CASE Kill
  <2>1. TypeOK' BY <1>2 DEF Kill, TypeOK, others
  <2>2. (Progress /\ MarkerMeansSetUp)'
    BY <1>2 DEF Kill, Progress, Working, MarkerMeansSetUp, others
  <2>3. (Daemons /\ Linking)' BY <1>2 DEF Kill, Daemons, Linking, others
  <2> QED BY <2>1, <2>2, <2>3
<1> QED
  BY <1>1, <1>2

\* The daemon's steps leave the files of the set-up alone.
LEMMA DaemonsFiles ==
  ASSUME IInv, NEW d \in {"connect", "hello", "unlink", "link", "listening"},
         NEW e, DaemonIs(d, e)
  PROVE  (Progress /\ MarkerMeansSetUp)'
BY DEF IInv, DaemonIs, Progress, Working, MarkerMeansSetUp

\* What is linked next is one of those that are left.
LEMMA NextIsLeft == toLink # {} => NextLink \in toLink
BY DEF NextLink

\* The daemon connects and is greeted.
LEMMA GreetStep == IInv /\ (Connect \/ Handshake) => IInv'
<1> SUFFICES ASSUME IInv, Connect \/ Handshake PROVE IInv'
  OBVIOUS
<1> USE DEF IInv, DaemonIs
<1>1. CASE Connect
  <2>1. TypeOK' BY <1>1 DEF Connect, TypeOK
  <2>2. (Progress /\ MarkerMeansSetUp)' BY <1>1, DaemonsFiles DEF Connect
  <2>3. (Daemons /\ Linking)' BY <1>1 DEF Connect, Daemons, Linking
  <2> QED BY <2>1, <2>2, <2>3
<1>2. CASE Handshake
  <2>1. Accepted(Caps) = server.enabled
    BY DEF Accepted, TypeOK
  <2>2. TypeOK' BY <1>2, <2>1 DEF Handshake, TypeOK
  <2>3. (Progress /\ MarkerMeansSetUp)' BY <1>2, DaemonsFiles DEF Handshake
  <2>4. (Daemons /\ Linking)' BY <1>2, <2>1 DEF Handshake, Daemons, Linking
  <2> QED BY <2>2, <2>3, <2>4
<1> QED
  BY <1>1, <1>2

\* The daemon links what it was granted, and listens.
LEMMA LinkStep == IInv /\ (Unlink \/ Link \/ Listen) => IInv'
<1> SUFFICES ASSUME IInv, Unlink \/ Link \/ Listen PROVE IInv'
  OBVIOUS
<1> USE DEF IInv, DaemonIs
<1>1. CASE Unlink
  <2>1. TypeOK' BY <1>1 DEF Unlink, TypeOK
  <2>2. (Progress /\ MarkerMeansSetUp)' BY <1>1, DaemonsFiles DEF Unlink
  <2>3. (Daemons /\ Linking)' BY <1>1, NextIsLeft DEF Unlink, Daemons, Linking
  <2> QED BY <2>1, <2>2, <2>3
<1>2. CASE Link
  <2>1. NextLink \in toLink BY <1>2, NextIsLeft DEF Link, Daemons
  <2>2. TypeOK' BY <1>2, <2>1 DEF Link, TypeOK
  <2>3. (Progress /\ MarkerMeansSetUp)' BY <1>2, DaemonsFiles DEF Link
  <2>4. toLink \subseteq granted BY DEF TypeOK
  <2>5. (Daemons /\ Linking)' BY <1>2, <2>1, <2>4 DEF Link, Daemons, Linking
  <2> QED BY <2>2, <2>3, <2>5
<1>3. CASE Listen
  <2>1. TypeOK' BY <1>3 DEF Listen, TypeOK
  <2>2. (Progress /\ MarkerMeansSetUp)' BY <1>3, DaemonsFiles DEF Listen
  <2>3. (Daemons /\ Linking)' BY <1>3 DEF Listen, Daemons, Linking
  <2> QED BY <2>1, <2>2, <2>3
<1> QED
  BY <1>1, <1>2, <1>3

\* The daemon ends, and the server is another one.
LEMMA EndStep == IInv /\ (DaemonEnds \/ ServerRestarts) => IInv'
<1> SUFFICES ASSUME IInv, DaemonEnds \/ ServerRestarts PROVE IInv'
  OBVIOUS
<1> USE DEF IInv
<1>1. CASE DaemonEnds
  <2>1. TypeOK' BY <1>1 DEF DaemonEnds, TypeOK, fs, others
  <2>2. (Progress /\ MarkerMeansSetUp)'
    BY <1>1 DEF DaemonEnds, Progress, Working, MarkerMeansSetUp, fs, others
  <2>3. (Daemons /\ Linking)' BY <1>1 DEF DaemonEnds, Daemons, Linking, fs, others
  <2> QED BY <2>1, <2>2, <2>3
<1>2. CASE ServerRestarts
  <2>1. TypeOK' BY <1>2 DEF ServerRestarts, TypeOK, fs
  <2>2. (Progress /\ MarkerMeansSetUp)'
    BY <1>2 DEF ServerRestarts, Progress, Working, MarkerMeansSetUp, fs
  <2>3. (Daemons /\ Linking)' BY <1>2 DEF ServerRestarts, Daemons, Linking, fs
  <2> QED BY <2>1, <2>2, <2>3
<1> QED
  BY <1>1, <1>2

\* A step that changes nothing.
LEMMA StutterStep == IInv /\ UNCHANGED vars => IInv'
BY DEF vars, fs, guest, others, IInv, TypeOK, Progress, Working,
       MarkerMeansSetUp, Daemons, Linking

LEMMA Invariance == Spec => []IInv
<1>1. IInv /\ [Next]_vars => IInv'
  BY StartStep, SetupStep, ForkKillStep, GreetStep, LinkStep, EndStep, StutterStep
     DEF Next, Setup
<1> QED
  BY InitInvariant, <1>1, PTL DEF Spec

-----------------------------------------------------------------------------
\* Types, and that only groups that exist list the user and only granted
\* interceptors are to be linked.
THEOREM TypeCorrect == Spec => []TypeOK
BY Invariance, PTL DEF IInv

\* The marker is there only where the set-up was done to its end, after any
\* number of starts killed at any point, in files where no tool has failed.
THEOREM MarkerCorrect == Spec => []MarkerMeansSetUp
BY Invariance, PTL DEF IInv

\* A daemon that listens to the server that greeted it has linked what that
\* server's definition enables, and nothing is linked that was never granted.
THEOREM ListenerCorrect == Spec => []ListenerIsServed
<1>1. IInv => ListenerIsServed
  BY DEF IInv, Daemons, Linking, ListenerIsServed
<1> QED
  BY <1>1, Invariance, PTL
=============================================================================
