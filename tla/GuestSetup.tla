----------------------------- MODULE GuestSetup -----------------------------
(***************************************************************************)
(* What podbox-guest does when a container starts: the entry creates the   *)
(* host's user in the container and forks the daemon, which asks the host  *)
(* server for its capabilities and links the interceptors it was granted.  *)
(* All of it works on a file system that outlives it: /run is no tmpfs, so *)
(* a restarted container has what earlier starts left behind, be they      *)
(* finished or not; only a new container has a new file system.            *)
(***************************************************************************)
EXTENDS Naturals, FiniteSets

CONSTANTS
  Caps,       \* capabilities with an interceptor
  Groups,     \* supplementary groups, as wheel and video
  Versions,   \* protocol versions
  MaxStarts   \* bound: starts of a container

ASSUME ConstantsAssumption == "user" \notin Groups /\ MaxStarts \in Nat

VARIABLES
  uid,      \* /etc/passwd: whose user id the names "user" and "other" have
  groups,   \* /etc/group: the groups there are
  members,  \* those that list the user
  marker,   \* does /run/podbox/.setup_done exist?
  links,    \* the interceptors linked in /run/podbox/bin
  entry,    \* where the entry is
  daemon,   \* where the daemon is
  stream,   \* is its connection one to the server that runs now?
  granted,  \* the capabilities accepted in its handshake
  toLink,   \* those it has yet to link
  server,   \* the host server: its protocol and its enabled capabilities
  image,    \* the protocol of the guest in the image
  starts,
  failed,   \* history: a tool has failed in this file system
  ever      \* history: accepted in this file system at some time

fs     == <<uid, groups, members, marker, links>>
guest  == <<entry, daemon, stream, granted, toLink>>
others == <<server, image, starts, failed, ever>>
vars   == <<fs, guest, others>>

\* A name has the user id of the host's user, some other, or does not exist.
Ids == {"host", "else", "none"}

TypeOK ==
  /\ uid \in [{"user", "other"} -> Ids]
  /\ groups \subseteq Groups \cup {"user"} /\ members \subseteq groups \ {"user"}
  /\ marker \in BOOLEAN /\ links \subseteq Caps
  /\ entry \in {"down", "check", "userdel", "groupadd", "useradd", "join",
                "rewrite", "sudo", "mark", "fork", "command"}
  /\ daemon \in {"none", "connect", "hello", "unlink", "link", "listening"}
  /\ stream \in BOOLEAN
  /\ granted \subseteq Caps /\ toLink \subseteq granted
  /\ server \in [protocol : Versions, enabled : SUBSET Caps]
  /\ image \in Versions /\ starts \in 0 .. MaxStarts
  /\ failed \in BOOLEAN /\ ever \subseteq Caps

\* A new file system is that of the image, to which podman may have added the
\* user; no two names have one id.
NewFiles ==
  /\ uid' \in {u \in [{"user", "other"} -> Ids] :
                 u["user"] = u["other"] => u["user"] # "host"}
  /\ groups' \in {Groups, Groups \cup {"user"}}
  /\ members' = {} /\ marker' = FALSE /\ links' = {}
  /\ image' \in Versions /\ failed' = FALSE /\ ever' = {}

Init ==
  /\ uid \in {u \in [{"user", "other"} -> {"host", "none"}] : u["user"] = "none"}
  /\ groups = Groups /\ members = {} /\ marker = FALSE /\ links = {}
  /\ entry = "down" /\ daemon = "none" /\ stream = FALSE /\ granted = {} /\ toLink = {}
  /\ server \in [protocol : Versions, enabled : SUBSET Caps]
  /\ image \in Versions /\ starts = 0 /\ failed = FALSE /\ ever = {}

-----------------------------------------------------------------------------
(* The entry.                                                              *)

\* systemd and podman start a container in a new file system, or podman
\* restarts the one there is.
Start ==
  /\ entry = "down" /\ starts < MaxStarts
  /\ entry' = "check" /\ starts' = starts + 1
  /\ NewFiles \/ UNCHANGED <<fs, image, failed, ever>>
  /\ UNCHANGED <<daemon, stream, granted, toLink, server>>

Goes(from, to) == /\ entry = from /\ entry' = to
                  /\ UNCHANGED <<daemon, stream, granted, toLink, server, image,
                                 starts, ever>>

\* Mutated: the marker is written when the work begins.
CheckAndMark == /\ Goes("check", IF marker THEN "fork" ELSE "userdel")
                /\ marker' = TRUE
                /\ UNCHANGED <<uid, groups, members, links, failed>>

\* Without the variables that tell of the host's user there is nothing to do.
CheckMarker == /\ Goes("check", IF marker THEN "fork" ELSE "userdel")
               /\ UNCHANGED <<fs, failed>>

\* Whoever else has the host's user id goes, with his home; failures of the
\* tools are not looked at.
RemoveForeign ==
  /\ Goes("userdel", "groupadd")
  /\ IF uid["other"] = "host"
     THEN \/ uid' = [uid EXCEPT !["other"] = "none"] /\ failed' = failed
          \/ uid' = uid /\ failed' = TRUE
     ELSE UNCHANGED <<uid, failed>>
  /\ UNCHANGED <<groups, members, marker, links>>

\* groupadd, or else addgroup.
AddGroup ==
  /\ Goes("groupadd", "useradd")
  /\ IF "user" \notin groups
     THEN \/ groups' = groups \cup {"user"} /\ failed' = failed
          \/ groups' = groups /\ failed' = TRUE
     ELSE UNCHANGED <<groups, failed>>
  /\ UNCHANGED <<uid, members, marker, links>>

\* useradd, or else adduser, which can do without the group but not with an id
\* that is taken.  A user of that name is taken as he is.
AddUser ==
  /\ Goes("useradd", "join")
  /\ IF uid["user"] = "none"
     THEN \/ /\ uid["other"] # "host"
             /\ uid' = [uid EXCEPT !["user"] = "host"] /\ failed' = failed
          \/ uid' = uid /\ failed' = TRUE
     ELSE UNCHANGED <<uid, failed>>
  /\ UNCHANGED <<groups, members, marker, links>>

\* The groups without the user are looked for in /etc/group ...
JoinGroups ==
  /\ Goes("join", IF groups \ {"user"} \subseteq members THEN "sudo" ELSE "rewrite")
  /\ UNCHANGED <<fs, failed>>

\* ... which is then written anew, from the beginning: a container that is
\* killed in the middle has lost its groups.  A write may fail.
RewriteGroups ==
  /\ Goes("rewrite", "sudo")
  /\ \/ members' = groups \ {"user"} /\ failed' = failed
     \/ members' = members /\ failed' = TRUE
  /\ UNCHANGED <<uid, groups, marker, links>>

\* sudoers, the runtime directory and dconf's: files of fixed contents.
Sudoers == Goes("sudo", "mark") /\ UNCHANGED <<fs, failed>>

Mark == /\ Goes("mark", "fork")
        /\ marker' \in {TRUE, marker}
        /\ UNCHANGED <<uid, groups, members, links, failed>>

\* The child becomes the daemon, as root; the parent takes on the user's ids,
\* if it can, and the command takes its place.
Fork == /\ entry = "fork" /\ daemon = "none"
        /\ entry' = "command" /\ daemon' = "connect"
        /\ UNCHANGED <<fs, stream, granted, toLink, others>>

Kill ==
  /\ entry # "down"
  /\ entry' = "down" /\ daemon' = "none" /\ stream' = FALSE
  /\ granted' = {} /\ toLink' = {}
  /\ IF entry = "rewrite"
     THEN \E lost \in {{}, groups} : groups' = groups \ lost /\ members' = members \ lost
     ELSE UNCHANGED <<groups, members>>
  /\ UNCHANGED <<uid, marker, links, others>>

-----------------------------------------------------------------------------
(* The daemon and the host server.                                         *)

DaemonIs(from, to) == /\ daemon = from /\ daemon' = to
                      /\ UNCHANGED <<uid, groups, members, marker, entry, server,
                                     image, starts, failed>>

\* Three attempts, on a path that must be the host's: without XDG_RUNTIME_DIR
\* root looks in /run/user/0.
Connect == /\ \/ DaemonIs("connect", "hello") /\ stream' = TRUE
              \/ DaemonIs("connect", "none") /\ stream' = FALSE
           /\ UNCHANGED <<links, granted, toLink, ever>>

\* Mutated: what is asked for is granted.
GrantsAll(asked) == asked

\* What the container's definition enables.
Accepted(asked) == asked \cap server.enabled

\* Mutated: the interceptors are linked without regard to what is accepted.
HandshakeLinksAll ==
  /\ stream /\ server.protocol = image
  /\ DaemonIs("hello", "unlink")
  /\ granted' = Accepted(Caps) /\ toLink' = Caps /\ ever' = ever \cup granted'
  /\ UNCHANGED <<links, stream>>

\* Hello and HelloAck.  (A Shutdown, to another protocol, and a stream that has
\* ended, end the daemon.)
Handshake ==
  /\ stream /\ server.protocol = image
  /\ DaemonIs("hello", "unlink")
  /\ granted' = Accepted(Caps) /\ toLink' = granted' /\ ever' = ever \cup granted'
  /\ UNCHANGED <<links, stream>>

\* The interceptors are linked in a fixed order.
NextLink == CHOOSE c \in toLink : TRUE

\* Each link is removed, if it is there, and made again.
Unlink == /\ DaemonIs("unlink", "link") /\ toLink # {}
          /\ links' = links \ {NextLink}
          /\ UNCHANGED <<stream, granted, toLink, ever>>

Link == /\ DaemonIs("link", "unlink")
        /\ links' = links \cup {NextLink} /\ toLink' = toLink \ {NextLink}
        /\ UNCHANGED <<stream, granted, ever>>

\* The PATH is written, and then the daemon listens.
Listen == /\ DaemonIs("unlink", "listening") /\ toLink = {}
          /\ UNCHANGED <<links, stream, granted, toLink, ever>>

\* A failing link or PATH, a connection that ends: the daemon is gone until the
\* container starts again.
DaemonEnds == /\ daemon # "none" /\ daemon' = "none" /\ stream' = FALSE
              /\ granted' = {} /\ toLink' = {}
              /\ UNCHANGED <<fs, entry, others>>

\* The host server comes back with another definition, or another podbox; the
\* daemon will find its stream at an end.
ServerRestarts ==
  /\ server' \in [protocol : Versions, enabled : SUBSET Caps]
  /\ stream' = FALSE
  /\ UNCHANGED <<fs, entry, daemon, granted, toLink, image, starts, failed, ever>>

Next == \/ Start \/ CheckMarker \/ RemoveForeign \/ AddGroup \/ AddUser
        \/ JoinGroups \/ RewriteGroups \/ Sudoers \/ Mark \/ Fork \/ Kill
        \/ Connect \/ Handshake \/ Unlink \/ Link \/ Listen \/ DaemonEnds
        \/ ServerRestarts

Spec == Init /\ [][Next]_vars

-----------------------------------------------------------------------------
(* Properties.                                                             *)

\* The marker, which makes every later start skip the work, is only there when
\* the work was done from its beginning to its end, however often a start was
\* killed in the middle of it: the user exists, alone with the host's id, and
\* is in every group there is.  Left out are file systems in which a tool
\* failed: nothing looks at that, and the marker stands all the same.
MarkerMeansSetUp ==
  marker /\ ~failed =>
    /\ uid["user"] # "none" /\ uid["other"] # "host"
    /\ "user" \in groups /\ groups \ {"user"} \subseteq members

\* A daemon that listens to the server that greeted it speaks its protocol and
\* has linked what that server's definition enables.  Links of capabilities
\* that are no longer enabled may be there too, but only if this file system's
\* daemons once were granted them.
ListenerIsServed ==
  /\ daemon = "listening" /\ stream =>
       image = server.protocol /\ granted = server.enabled /\ granted \subseteq links
  /\ links \subseteq ever
=============================================================================
