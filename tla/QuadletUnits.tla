---------------------------- MODULE QuadletUnits ----------------------------
(***************************************************************************)
(* The unit files of one container and what systemd makes of them:         *)
(* `podbox enable`, `start`, `stop`, `disable` and `remove --stale`, each  *)
(* a sequence of file writes and systemctl calls that may fail or be       *)
(* interrupted between any two of them, while systemd, the container and   *)
(* other commands go on.                                                   *)
(*                                                                         *)
(* A definition (the container's TOML) is abstracted to its version; a     *)
(* unit file, a loaded unit and a running unit to the version they were    *)
(* generated from, 0 if there is none.                                     *)
(***************************************************************************)
EXTENDS Naturals, Sequences

CONSTANTS
  Versions,   \* versions of the container's definition, without 0
  Prebuilt,   \* those of a prebuilt image: no .build file
  Proxied     \* those that use the filtered D-Bus proxy

ASSUME VersionsAssumption ==
  /\ Versions \subseteq Nat \ {0}
  /\ Prebuilt \subseteq Versions /\ Proxied \subseteq Versions

VARIABLES
  modern,   \* is podman at least 5.6?
  config,   \* the definition in podbox's config directory, 0 if there is none
  files,    \* the unit files on disk
  loaded,   \* the units as systemd last read them
  socket,   \* is NAME.socket listening?
  host,     \* the NAME-host.service that runs, 0 if none does
  service,  \* the NAME.service (the container) that runs, 0 if none does
  failed,   \* is NAME.service in the failed state?
  cmd,      \* the podbox command at work
  ver,      \* the definition it loaded when it began
  todo,     \* the steps it still has to take
  \* history, read by properties only
  missed,   \* calls of the command at work that failed without anyone noticing
  down      \* has a removal run to its end, and nothing been installed since?

disk    == <<config, files>>
systemd == <<loaded, socket, host, service, failed>>
command == <<cmd, ver, todo>>
history == <<missed, down>>
vars    == <<modern, disk, systemd, command, history>>

Files    == {"build", "container", "socket", "host", "proxy"}
Commands == {"none", "enable", "start", "disable", "stale"}
Writing  == [build |-> "write-build", container |-> "write-container",
             socket |-> "write-socket", host |-> "write-host", proxy |-> "write-proxy"]
Removing == [build |-> "rm-build", container |-> "rm-container", socket |-> "rm-socket"]
Steps    == {"quadlet-install", "reload", "reset-failed", "stop-socket",
             "stop-host", "enable-socket", "start-host", "ensure-running",
             "quadlet-rm", "rm-build", "rm-container", "rm-socket",
             "final-reload", "rm-f", "rm-config"}
            \cup {"write-build", "write-container", "write-socket",
                  "write-host", "write-proxy"}

\* The calls of systemctl and podman whose result nobody looks at; those of them
\* that matter to what an install is to achieve.
Ignored == {"reload", "reset-failed", "stop-socket", "stop-host", "enable-socket",
            "start-host", "final-reload", "rm-f"}
Missable == {"reload", "stop-host", "enable-socket"}

TypeOK ==
  /\ modern \in BOOLEAN
  /\ config \in Versions \cup {0}
  /\ files \in [Files -> Versions \cup {0}]
  /\ loaded \in [Files -> Versions \cup {0}]
  /\ socket \in BOOLEAN /\ failed \in BOOLEAN
  /\ host \in Versions \cup {0} /\ service \in Versions \cup {0}
  /\ cmd \in Commands /\ ver \in Versions \cup {0}
  /\ todo \in Seq(Steps)
  /\ missed \in SUBSET Missable /\ down \in BOOLEAN

NoUnits == [f \in Files |-> 0]

Init ==
  /\ modern \in BOOLEAN
  /\ config \in Versions
  /\ files = NoUnits /\ loaded = NoUnits
  /\ socket = FALSE /\ host = 0 /\ service = 0 /\ failed = FALSE
  /\ cmd = "none" /\ ver = 0 /\ todo = <<>>
  /\ missed = {} /\ down = FALSE

-----------------------------------------------------------------------------
(* What the commands do, step by step.                                     *)

If(condition, step) == IF condition THEN <<step>> ELSE <<>>

\* Mutated: systemd reads the units before the custom ones are written.
ReloadFirst(v) ==
  (IF modern THEN <<"quadlet-install">>
   ELSE If(v \notin Prebuilt, "write-build") \o <<"write-container">>)
  \o <<"reload", "write-socket", "write-host">>
  \o If(v \in Proxied, "write-proxy")
  \o <<"reset-failed", "stop-socket", "stop-host", "enable-socket", "start-host">>

\* Mutated: nothing is stopped, as `enable --now` and `start` seem to do.
NothingStopped(v) ==
  (IF modern THEN <<"quadlet-install">>
   ELSE If(v \notin Prebuilt, "write-build") \o <<"write-container">>)
  \o <<"write-socket", "write-host">> \o If(v \in Proxied, "write-proxy")
  \o <<"reload", "reset-failed", "enable-socket", "start-host">>

\* Mutated: the proxy is stopped too, by a step nobody carries out.
StopsProxyToo(v) ==
  (IF modern THEN <<"quadlet-install">>
   ELSE If(v \notin Prebuilt, "write-build") \o <<"write-container">>)
  \o <<"write-socket", "write-host">> \o If(v \in Proxied, "write-proxy")
  \o <<"reload", "reset-failed", "stop-socket", "stop-host", "stop-proxy",
       "enable-socket", "start-host">>

\* install: the quadlet files, the custom units, and five systemctl calls.
Install(v) ==
  (IF modern THEN <<"quadlet-install">>
   ELSE If(v \notin Prebuilt, "write-build") \o <<"write-container">>)
  \o <<"write-socket", "write-host">> \o If(v \in Proxied, "write-proxy")
  \o <<"reload", "reset-failed", "stop-socket", "stop-host", "enable-socket",
       "start-host">>

\* Mutated: only the custom units are removed.
CustomUnitsOnly == <<"rm-socket", "final-reload">>

\* uninstall: of the custom units NAME.socket, NAME.host.service and
\* NAME.proxy.service are looked for; the last two are the names of no unit.
Uninstall ==
  (IF modern THEN <<"quadlet-rm">> ELSE <<"rm-build", "rm-container">>)
  \o <<"rm-socket", "final-reload">>

\* run_remove_stale goes on after an uninstall that failed.
AfterUninstall == <<"rm-f", "reset-failed", "rm-config">>

Begin(c, v, steps) ==
  /\ todo = <<>>
  /\ cmd' = c /\ ver' = v /\ todo' = steps
  /\ UNCHANGED <<modern, disk, systemd, history>>

Enable == config # 0 /\ Begin("enable", config, Install(config))

\* run_start installs when the .container file is missing (the image, which
\* it looks at first, is in BuildLock).
Start ==
  /\ config # 0
  /\ Begin("start", config,
           (IF files["container"] = 0 THEN Install(config) ELSE <<>>)
           \o <<"ensure-running">>)

Disable == Begin("disable", 0, Uninstall)

\* find_stale_containers: no definition, or the unit has failed.  A container
\* that podman does not know counts as stopped while its .container file
\* exists (query_state), so the Missing arm never applies.
Stale == /\ files["container"] # 0
         /\ config = 0 \/ (service = 0 /\ failed)

\* The answer to the prompt may take any time, and nothing is read again.
RemoveStale == Stale /\ Begin("stale", 0, Uninstall \o AfterUninstall)

\* A command that has nothing left to do is over.
Carry(m) == /\ cmd' = IF todo' = <<>> THEN "none" ELSE cmd
            /\ ver' = IF todo' = <<>> THEN 0 ELSE ver
            /\ missed' = IF todo' = <<>> THEN {} ELSE m

\* Ctrl-C, or an error that ends the command.
Interrupt ==
  /\ todo # <<>>
  /\ todo' = <<>> /\ Carry({})
  /\ UNCHANGED <<modern, disk, systemd, down>>

UninstallFails ==
  /\ cmd = "stale" /\ Len(todo) > Len(AfterUninstall)
  /\ todo' = AfterUninstall
  /\ UNCHANGED <<modern, disk, systemd, cmd, ver, history>>

-----------------------------------------------------------------------------
(* The steps.                                                              *)

Step(s) == /\ todo # <<>> /\ Head(todo) = s
           /\ todo' = Tail(todo) /\ Carry(missed)
           /\ down' = (/\ s \notin {"quadlet-install", "write-container"}
                       /\ down \/ s = "final-reload")
           /\ UNCHANGED modern

\* A call fails, or is not made since there is no systemctl: nothing of it is
\* seen, and the command goes on.  (On modern podman a last reload that fails
\* has been made already, by `podman quadlet rm`.)
Dropped(s) ==
  /\ s \in Ignored
  /\ todo # <<>> /\ Head(todo) = s
  /\ todo' = Tail(todo) /\ Carry(missed \cup ({s} \cap Missable))
  /\ down' = (down \/ (modern /\ s = "final-reload"))
  /\ UNCHANGED <<modern, disk, systemd>>

\* `podman quadlet install --replace` copies the files and reloads systemd.
QuadletInstall ==
  /\ Step("quadlet-install")
  /\ files' = [files EXCEPT !["container"] = ver,
                            !["build"] = IF ver \in Prebuilt THEN @ ELSE ver]
  /\ loaded' = files'
  /\ UNCHANGED <<config, socket, host, service, failed>>

Write(f) ==
  /\ Step(Writing[f])
  /\ files' = [files EXCEPT ![f] = ver]
  /\ UNCHANGED <<config, systemd>>

Reload == /\ Step("reload")
          /\ loaded' = files
          /\ UNCHANGED <<disk, socket, host, service, failed>>

ResetFailed == /\ Step("reset-failed")
               /\ failed' = FALSE
               /\ UNCHANGED <<disk, loaded, socket, host, service>>

\* NAME.service Requires NAME.socket: stopping the socket stops the container.
StopSocket == /\ Step("stop-socket")
              /\ socket' = FALSE /\ service' = 0
              /\ UNCHANGED <<disk, loaded, host, failed>>

StopHost == /\ Step("stop-host")
            /\ host' = 0
            /\ UNCHANGED <<disk, loaded, socket, service, failed>>

\* A socket unit starts only when the service it activates can be loaded.
CanListen == loaded["socket"] # 0 /\ loaded["host"] # 0

EnableSocket == /\ Step("enable-socket")
                /\ socket' = (socket \/ CanListen)
                /\ UNCHANGED <<disk, loaded, host, service, failed>>

StartHost == /\ Step("start-host")
             /\ host' = IF host = 0 THEN loaded["host"] ELSE host
             /\ UNCHANGED <<disk, loaded, socket, service, failed>>

\* NAME.service Requires the socket and, if it was generated so, the proxy.
Startable == /\ loaded["container"] # 0 /\ CanListen
             /\ loaded["container"] \in Proxied => loaded["proxy"] # 0

\* ensure_running: nothing if it runs; else `systemctl start`, which may fail,
\* and a wait with a deadline.
EnsureRunning ==
  /\ Step("ensure-running")
  /\ \/ /\ service = 0 /\ Startable
        /\ service' = loaded["container"] /\ socket' = TRUE /\ failed' = FALSE
     \/ /\ service = 0
        /\ failed' \in {failed, Startable}
        /\ UNCHANGED <<service, socket>>
     \/ /\ service # 0
        /\ UNCHANGED <<service, socket, failed>>
  /\ UNCHANGED <<disk, loaded, host>>

\* `podman quadlet rm` removes the quadlet's files and reloads systemd.
QuadletRm ==
  /\ Step("quadlet-rm")
  /\ files' = [files EXCEPT !["container"] = 0, !["build"] = 0]
  /\ loaded' = files'
  /\ UNCHANGED <<config, socket, host, service, failed>>

Remove(f) == /\ Step(Removing[f])
             /\ files' = [files EXCEPT ![f] = 0]
             /\ UNCHANGED <<config, systemd>>

FinalReload == /\ Step("final-reload")
               /\ loaded' = files
               /\ UNCHANGED <<disk, socket, host, service, failed>>

\* `podman rm -f`: systemd sees the container die.
ForceRemove == /\ Step("rm-f")
               /\ service' = 0
               /\ failed' \in {failed, failed \/ service # 0}
               /\ UNCHANGED <<disk, loaded, socket, host>>

RemoveConfig == /\ Step("rm-config")
                /\ config' = 0
                /\ UNCHANGED <<files, systemd>>

-----------------------------------------------------------------------------
(* The surroundings.                                                       *)

\* The user edits, deletes or restores the definition.
EditConfig(v) == /\ config' = v
                 /\ UNCHANGED <<modern, files, systemd, command, history>>

\* Some other command reloads systemd.
OtherReload == /\ loaded' = files
               /\ UNCHANGED <<modern, disk, socket, host, service, failed, command, history>>

\* `podbox stop`, the idle stop, or the container crashes; after a crash
\* systemd restarts it a few times and then gives up.
ServiceEnds == /\ service # 0
               /\ \/ /\ service' = 0 /\ failed' \in BOOLEAN
                     /\ UNCHANGED socket
                  \/ /\ Startable
                     /\ service' = loaded["container"] /\ failed' = FALSE
                     /\ socket' = TRUE
               /\ UNCHANGED <<modern, disk, loaded, host, command, history>>

HostCrashes == /\ host # 0
               /\ host' = 0
               /\ UNCHANGED <<modern, disk, loaded, socket, service, failed, command, history>>

\* A connection to the listening socket, or Restart=on-failure.
HostActivated == /\ host = 0 /\ socket /\ loaded["host"] # 0
                 /\ host' = loaded["host"]
                 /\ UNCHANGED <<modern, disk, loaded, socket, service, failed, command, history>>

Commander == Enable \/ Start \/ Disable \/ RemoveStale \/ Interrupt \/ UninstallFails

Next ==
  \/ Commander
  \/ QuadletInstall \/ (\E f \in Files : Write(f))
  \/ (\E s \in Ignored : Dropped(s))
  \/ Reload \/ ResetFailed \/ StopSocket \/ StopHost \/ EnableSocket \/ StartHost
  \/ EnsureRunning
  \/ QuadletRm \/ (\E f \in {"build", "container", "socket"} : Remove(f))
  \/ FinalReload \/ ForceRemove \/ RemoveConfig
  \/ (\E v \in Versions \cup {0} : EditConfig(v))
  \/ OtherReload \/ ServiceEnds \/ HostCrashes \/ HostActivated

Spec == Init /\ [][Next]_vars

Needed(v) == {"container", "socket", "host"}
             \cup (IF v \in Prebuilt THEN {} ELSE {"build"})
             \cup (IF v \in Proxied THEN {"proxy"} ELSE {})

-----------------------------------------------------------------------------
(* Properties.                                                             *)

\* The end of an install: its last call, whether it takes effect or not.
InstallEnds == StartHost \/ Dropped("start-host")

\* Podman's own reload has read these, whatever becomes of podbox's.
ReadByPodman == IF modern THEN {"build", "container"} ELSE {}

\* Whatever installs, removals and interruptions went before, an install that
\* runs to its end leaves every unit of its definition on disk and systemd
\* with exactly those units loaded, unless podbox's reload failed unseen; and
\* the container's own units even then, where podman installs them.  (Units
\* that only an earlier definition needed are not spoken of: they stay.)
InstallConverges ==
  [][InstallEnds =>
       \A f \in Needed(ver) :
         /\ files'[f] = ver
         /\ "reload" \notin missed \/ f \in ReadByPodman => loaded'[f] = ver]_vars

\* It also leaves the socket listening, unless the reload or the enabling
\* failed, and no host server of another definition behind it, unless the
\* reload or the stop did; one of its own if its start succeeded.  A
\* reset-failed or a stop of the socket that fails does no harm to that, nor
\* does a connection that activates the host server between any two calls.
InstallServes ==
  [][InstallEnds =>
       /\ missed \cap {"reload", "enable-socket"} = {} => socket'
       /\ missed \cap {"reload", "stop-host"} = {} =>
            host' \in (IF StartHost THEN {ver} ELSE {0, ver})]_vars

\* A removal that has run to its end, its reload done (by podman or by podbox),
\* leaves systemd without a unit to start the container from, and no reload,
\* crash, interrupted command or edit of the definition brings one back until
\* the container is installed anew.
DisableStaysDown == down => loaded["container"] = 0
=============================================================================
