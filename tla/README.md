# Verification of podbox

podbox turns a TOML definition into a rootless podman container that systemd
runs from Quadlet units. Three programs work together: the `podbox` command,
a host server per container (`podbox serve`, socket activated), and a guest
daemon (`podbox-guest`) inside the container. This directory holds TLA+ models
of the parts in which several actors, failures, long histories or many
combinations meet, the TLC configurations that check them, and TLAPS proofs
about them. Paths are relative to `src/`, the root of the repository.

Run `tlc -config X.cfg M.tla` for a configuration and `tlapm M.tla` for the
proofs. `PROJECT.json` lists the runs, what each definition translates
(`map`), a mutant for every property, and the hazards by source line.

## Inventory

| Component | State | Operations | Why it is hard | What makes it correct | Modules |
|---|---|---|---|---|---|
| **Idle stop**: `podbox/src/socket_host.rs`, `podbox-guest/src/daemon.rs`, `socket.rs`, `commands/runtime.rs`, `process.rs` | `session_count`, `daemon_stream`, connection and monitor threads; the daemon's tracked pidfds; frames in the sockets | register a session, monitor it, handshake, CheckIdle / Busy / IdleTimeout, stop the unit | a thread per connection and per session, two processes, pidfds, a scan of `/proc` that is not atomic, server and container restarts | the count is the number of live monitors; exactly one monitor asks; a drained container is stopped; nobody whom the scan could see is killed | `IdleStop`, `SessionLedger`, `IdleStopProofs` |
| **Quadlet units and systemd**: `quadlet_install.rs`, `commands/lifecycle.rs` | unit files, what systemd has loaded, what runs | install, uninstall, start, remove stale | a dozen file writes and `systemctl` calls in a row, interruptible anywhere, of which the latter fail without anyone noticing; definitions that change in between; systemd activating units meanwhile | an install converges and serves, as far as no call failed unseen; nothing starts after a disable | `QuadletUnits`, `QuadletUnitsProofs` |
| **Image build and lock**: `build.rs`, `lock.rs`, `commands/pull.rs` | Containerfile, lock file, image tag | build, rebuild, skip, pull, create, snapshot, restore | the lock is a cache of "this image is of this definition" kept apart from the image, written after it, not atomically | a lock means its image; a skip is right | `BuildLock`, `BuildLockProofs` |
| **Host server requests**: `socket_host.rs`, `socket_host/handlers.rs` | a thread per connection, the commands it started, the replies it has yet to write; the enabled capabilities | host-exec, notify, clipboard, xdg-open, the handshake | commands that outlive their caller, callers that outlive the server, a limit on threads, requests read after their sender has gone | what the guest is told is what the command did; nothing runs twice; places come back | `HostRequests`, `RemoteCommand`, `HostRequestsProofs`; capabilities in `GuestSetup` |
| **Guest interceptors**: `podbox-guest/src/interceptors/` | the connection of a request, its exit code | the same, from inside | a connection that is dropped, or ends too early, looks like success; no read has a timeout | exit codes are those of the host; nobody waits for what is not his own | `HostRequests`, `RemoteCommand`, `HostRequestsProofs` |
| **Wire framing**: `podbox-protocol/src/lib.rs` | bytes of a stream | write_frame, read_frame, send_fd, recv_fd | two writers of one stream, a read timeout in mid-frame, 16 MiB and `u32` limits | what is read is what was written, in step, or an error | `Framing`, `HostRequestsProofs` |
| **Guest entry**: `podbox-guest/src/entry.rs`, `daemon.rs` | user, groups, marker and links in the container's file system | set up the user, fork the daemon, link interceptors | runs again on every start over what earlier ones, finished or killed, left | a marked set-up is a whole one; a listening daemon is linked as it was granted | `GuestSetup`, `GuestSetupProofs` |
| **Configuration and context**: `main.rs`, `config/`, `commands/context.rs`, `fs_util.rs` | definitions, the active context | resolve, load, default, validate | several sources of a name, files that others change while a command waits | the definition acted on exists, and is not replaced by accident | `Containers`, `ContainersProofs`, `Definitions`, `DefinitionsProofs` |
| **Image labels**: `labels.rs` | the definition being completed | apply defaults | two forms of labels; run after the other defaults | the generated units still agree with each other | `Definitions`, `DefinitionsProofs` |
| **Exported applications**: `export.rs` | `.desktop` files, icons and wrappers on the host | export, export all, clean | names of one container begin those of another; files are shared, with the user too; commands run side by side and go from file to file; errors of a clean are dropped | a clean that met no error leaves nothing; unrelated containers are left alone | `Exports`, `ExportsProofs` |
| **Package drift**: `diff.rs`, `commands/diff.rs` | packages in the definition and in the container | diff, diff --apply | the definition is read twice; two notions of "base package" | the list written leaves no drift, and nothing else changes | `Definitions`, `DefinitionsProofs`, `Containers` |
| **Snapshots, clone, removal, status**: `commands/lifecycle.rs`, `commands/clone.rs` | images, definitions, home directories | clone, remove, remove --all, remove --stale, snapshot, restore | shared homes; questions that stay open; tags that change under a lock | a removal takes nobody else's home; a clone means what its source means | `Containers`, `Definitions`, `BuildLock`, their proofs; status is not modelled |
| **Unit and Containerfile text**: `codegen/`, `xdg.rs`, `env.rs` | none | the directives of the units | decided in several places from one definition | the units fit together, the host and the image | `Definitions`, `DefinitionsProofs` |
| **Path translation**: `commands/translate.rs`, `xdg.rs` | none | translate-path in both directions | XDG directories that lie in one another, in the home or not, under names of the host | the path printed is one of the same file | not modelled |
| **Wizard, editor, profiles, command line**: `wizard/`, `editor.rs`, `profiles.rs`, `cli.rs`, `main.rs` | none kept | create, init, edit, dispatch | what was loaded before an editor opened is used after it | what is built is what is defined | `Containers`, `Definitions`; prompts and parsing are not modelled |

How they interact. The command writes the files of the second and third
components and talks to systemd and podman by running them. The host server is
started by systemd on a connection to `NAME.socket`, or by the install; it is
the only one to stop an idle container. The command and the host server share
one message (RegisterSession with a pidfd); the host server and the daemon
share a connection that lasts as long as the daemon; interceptors use a
connection each. All connection threads share one limit, MAX_CONCURRENT. Every
command begins by finding and loading a definition; `Containers` is about which
one and when, `Definitions` about what follows from it, and `QuadletUnits` and
`BuildLock` about the steps in which that is carried out.

## Modules

Each component's parameters are CONSTANTS with the assumptions that its proofs
use; each operation is an action. `MC*` modules define instances for TLC where
a configuration file cannot.

### IdleStop, SessionLedger

`IdleStop` is the whole of the idle stop: the CLI from `ensure_running` to
`exec_replace`, the host server's `run`, `handle_connection`,
`handle_hello` and `monitor_pidfd`, the daemon's `run`, `event_loop` and
`scan_user_processes`, and systemd.

- `cli[s]` is the program counter of a CLI process. `sconn` and `dconn` are the
  host's sides of the connections: `queued` in the listening socket's backlog
  (which systemd owns, so it outlives a server), `open` with a thread, and for
  the daemon's also `replying` and `stopping`, the two places where its thread
  is between two calls.
- `count` is `session_count`, `mon[s]` the thread of a session's pidfd: `last`
  is between its `fetch_sub`, which returned 1, and its write of CheckIdle.
- `daemonStream` is the start whose daemon's stream is stored; a stream of a
  daemon that has gone stays stored.
- `dpc` is the daemon's place in its loop. A scan begins when `base` is set and
  ends in `DaemonIdle` or `DaemonBusy`: it finds what was there all the time,
  and perhaps what was there for a part of it (`Found`). `exited` holds indices
  into the Vec, collected by `poll` before the host's message is handled.
- A pid is a number; `/proc` lists ascending pids, so the Vec is a set in that
  order and an index is a `Rank`.

`SessionLedger` says what this amounts to without threads: a set of registered
sessions, of which exactly the one that empties the set owes a CheckIdle.
`ImplementsLedger` is the refinement: `active` is the set of waiting monitors
and `due` the set of those that are to ask.

`Residents` are processes that are there from the start and that the scan does not know
for its own: the init process that every generated unit asks for (`--init`,
`codegen/quadlet.rs:389`).

Abstractions: frames arrive whole (see `Framing`); opening `/proc` succeeds; the
retry delays of the daemon's connect are a nondeterministic failure; the
read timeouts are nondeterministic where the peer has not written
(`HandleNoPidfd`); the connection threads of interceptors are a number.

### QuadletUnits

One container's unit files (`files`), the units as systemd last read them
(`loaded`), and what runs (`socket`, `host`, `service`, `failed`), each by the
version of the definition it was generated from. A command is the list of the
steps it has yet to take (`todo`), computed when it begins as the code computes
it: `Install`, `Uninstall`, `AfterUninstall`. A step is an action; `Interrupt`
can end the command before any of them. With podman 5.6 (`modern`) the
quadlet files are put in place by `podman quadlet install`, otherwise written.
`Writing` and `Removing` name the step that writes or removes a file.

Nobody looks at what the calls of systemctl return (`quadlet_install.rs:25-98`), nor whether
there is a systemctl. `Ignored` are the steps that are such calls, and `Dropped(s)` is one
that has no effect while the command goes on. `missed` keeps which of them the command at
work has lost, if it matters to what its end promises (`Missable`), and `down` whether a
removal has run to its end since the last install; both are history. A failed
`podman quadlet` call or file operation ends the command, as an `Interrupt` does.

systemd is modelled by what the units generated by `codegen/quadlet.rs` say:
the container requires the socket and, for some definitions, the proxy;
stopping the socket therefore stops the container; the socket needs a
loadable host service; a connection or `Restart=on-failure` starts the host
server.

Abstractions: one container, and one podbox command at a time; the editing of
the definition, other reloads, crashes and activations go on meanwhile.

### BuildLock

The build context (`dir`, `file`), the lock file (`lock`, including `Torn`:
created with its content not yet written), the image tag (`image`: the version
it is an image of) and a program counter per command. `Build`, `Start`, `Pull`
load the definition and its checksum; the steps of `run_build`, `run_prebuilt`
and `run_pull` follow one by one, each may fail, each may be the last. The
definition is edited (and reverted), images are removed, and the context is
cleared meanwhile. `Snapshot` commits the container and `Restore`, `Retag` give
its image the tag. `labels` in a checksum tells whether the image's label
defaults had gone into the definition before the checksum was computed.

Nothing keeps two commands apart, so any number of them is at work on the one context,
lock and tag. What they can do to each other is told by two history variables. `own[p]`:
no command of another definition has written the Containerfile between p's writing it and
podman's reading it, nor has one, a pull or a restore touched the tag since. `sealed`: the lock was written by
such a command, and nothing but builds of the same definition have touched it or the
tag since. The properties say that these two windows are the only ones.

Abstractions: `Check` is one step although it reads the lock and then asks
podman for the image; the context is not cleared in the moment between the
creation of a lock and its writing.

### HostRequests

A call `r` is one run of an interceptor: `kind[r]` is `exec` (host-exec),
`tell` (xdg-open, clipboard set, notify-send without actions: written and not
waited for), `get` (clipboard get) or `ask` (notify-send with actions).
`call[r]` is its process between `connect`, `write_frame`, `read_frame` and
`exit`, and `exit[r]` the code it left with. `thread[r]` is the server's side
of the connection: `queued` in the backlog, `reading` in `read_frame`,
`outside` while it waits for a command, a program or an answer to a
notification, `replying` while it has frames (`out[r]`) to write. `toHost` and
`toGuest` are the two directions of the socket. `command[r]` is the process the
thread started, `result[r]` what it leaves; a frame of more than MAX_FRAME_SIZE
is `huge`: the writer lets it pass and the reader returns an error.

`Restart` closes the connections that had a thread and, as systemd kills the
whole control group, ends the commands; the backlog stays with the socket unit.
`runs`, `heardDone` and `served` are history.

`RemoteCommand` is what host-exec promises, without connections, threads and frames: the
command of a call is started or refused, once; it ends and leaves something, or dies with
the server; its caller may be told, once, of an end or a refusal. `HostRequests`
implements it (`ImplementsRemoteCommand`). `CommandState(r)` reads a command's state off
`served`, `command` and `runs`, and `Known(r)` what the caller knows: the exit code
and what has been printed, once HostExecDone has been read. What comes before it, the
dropped connections included, is stuttering. Two things make this more than
`DoneTellsAll`: a command may go on and end after its caller has left, but
not start again; and of a command that died with the server nobody is told anything,
in particular not HostExecDone with code 1, which says that nothing was done.

Abstractions: requests fit a frame and are written whole; a command ends when
it and all that hold its stdout and stderr have ended, and reading its output
does not fail; what makes a request refused is a nondeterministic choice (which
arguments, URIs and commands are refused is the text of the validators);
sessions and the daemon, which share the thread limit, are in `IdleStop`.

### Containers

What the user has: definitions by path (`file`, with the project's
`.podbox.toml` as `Local`), the active context, and per name the image's content
(`tag`), the unit file and the home directory. A command's name comes from an
argument, `-C` or `PODBOX_CONTAINER`, then from `.active`, then from there being
only one definition, then from a choice (`resolve_config`, `resolve_config_path`,
`find_definition`). `Run` is a command that ends at once; the others leave
`waiting` set, to what they remember (the definition they loaded, the path they
opened, the containers they found stale) while an editor, a pull or a question is
open. Meanwhile any other command may run and the user may save, write and
delete files: one command waits at a time, and any number of the others run.

Abstractions: the `[image]` section is its content, `rev`; the home is the one
field besides the name that several containers can have in common, and `own`
records whether it goes with the name. How long a command takes over its own
steps, and which of them fail, is in `BuildLock` and `QuadletUnits`. The last look for
a file and its writing are one step (`create.rs:156` and 170, 276 and 288, 369 and 377;
`clone.rs:18` and 47), though another command could come between the two.

### Definitions

The pure part: from a file to a configuration (`FromStr`, `ApplyDefaults`,
`Validate`, `ApplyLabels`), from a configuration to an image (`Containerfile`,
`Overlay`) and to the units' directives (`EmitUnit` to `EmitService`, one operator
per function of `codegen/quadlet.rs`), and back to a file (`ToStringPretty`). A file
is the set of its tables and a function of its keys, so that "absent", "empty
table" and "default written out" are told apart, as serde does. The actions are
the commands that write definitions (`Clone`, `Create`, `Compare` and `Patch` of
`diff --apply`) or units (`Enable`, which looks at labels, and `Start`, which does
not), and packages that come and go in the running container.

Abstractions: a list or an option is a set; a text that a check refuses is
`malformed`; one XDG directory, `Documents`, stands for seven that the code treats
alike in a loop; names and paths are left out. `TextsAssumption` says that the user's
own directives do not name podbox's units and sockets: podbox does not look.

### Exports

Names are sequences of parts, so that `podbox-a-b-x.desktop` is both `a`'s entry of
`b-x` and `a-b`'s of `x`. A file in `~/.local/bin` is told by the containers
that its text enters (`shim`): one for a shim, any for a script of the user's (`Scripts`,
`UserWrites`), none for another program or an empty file. A command is a small program of
steps on one file each. `ExportApps` writes an entry and then an icon per application;
`ExportBins` opens a shim, which empties it, and writes it (`OpenShim`, `WriteShim`).
`Clean` goes through the entries (by prefix of the file name), the icons (by directory)
and the programs, each of which it reads and then, if the text is found,
removes (`ReadShim`, `RemoveShim`). Any reading or removal may fail, which nobody is
told; several commands run side by side, and any may be interrupted.

`clean` are the containers whose clean met no such failure with something of theirs and for
which nothing was made since; `amid[b]` the cleans that were running when b was last
written. Both are history.

Abstractions: a clean comes to each name once, in any order, and removes what is
there by then; the old directory of icons goes with the present one.

### GuestSetup

The entry, from the marker's test to the fork, step by step on a file system
(`uid`, `groups`, `members`, `marker`, `links`) that outlives the start; any tool may
fail and the container may be killed anywhere, in particular while `/etc/group`
is being rewritten. The daemon connects, is greeted and granted what the server's
definition enables, and relinks one interceptor after another. The server comes
back with another definition or protocol at any time. `failed` and `ever` are
history.

Abstractions: one user id is shared by at most one other name; contents of
sudoers, PATH and dconf files are fixed and left out.

### Framing

One direction of a connection byte by byte. A script says what each writer
writes and whether the reader's reads time out; two writers share the stream as
the connection's thread and a monitor do. Reads time out only at the host, to which
one process writes on each connection, and a descriptor follows only the last message
of one (RegisterSession): `ScriptsAssumption` says so. `write_frame` is a length
in one write or two (`Begin`, `WriteLength`) and a body in any number, `read_frame`
as many reads as it takes, and a timeout forgets what was read. `begun` is the
messages in the order of their first bytes. A byte is the place of its message in
`begun` and its own place in the frame, and what it says, `Digit`, follows from these; so
`delivered`, which is places, tells a lost message from one that was taken for
another. A length has two digits to the base `Base`, so both limits, that of
the reader and that of the field, lie within reach.

### Proof modules

`IdleStopProofs`, `BuildLockProofs`, `HostRequestsProofs`, `QuadletUnitsProofs`,
`ContainersProofs`, `DefinitionsProofs`, `ExportsProofs` and `GuestSetupProofs`
extend the modules above. `HostRequestsProofs` extends both `HostRequests` and
`Framing`, the two models of one connection, and so the definitions of the latter
that would have a name twice begin with `Wire`.

## Runs

The configurations give the constants as numbers or model values, and the `MC`
modules define those that are sets of records or sequences. CHECK_DEADLOCK is
FALSE throughout: the system may come to rest, since nobody has to start another
session or command and the starts and restarts are bounded.

| Run | Checks | Instance | Shows |
|---|---|---|---|
| `idle_safe` | TypeOK, CountIsMonitors, IdleSawNobody, ThreadsBounded, ImplementsLedger | 2 sessions, 1 background process, 1 start, 1 server restart, MaxConcurrent 2, 1 interceptor | the count, the ledger, the thread limit and the scan under every interleaving (about 480,000 states) |
| `idle_live` | DrainedContainerStops, WatchEndsInRescan, CountDrains, HandshakeEnds | 1 session, 1 background process, 2 starts, 1 server restart | without an init process nothing waits for a wake-up that does not come |
| `units_safe` | TypeOK, InstallConverges, InstallServes, DisableStaysDown | 2 versions that differ in kind and proxy | installs converge after any history, as far as their calls succeeded; removals last (about 2.8 million states) |
| `lock_safe` | TypeOK, LockMeansImage, SkipIsTrue | 3 versions, one of each kind, 2 commands at once | the lock means its image whatever was interrupted, and whoever builds the same (about 2.8 million states) |
| `host_calls` | ImplementsRemoteCommand, TypeOK, DoneTellsAll, RunsAtMostOnce, WaitsForItsOwn, PlacesComeBack, AcceptedIsServed | 2 calls of all kinds, a limit of 1 thread, 1 restart, 1 ping each, 4 results | calls behave like remote commands; what is told is all and in order; nothing runs twice; waits end, places come back and requests of those who have gone are served (about 140,000 states) |
| `containers` | TypeOK, NeverOverwritten, BuiltIsDefined, RemoveSparesOthers | 2 containers, one of them a profile's name, the other a project's, 2 contents | no command replaces a definition, builds another's or takes another's home, whatever happens while it waits (about 530,000 states) |
| `definitions` | UnitsAgree, WrittenAsMeant | every pair of 30 entries in a file, 3 hosts, 4 images' labels, 2 packages | units agree; definitions written mean what they were made from (about 320,000 states) |
| `exports` | TypeOK, CleanLeavesNothing, UnrelatedLeftAlone | containers `a`, `a-b` and `b`, applications `x` and `b-x`, 1 program, 2 commands at once, a program and a script of the user's | cleans that meet no error are complete, and take nothing from containers with unrelated names nor a program that has nothing to do with theirs (about 880,000 states) |
| `guest` | TypeOK, MarkerMeansSetUp, ListenerIsServed | 2 capabilities, 2 groups, 2 protocol versions, 3 starts | a set-up killed anywhere is done again; the links are those granted (about 510,000 states) |
| `framing` | WireTypeOK, InStep, QuietAfterTear | base 4, MAX_FRAME_SIZE 11, 6 scripts | the reader is in step, and after a torn read it delivers nothing wrong (about 516,000 states) |
| `idle_stays`, `host_code` | one property each | the smallest instance that shows it | the disagreements below |

Why the bounds are enough. Two sessions are what it takes for two monitors to
end together, or for a session to come while another ends; three processes
(two sessions and one background) for indices to shift under the daemon. With
MaxConcurrent 2 the limit is reached by the daemon, a session and an
interceptor, which the code's 4 would need more of each for. Two starts give an
old daemon whose frames are read late; one server restart loses sessions,
monitors and stream. Two versions give an earlier and a later definition, and
the three versions in `lock_safe` are of the kinds that the code tells apart: built, prebuilt
as it is, and prebuilt with a layer and labels. Two commands there are a build and
the one that comes between two of its steps.
Two calls are the least that compete for a place, and calls share nothing else;
with a limit of 1 one of them is dropped, or waits in the backlog over the
restart. One ping suffices since the guest leaves at the first it reads, and the
four results have every combination of a stream that is empty, fits a frame or
does not, that `Output` tells apart, with and without a failure.

Two containers give another one to every command, and two contents an edit; a
profile has the name of one and can make the other, and a project's definition
competes with one of them. Pairs of entries suffice for `definitions` since a branch
of the code reads at most two keys of different origin at once (a list and the
bus, a preset and the labels); entries include a table with no key, a preset that is not
known, and a list that has a base package. Of the three names in `exports` one
begins another, and the applications make one file of two containers; the third
is unrelated to one, and ends the other. Three starts in `guest` are one that is
killed, one that finds what it left, and one that finds what that finished. In
`framing` a length beyond the reader's limit and one beyond the field are each
written, a body can hold what looks like a length, and a frame has a descriptor.

`Residents` is empty in the passing runs, though every generated unit asks for an init
process: with one no scan ever finds nobody (`idle_stays`) and no watch is ever over, so
that everything about IdleTimeout would hold for want of one. `IdleSawNobody`,
`DrainedContainerStops` and `WatchEndsInRescan` are therefore about the protocol as it would be
if the scan passed over that process, and say what a repair of the scan would bring
about; the other properties of the two runs do not depend on anybody's being found idle. The
theorems hold for every `Residents`.

Fairness (`IdleStop!Fairness`): weak fairness of each thread and process that
has something to do: a CLI that sends, executes or returns; the accept loop with
the handler threads; the monitors; the daemon's connection thread; the daemon's
loop. They are runnable threads of the operating system that block on
nothing else than what their guard says. `HostRequests!Fairness` is the same
for an interceptor between its calls and for the server's accept loop and
connection threads; `CommandEnds` and `Served`, the end of what runs on the host
and the user's answer, are not fair, and `WaitsForItsOwn` and
`PlacesComeBack` say what follows for those who wait. Users, exits of processes, systemd and
the death of the server are under no obligation. The other modules state no
fairness: a command may be interrupted or left at a prompt for ever.

`DrainedContainerStops` leaves out one state on purpose, `LateHello`: the Hello
of an earlier daemon is read late and its stream, now dead, replaces that of
the present daemon, whose container is then not stopped until the next Hello. It also
presupposes that the stream the server has is that of the present daemon and open: a
CheckIdle written to one that has gone is lost, and nothing repeats it.

## Disagreements between the code and what it says

Two have a `violation` run whose trace shows it; the quotations are in
`PROJECT.json`.

1. `idle_stays`: the scan passes over processes by name, and knows only the guest's own
   two. The init process of every generated unit is therefore a user's process
   to it, under whatever id it runs; the answer is Busy as long as the container runs, and
   a drained container is never stopped for being idle.
2. `host_code`: host-exec leaves its loop with exit code 0 whenever reading
   ends without HostExecDone. A command whose output does not fit a frame of 16 MiB
   so seems to have succeeded; a dropped connection or a restart of the server
   have the same effect.

The others were met while modelling. They are in the models as the code has them,
and the properties say what holds all the same. Paths are under `crates/` unless
they begin with `docs/`.

About sessions, images and units:

- `podbox-guest/src/daemon.rs:252`: when a CheckIdle and exits arrive in one iteration,
  the indices collected before are used on the Vec that was built after: wrong
  processes are dropped from it, or `remove` panics.
- `podbox/src/socket_host.rs:165`: the IdleTimeout arm stops the unit without another look at
  the counter. Once a scan does answer so (which the init process prevents), a session
  that registers between the scan and the stop is killed; `IdleSawNobody` speaks
  only of those whom the scan could see.
- `podbox/src/quadlet_install.rs:25`: an install or a removal whose systemctl calls fail ends as one
  whose calls succeed, and says so: with units that systemd has not read, the old host
  server running, or no socket.
- `podbox/src/quadlet_install.rs:305`: `uninstall` looks for `NAME.host.service` and
  `NAME.proxy.service`; the units are called `NAME-host.service` and
  `NAME-proxy.service`, and stay.
- `podbox/src/quadlet_install.rs:224`: enabling a container again stops its socket, and with
  it the running container, which requires it.
- `podbox/src/commands/lifecycle.rs:209`: `start` takes a `.container` file for a complete
  installation, and does not repair one that was interrupted after it.
- `podbox/src/build.rs:247`: two builds of one container share the Containerfile and the
  tag, and one can leave its lock over the image of the other.
- `podbox/src/build.rs:218`: a build skips a removed image whose lock exists, so `start`,
  which does see that the image is missing, does not heal it.
- `podbox/src/build.rs:178`: the first build of a prebuilt image without packages fails at
  its lock, since nobody has made the directory. `create` always installs a shell,
  so that only definitions written by hand are like that.
- `podbox/src/commands/lifecycle.rs:116`: `restore` gives the image's tag to a snapshot
  and leaves the lock, so that the next build prints "Definition unchanged and image
  already built." over the snapshot. It names the tag after the container, where the build
  names it after the image. What `podman commit`, `stop` and `start` return is not looked
  at: "Snapshot saved" and "Restored" are printed whatever they did.
- `podbox/src/config/types.rs:93`: the environment is a HashMap, whose order is
  not fixed, so that the checksum of an unchanged definition can differ and the
  image be built again. `main.rs:415`: commands that apply image labels compute another
  checksum than those that do not.
- `podbox/src/socket_host.rs:80`: an accept error ends the server with status 0, and
  `Restart=on-failure` does not bring it back.

About definitions:

- `podbox/src/cli.rs:37` says "Open config in editor before building.", and so it is; but what
  is built is the definition that was loaded before.
- `podbox/src/labels.rs:23` speaks of the user's definition "winning on every field that was
  explicitly set": Booleans are overwritten by the label whatever was set.
- `podbox/src/commands/diff.rs:9` speaks of "the definition file": it is the one that
  `find_definition` returns, of whatever container, and not the named one's.
- `podbox/src/commands/create.rs:276` says "Reusing existing config.", and goes on with that
  of the profile.
- `podbox/src/diff.rs:167` compares with the base packages of no host, so that the shell
  and the locales that the Containerfile adds are reported as drift.
- `podbox/src/diff.rs:61` announces a detection of the manager by the base image; dnf, which
  is also the default, is never detected as anything else.
- `docs/config.md:59` gives "bash" as the default shell; it is fish. `run` commands
  of a prebuilt image are ignored.

- `podbox/src/commands/translate.rs:56`: a path in the host's home becomes one in the
  container's, which is a directory of its own and does not have the file; and
  `--to-host` (line 66) does not know the projects, which `--to-container` and the mounts do.

About the guest and exports:

- `podbox-guest/src/entry.rs:131` says that "/run is tmpfs"; no unit asks for that, so the
  marker and the links outlive the start, in the container's file system.
- `podbox-guest/src/entry.rs:15`: the doc comment lets the child drop its privileges; the
  daemon runs as root.
- `podbox/src/export.rs:189`: the prefix ends with the container's name, without the dash
  that follows it, so that cleaning `dev` also takes the entries of `dev2`.
- `podbox/src/export.rs:229`: whatever holds the text `--container "NAME"` is taken for a shim, a
  script of the user's too; and what is removed is the file that has the name by then,
  which may be another container's new shim.
- `podbox/src/export.rs:195`, 215, 230: what cannot be removed stays, and "Unexported all apps and bins"
  is printed all the same.
- `podbox/src/export.rs:170`: an export killed while it writes a shim leaves an empty file
  (or the beginning of one), which no clean finds.
- `docs/guest.md:122` says that each interceptor "waits for acknowledgement before
  exiting"; one-way requests do not (`interceptors/mod.rs:13`). `AcceptedIsServed`
  is what remains to be promised.

## Proofs

Each proof module proves an inductive invariant `IInv` from which the properties
follow; none of them is inductive by itself. The assumptions are the named
ASSUMEs of the module that is proved about, which TLC evaluates on the runs.

`IdleStopProofs` proves, for any finite sets of sessions and processes, any
number of starts and restarts and any limit, the invariants that `idle_safe`
checks and the refinement of `SessionLedger`. Assumptions: `ProcsAssumption`
and `BoundsAssumption`. `IInv` adds

- `CountedOnce`: a session that has a waiting monitor has a closed connection,
  so a second registration cannot count it again (without it, `CountIsMonitors`
  would not survive `HandleRegister`);
- `EntersLater`: whoever is inside and was present at the beginning of a scan is
  in the scan's base; with the history variable `idleBase` this gives
  `IdleSawNobody` when `DaemonIdle` answers;
- `StartsInOrder`: nothing is known of a start that has not happened, so a new
  start begins with an empty history;

and one lemma per conjunct shows it preserved. The ledger's steps are then
read off the actions: `MonitorFires` needs `CountIsMonitors` to know that a
`fetch_sub` that returned 1 emptied the set.

`BuildLockProofs` proves `TypeOK`, `LockMeansImage` and `SkipIsTrue` for any number of
commands at once; nothing is assumed to keep them apart. `IInv` adds `Making`: as
long as a command has not been upset (`own`), the Containerfile it has written is
of its own definition until podman has read it, what podman makes is of that
definition, and the tag stands for it from then to the lock; and `Loaded`, which says where
a command has a definition and where the image it pulled.

`HostRequestsProofs` proves `TypeOK`, `RunsAtMostOnce` and `DoneTellsAll` for
any finite set of calls, any results and any limit and bounds. For the second,
`Once` says that a request is unread, then served, and never unread again, so
that its command cannot have been started before. For the third, `Stream`
follows what a call is to be told, `Told(r)`: what was printed, what is on the
wire and what is yet to be written are consecutive parts of it (`Progress`),
unless nothing was told yet (`Untold`), or a ping came first and will
be the end of it (`Pinged`). HostExecDone is the last of `Told(r)`, hence all that
precedes it has been printed when it is read. `Heard` keeps that true afterwards:
a call that has read HostExecDone is over, and its command history.

`RemoteCorrect` is the refinement: `HostRequests` implements `RemoteCommand` for the same
constants. Initial states map to one, a restart to `Die`, and a step of call r to what the
command of r does, or to nothing (`RemoteStep`); `OthersQuiet` shows that
no step moves two commands. Two more parts of the inductive invariant are
needed. `Counted`: a command that runs has been counted, so that one that is gone
with its server is not taken for one refused. `Dead`: of a command that died with
its server the thread is closed, and its caller, if it still waits, has been told nothing
or a ping, and will be told nothing more; hence HostExecDone reaches only callers
whose command has ended or was refused, and `PrintedAll`, from the proof of
`DoneTellsAll`, says that what they then know is that command's result.

`QuadletUnitsProofs` proves all that `units_safe` checks, for any versions. The
state that matters is in the steps a command has yet to take. `Rank` gives every step its
place in one order that all commands keep (`InOrder`), so that the step at the head
tells which are done. `Apart`: no command both installs and removes. `Installing`: as long as
`start-host` is ahead, every needed file is of the new version or still to be written,
and is read or still to be read, and what serves is stopped or still to be stopped, unless
the call that would do so is in `missed`.
`Uninstalling` says the same of the container's unit before the last reload. The lemmas
on `Install` and `Uninstall` show that they set out in this state; systemd's own steps
keep it, and `DroppedStep` says of each call that has no effect what is then missed.

`ContainersProofs` proves all that `containers` checks, for any names, profiles and
contents. `Housed` relates the mark `own` to names and homes, in the files and in what a
waiting command remembers: it is why a remembered definition still tells whose home
it is about to remove. Type correctness has a part worth noting: a command acts
on definitions that exist only, however its name was found (`ResolvedExists`).

`DefinitionsProofs` proves both properties of `definitions` for any files, labels, hosts
and packages, from `FilesAssumption`, `HostsAssumption` and `TextsAssumption`.
`RoundTrip`: reading what was written gives it back, since every table is written.
`DefaultsOnce` and `DefaultsApart`: the defaults may be applied again and have nothing
to do with packages. From these `Clone`, `Create` and `Patch` are what they should be.
For `UnitsAgree` one lemma for each part of the generator says which of podbox's own
directives it emits and when; the invariant is that the user's texts stay apart from them
through clones, labels, profiles and patches.

`ExportsProofs` proves all that `exports` checks, for any names, applications, programs,
scripts of the user's and number of commands at once. `NamedAlike`: an entry that runs a container
begins with its name, so that a clean finds it, even where it replaced another's. `Without(c, w)`:
there is no more of c than a clean that has w in hand has yet to come to. `Swept`: of every
container in `clean` there is nothing, or some clean of it is at work and is so far
(`Without` its own work); a clean's step takes away what it passes, and
every other step that makes something of a container takes it out of `clean`. `Listed`: what
a clean is about to remove has its container's name. `Found`: what it has read and is about
to remove still enters its container, or has been written since it began (`amid`).
`TwoBeginnings`: two beginnings of one file name begin one another, hence
unrelated containers share no entry.

`GuestSetupProofs` proves all that `guest` checks, for any capabilities, groups, versions
and number of starts. `Progress` says for each place of the entry what is already so in a
file system where no tool failed, and that a kill keeps it or removes the ground
for the marker; `Daemons` and `Linking` follow the daemon from its greeting through
its links.

About `Framing` the same module proves all that `framing` checks, for any base, limit and
scripts. The bytes of the messages begun, one after the other, are one stream, in which
`After(bg, a, b)` says that b is the next byte; it is defined from the place of a
byte alone, so that no proof has to add up lengths. `Flow`: as long as no two
writers were in the middle of a frame at once, the wire holds what follows some place p
of that stream, up to the last byte written (`LastWritten`), and each byte is
the next one of that before it. `Reading(p)`: while no read was torn, p is where the
reader should be, after as many messages as it has delivered and as many bytes of the
next as it holds; hence a length is its message's (`Digits`, `Length`), and the body
parses. `Torn(p)`: after a torn read p is inside a message, beyond its first
byte. What is read next as a length then either begins with a byte of JSON, and is too
large, or with the second byte of a length, and the body that it claims begins with
the second byte of a JSON object or later: neither is delivered. `ReaderIsSomewhere`, which says
that there is such a p, is what makes the rest inductive; a step of the reader
moves p by a byte, one of a writer leaves it. `Middle` and `InTurn` say where
the writers are, `Single` and `FdIsLast` use that a descriptor and timeouts have one writer
only, and `Ending` keeps what the end of the reader says true when writers go on.

Only model-checked: the liveness properties, which need fairness and
ENABLED; and the violations. Every invariant and every other action property that a
passing run checks is a theorem.

## Plan

Done: `IdleStop` with `SessionLedger`, `QuadletUnits`, `BuildLock`, `HostRequests` with
`RemoteCommand`, `Framing`, `GuestSetup`, `Containers`, `Definitions` and `Exports`, and the proofs of
all of them.

Left, in this order:

1. The text of the interceptors' arguments and of what the handlers refuse, as
   operators (`HostRequests` leaves the outcome open).
2. Several containers in `QuadletUnits`. Every host and proxy service has
   `RuntimeDirectory=podbox` (`codegen/quadlet.rs:474`), so that the end of one removes the
   directory in which the others' sockets are. Nothing weaker than that would hold.
3. Two commands at once in `QuadletUnits`.

Not modelled and why: prompts, the wizard's pages and the parsing of arguments are
terminal input and output without state that outlives them; the syntax of unit files, the
parsing of the package managers' and podman's output, desktop entries' lines and the
search for icons are formatting; status, logs and inspect print
and change nothing; `translate-path` is a function of its arguments that writes nothing; the change of ids and
the exec at the end of the entry are the kernel's.
What podman and systemd do is modelled only as far as the code relies on it.
