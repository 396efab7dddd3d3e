----------------------------- MODULE Definitions -----------------------------
(***************************************************************************)
(* A container's definition: what the TOML file says, what podbox makes of *)
(* it (defaults, checks, labels of the image), the unit files it generates *)
(* from that, and the ways in which podbox writes definitions itself       *)
(* (`clone`, `create`, `init`, `diff --apply`).                            *)
(*                                                                         *)
(* A value is abstracted to what some branch of the code tells apart: a    *)
(* list or an option is a set, a text that some check refuses is one of    *)
(* Malformed, the seven XDG directories are one (documents), names and     *)
(* paths are left out.  When the commands of this module run, and which of *)
(* their steps fail, is in Containers, BuildLock and QuadletUnits.         *)
(***************************************************************************)
CONSTANTS
  Files,      \* what the user's definition may be: see FilesAssumption
  LabelMaps,  \* what labels images have
  Hosts,      \* what hosts have: sets of Features
  Packages    \* what the user may install in or remove from the container

Off == [enabled |-> FALSE, read_write |-> FALSE]

\* What a key is when its table is there and the key is not.
Default == [
  base |-> "", image |-> {}, pull_retry |-> "3", install |-> {},
  manager |-> "dnf", run |-> {}, home |-> "",
  shell |-> "fish", memory |-> {}, reload_cmd |-> {}, extra |-> {}, env |-> {},
  wayland |-> TRUE, audio |-> TRUE, gpu |-> "auto", dbus |-> TRUE,
  notify |-> TRUE, xdg_open |-> TRUE, clipboard |-> TRUE, host_exec |-> FALSE,
  allowlist |-> "none", ssh_agent |-> FALSE, gpg_agent |-> FALSE,
  sync_fonts |-> TRUE, sync_icons |-> TRUE, sync_themes |-> TRUE,
  documents |-> Off,
  autostart |-> FALSE, on_stop |-> "keep", auto_update |-> FALSE,
  requires |-> {}, after |-> {},
  preset |-> "", talk |-> {}, own |-> {},
  apparmor |-> {}, seccomp |-> {}, security_label_disable |-> FALSE,
  no_new_privileges |-> TRUE ]

Keys == DOMAIN Default

Table == [
  image |-> {"base", "image", "pull_retry", "install", "manager", "run"},
  container |-> {"home", "shell", "memory", "reload_cmd", "extra", "env"},
  lifecycle |-> {"autostart", "on_stop", "auto_update"},
  systemd |-> {"requires", "after"},
  dbus |-> {"preset", "talk", "own"},
  security |-> {"apparmor", "seccomp", "security_label_disable", "no_new_privileges"},
  integration |-> {"wayland", "audio", "gpu", "dbus", "notify", "xdg_open",
    "clipboard", "host_exec", "allowlist", "ssh_agent", "gpg_agent", "sync_fonts",
    "sync_icons", "sync_themes", "documents"} ]

Tables == DOMAIN Table

\* The tables and the keys that a file has; the first two tables are required.
ASSUME FilesAssumption ==
  \A f \in Files : /\ {"image", "container"} \subseteq f.tables
                   /\ f.tables \subseteq Tables
                   /\ DOMAIN f.keys \subseteq UNION {Table[t] : t \in f.tables}
                   /\ {"base", "home"} \subseteq DOMAIN f.keys

\* A host has one shell of its user's.
ASSUME HostsAssumption == \A h \in Hosts : \A s, t \in h \cap {"bash", "zsh", "fish"} : s = t

\* What the user writes into directives does not name podbox's own units,
\* sockets and images; podbox does not look.
OwnTexts == {"proxy", "proxy-socket", "bus", "bus=proxy", "bus=host", "localhost"}
ASSUME TextsAssumption ==
  \A f \in Files : \A k \in {"image", "requires", "extra", "env"} \cap DOMAIN f.keys :
    f.keys[k] \cap OwnTexts = {}

VARIABLES
  file,      \* the definition
  host,      \* what the host has
  packages,  \* the packages in the running container
  units,     \* the unit files, and the configuration they are of; or NoUnits
  diff       \* the list that a `diff --apply` at work is about to write, if any

vars == <<file, host, packages, units, diff>>

NoImage == [podbox |-> <<>>, podmgr |-> <<>>]
NoUnits == [of |-> <<>>]

-----------------------------------------------------------------------------
(* From the file to the configuration.                                     *)

\* toml::from_str.  A table that is missing has a default of its own, which
\* differs from that of its keys in one of them.
FromStr(f) ==
  [k \in Keys |->
     IF k \in DOMAIN f.keys THEN f.keys[k]
     ELSE IF k = "security_label_disable" /\ "security" \notin f.tables THEN TRUE
     ELSE Default[k]]

\* With the bus and no rule for it, the portals may be talked to.
ApplyDefaults(c) ==
  IF c.dbus /\ c.preset = "" /\ c.talk = {} /\ c.own = {}
  THEN [c EXCEPT !.preset = "portal"] ELSE c

Parse(f) == ApplyDefaults(FromStr(f))

\* Empty, without a colon or a slash where one is needed, not a size, with a
\* line break.
Malformed == {"", "malformed"}

Validate(c) ==
  /\ {c.base, c.home, c.shell} \cap {""} = {}
  /\ (c.image \cup c.memory \cup c.extra \cup c.env) \cap Malformed = {}
  /\ c.allowlist # "relative"
  /\ c.host_exec => c.allowlist \notin {"none", "empty"}

\* What the label says, in the new form or else the old one: a set of at most
\* one text.
Label(l, key) == IF key \in DOMAIN l.podbox THEN {l.podbox[key]}
                 ELSE IF key \in DOMAIN l.podmgr THEN {l.podmgr[key]} ELSE {}

Booleans == {"wayland", "audio", "dbus", "notify", "xdg_open", "clipboard",
             "sync_fonts", "sync_icons", "sync_themes"}

GpuOf(text) == CASE text = "true" -> "enabled" [] text = "false" -> "disabled"
                 [] text = "nvidia" -> "nvidia" [] OTHER -> "auto"

\* labels::apply_defaults: a Boolean is overwritten, a directory switched on,
\* the graphics card and the shell are set if they still have their defaults.
ApplyLabels(c, l) ==
  IF Label(l, "schema") # {"1"} THEN c
  ELSE [k \in Keys |->
    CASE k \in Booleans /\ Label(l, k) # {} -> Label(l, k) = {"true"}
      [] k = "documents" /\ Label(l, k) = {"true"} -> [Off EXCEPT !.enabled = TRUE]
      [] k = "gpu" /\ c.gpu = "auto" /\ Label(l, k) # {} ->
           GpuOf(CHOOSE text \in Label(l, k) : TRUE)
      [] k = "shell" /\ c.shell = "fish" /\ Label(l, k) # {} ->
           CHOOSE text \in Label(l, k) : TRUE
      [] OTHER -> c[k]]

Prebuilt(c) == c.image # {}

-----------------------------------------------------------------------------
(* From the configuration to the image.                                    *)

HostShell == [bash |-> {"bash"}, zsh |-> {"zsh"}, fish |-> {"fish"}]

\* base_packages, for the host's shell or for none.
BasePackages(h) == {"sudo"} \cup UNION {HostShell[s] : s \in h \cap DOMAIN HostShell}

\* generate_custom: what is installed and run on top of the base image.
Containerfile(c, h) ==
  [from |-> {c.base}, run |-> c.run,
   packages |-> BasePackages(h) \cup {"locales"} \cup c.install]

\* run_prebuilt: the image as it is, or the packages on top of it.  The run
\* commands are left out.
Overlay(c) == [from |-> c.image, run |-> {}, packages |-> c.install]

Image(c, h) == IF Prebuilt(c) THEN Overlay(c) ELSE Containerfile(c, h)

-----------------------------------------------------------------------------
(* From the configuration to the unit files: sets of directives.           *)

If(condition, directives) == IF condition THEN directives ELSE {}
All(key, values) == {<<key, v>> : v \in values}

PresetTalk(preset) == {"flatpak", "gnome", "kde", "portal"} \cap {preset}
EffectiveTalk(c) == c.talk \cup PresetTalk(c.preset)
UseDbusProxy(c) == c.dbus /\ (EffectiveTalk(c) # {} \/ c.own # {})

EmitUnit(c) ==
  All("Requires", {"socket"} \cup c.requires) \cup All("After", {"socket"} \cup c.after)
  \cup If(UseDbusProxy(c), {<<"Requires", "proxy">>, <<"After", "proxy">>})

EmitContainerImage(c) ==
  (IF Prebuilt(c) /\ c.install = {}
   THEN All("Image", c.image) \cup {<<"Retry", c.pull_retry>>}
   ELSE {<<"Image", "localhost">>})
  \cup If(c.security_label_disable, {<<"SecurityLabelDisable", "true">>})
  \cup If(~c.no_new_privileges, {<<"NoNewPrivileges", "false">>})
  \cup All("SeccompProfile", c.seccomp) \cup All("AppArmor", c.apparmor)
  \cup All("Memory", c.memory)

\* xdg::resolve: a directory that is switched on and exists.
EmitXdgDir(c, h) ==
  If(c.documents.enabled /\ "Documents" \in h,
     {<<"Volume", IF c.documents.read_write THEN "Documents:z" ELSE "Documents:ro,z">>})

EmitLooks(c, h) ==
  All("Volume", If(c.sync_themes, {".themes", "share/themes"} \cap h)
                \cup If(c.sync_icons, {".icons", "share/icons"} \cap h)
                \cup If(c.sync_fonts, {".fonts", "share/fonts"} \cap h)
                \cup ({"localtime", "timezone"} \cap h))

EmitSession(c, h) ==
  If(c.wayland /\ "wayland" \in h,
     {<<"Volume", "wayland">>, <<"Environment", "WAYLAND_DISPLAY">>,
      <<"Environment", "XDG_RUNTIME_DIR">>})
  \cup If(c.audio, All("Volume", {"pipewire", "pulse"} \cap h)
                   \cup All("Environment", {"pipewire", "pulse"} \cap h))
  \cup If(c.ssh_agent /\ "podman-5.6" \in h,
          {<<"SshAgent", "default">>, <<"Environment", "SSH_AUTH_SOCK">>})
  \cup If(c.gpg_agent /\ "gpg" \in h,
          {<<"Volume", "gpg">>, <<"Environment", "GNUPGHOME">>})

\* The bus itself, or the socket of the proxy.
EmitBus(c, h) ==
  If(c.dbus /\ "bus" \in h,
     IF UseDbusProxy(c) THEN {<<"Volume", "proxy-socket">>, <<"Environment", "bus=proxy">>}
                        ELSE {<<"Volume", "bus">>, <<"Environment", "bus=host">>})

EmitVolumes(c, h) ==
  {<<"Volume", "home">>, <<"Volume", "host-socket">>} \cup All("Volume", c.extra)
  \cup EmitXdgDir(c, h) \cup EmitLooks(c, h) \cup EmitSession(c, h) \cup EmitBus(c, h)

EmitEnv(c, h) == All("Environment", c.env \cup ({"locale"} \cap h))

EmitGpu(c, h) ==
  LET dri    == c.gpu \in {"enabled", "nvidia"} \/ (c.gpu = "auto" /\ "dri" \in h)
      nvidia == c.gpu = "nvidia" \/ (c.gpu = "auto" /\ "nvidia" \in h)
  IN All("AddDevice", If(dri, {"dri"}) \cup If(nvidia, {"nvidia"} \cup ({"nvidia-uvm"} \cap h)))

EmitService(c) ==
  If(c.auto_update /\ Prebuilt(c), {<<"Label", "autoupdate">>})
  \cup All("ReloadCmd", c.reload_cmd)
  \cup If(c.on_stop = "remove", {<<"AutoRemove", "true">>})
  \cup If(c.autostart, {<<"WantedBy", "default.target">>})

GenerateContainer(c, h) ==
  EmitUnit(c) \cup EmitContainerImage(c) \cup EmitVolumes(c, h) \cup EmitEnv(c, h)
  \cup EmitGpu(c, h) \cup EmitService(c)

\* Mutated: a preset is no reason for a proxy.
GenerateProxyOfRules(c) ==
  If(c.dbus /\ (c.talk # {} \/ c.own # {}), All("talk", EffectiveTalk(c)) \cup All("own", c.own))

GenerateDbusProxyService(c) ==
  If(UseDbusProxy(c), All("talk", EffectiveTalk(c)) \cup All("own", c.own))

GenerateBuild(c) ==
  If(~Prebuilt(c), {<<"ImageTag", "localhost">>, <<"Retry", c.pull_retry>>})

Generate(c, h) ==
  [of |-> c, container |-> GenerateContainer(c, h), build |-> GenerateBuild(c),
   proxy |-> GenerateDbusProxyService(c)]

-----------------------------------------------------------------------------
(* From the configuration to a file again.                                 *)

\* Mutated: a table with nothing in it is left out.
ToStringCompact(c) ==
  LET keys == {k \in Keys : c[k] # Default[k]} \cup {"base", "home"} IN
  [tables |-> {t \in Tables : Table[t] \cap keys # {}},
   keys   |-> [k \in keys |-> c[k]]]

\* toml::to_string_pretty: a key is left out where its type says so, with its
\* default; a table never is, empty or not.
ToStringPretty(c) ==
  [tables |-> Tables,
   keys   |-> [k \in {k \in Keys : c[k] # Default[k]} \cup {"base", "home"} |-> c[k]]]

-----------------------------------------------------------------------------
(* The commands.                                                           *)

Init ==
  /\ file \in Files
  /\ host \in Hosts
  /\ packages = Image(FromStr(file), host).packages
  /\ units = NoUnits /\ diff = {}

\* The user installs something in the container, or removes it.
Drift(p) ==
  /\ packages' \in {packages \cup {p}, packages \ {p}} \ {packages}
  /\ UNCHANGED <<file, host, units, diff>>

\* Units are written by one command at a time, and end the model (see Next): they
\* depend on nothing that is done before but through the file.
WriteUnits(c) ==
  /\ diff = {}
  /\ units' = Generate(c, host)
  /\ UNCHANGED <<file, host, packages, diff>>

\* `podbox enable` takes the labels of the image into account, if there is one ...
Enable == /\ Validate(Parse(file))
          /\ \E l \in LabelMaps \cup {NoImage} : WriteUnits(ApplyLabels(Parse(file), l))

\* ... and `start`, which installs units only if there are none, does not.
Start == Validate(Parse(file)) /\ WriteUnits(Parse(file))

\* `podbox clone`: neither defaults nor checks.  What follows is about the new
\* definition.
Clone ==
  /\ file' = ToStringPretty(FromStr(file))
  /\ UNCHANGED <<host, packages, units, diff>>

Shells == DOMAIN HostShell

\* apply_shell_defaults: the host's shell, or fish, is installed too.  What has
\* passed the checks names a shell to enter already.
ApplyShellDefaults(c, h) ==
  [c EXCEPT !.install = @ \cup (IF h \cap Shells = {} THEN {"fish"} ELSE h \cap Shells)]

\* `podbox create` and `init` from a profile.
Create ==
  /\ Validate(Parse(file))
  /\ file' = ToStringPretty(ApplyShellDefaults(Parse(file), host))
  /\ UNCHANGED <<host, packages, units, diff>>

\* resolve_manager: dnf is what an unset manager is too; zypper has no query of
\* its own and is left to the base image.
ResolveManager(c) ==
  CASE c.manager # "zypper" -> c.manager
    [] c.base = "debian" -> "apt" [] c.base = "opensuse" -> "zypper" [] OTHER -> "dnf"

\* rpm also answers for zypper.
Query(manager) == IF manager \in {"dnf", "zypper"} THEN "rpm" ELSE manager
Answers(base)  == IF base = "debian" THEN "apt" ELSE "rpm"

Missing(c, there) == c.install \ there
Unexpected(c, there) ==
  IF Prebuilt(c) THEN {} ELSE (there \ c.install) \ BasePackages({})

Reconciled(c, there) == (c.install \ Missing(c, there)) \cup Unexpected(c, there)

HasDrift(c, there) == Missing(c, there) # {} \/ Unexpected(c, there) # {}

\* `podbox diff --apply` compares ...
Compare ==
  LET c == Parse(file) IN
  /\ diff = {}
  /\ Validate(c) /\ Query(ResolveManager(c)) = Answers(c.base)
  /\ HasDrift(c, packages)
  /\ diff' = {Reconciled(c, packages)}
  /\ UNCHANGED <<file, host, packages, units>>

\* ... and then reads the file again, to write it with another list.
Patch ==
  /\ \E list \in diff :
       file' = [tables |-> file.tables,
                keys   |-> [k \in {"install"} \cup DOMAIN file.keys |->
                              IF k = "install" THEN list ELSE file.keys[k]]]
  /\ diff' = {}
  /\ UNCHANGED <<host, packages, units>>

\* Nothing is done after the units have been written.
Next == /\ units = NoUnits
        /\ \/ \E p \in Packages : Drift(p)
           \/ Enable \/ Start \/ Clone \/ Create \/ Compare \/ Patch

Spec == Init /\ [][Next]_vars

-----------------------------------------------------------------------------
(* Properties.                                                             *)

\* The unit files fit together and fit the definition: the units of its own that
\* the container requires are those that are written; the address of the bus is
\* that of the one socket mounted for it, and the proxy's only with the proxy;
\* the image is the one `podbox build` prepares where only that has the packages.
UnitsAgree ==
  units # NoUnits =>
    LET has(key, v) == <<key, v>> \in units.container IN
    /\ has("Requires", "proxy") <=> units.proxy # {}
    /\ has("Volume", "proxy-socket") => has("Requires", "proxy")
    /\ ~(has("Volume", "proxy-socket") /\ has("Volume", "bus"))
    /\ has("Environment", "bus=proxy") <=> has("Volume", "proxy-socket")
    /\ IF has("Image", "localhost") THEN units.of.install \subseteq Image(units.of, host).packages
                                    ELSE units.of.install = {}
    /\ units.build # {} => has("Image", "localhost")

\* A definition that podbox writes means what the one it was made from means:
\* every default, preset and table survives, and a profile gets no package but a
\* shell.  One that `diff --apply` has written differs in its packages only, and
\* no package is left to report: unless the container was changed, or the
\* definition written again, since they were compared.
WrittenAsMeant ==
  [][/\ Clone => Parse(file') = Parse(file)
     /\ Create => \E shell \in Shells :
          Parse(file') = [Parse(file) EXCEPT !.install = @ \cup {shell}]
     /\ Patch => \E list \in diff :
          /\ Parse(file') = [Parse(file) EXCEPT !.install = list]
          /\ list = Reconciled(Parse(file), packages)
               => ~HasDrift(Parse(file'), packages)]_vars
=============================================================================
