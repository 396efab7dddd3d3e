---------------------------- MODULE MCDefinitions ----------------------------
(* Definitions with every pair of entries, images with and without labels,  *)
(* hosts with everything, with little and without a bus.                    *)
EXTENDS Definitions, TLC

Entries(table, key, values) == {[table |-> table, keys |-> key :> v] : v \in values}
Empty(table) == {[table |-> table, keys |-> <<>>]}

Choices == UNION {
  Empty("integration"), Empty("dbus"), Empty("security"),
  Entries("image", "image", {{"registry/image"}, {"malformed"}}),
  Entries("image", "install", {{"vim"}, {"vim", "sudo"}}),
  Entries("image", "run", {{"make"}}),
  Entries("image", "manager", {"apt", "zypper"}),
  Entries("image", "base", {"debian", ""}),
  Entries("container", "shell", {"zsh"}),
  Entries("container", "memory", {{"2g"}}),
  Entries("container", "env", {{"EDITOR=vi"}}),
  Entries("integration", "wayland", {FALSE}),
  Entries("integration", "dbus", {FALSE}),
  Entries("integration", "gpu", {"nvidia", "auto"}),
  Entries("integration", "gpg_agent", {TRUE}),
  Entries("integration", "host_exec", {TRUE}),
  Entries("integration", "allowlist", {"absolute"}),
  Entries("integration", "documents", {[enabled |-> TRUE, read_write |-> TRUE]}),
  Entries("lifecycle", "auto_update", {TRUE}),
  Entries("dbus", "preset", {"none", "gnome", "unknown"}),
  Entries("dbus", "talk", {{"name"}}),
  Entries("dbus", "own", {{"name"}}),
  Entries("security", "apparmor", {{"profile"}}),
  Entries("security", "security_label_disable", {TRUE}) }

Required == [base |-> "fedora", home |-> "home"]

PairsOfEntries ==
  {[tables |-> {"image", "container", a.table, b.table},
    keys   |-> a.keys @@ b.keys @@ Required] : a, b \in Choices}

Labelled(new, old) == [podbox |-> new, podmgr |-> old]

\* New keys, old ones, both, and those of another version.
SomeLabels == {
  Labelled([schema |-> "1", dbus |-> "true", wayland |-> "false"], [dbus |-> "false"]),
  Labelled(<<>>, [schema |-> "1", gpu |-> "false", shell |-> "bash", documents |-> "true"]),
  Labelled([schema |-> "2", dbus |-> "false"], [schema |-> "1"]) }

SomeHosts == {
  {"bus", "wayland", "pipewire", "pulse", "gpg", "dri", "nvidia", "nvidia-uvm", "Documents",
   ".icons", "share/fonts", "localtime", "locale", "podman-5.6", "zsh"},
  {"bus"},
  {"pulse", "localtime", "bash"} }
=============================================================================
