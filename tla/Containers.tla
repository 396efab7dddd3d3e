----------------------------- MODULE Containers -----------------------------
(***************************************************************************)
(* Several containers as the user sees them: the definitions in podbox's   *)
(* configuration directory and the one of the current project, the active  *)
(* context, and the images, unit files, containers and home directories    *)
(* made from them.  How a command finds the definition it is about, what   *)
(* it remembers while an editor, a pull or a question is open, and what    *)
(* other commands and the user do to the same files in the meantime.       *)
(*                                                                         *)
(* A name is a number, in alphabetical order; a path is the name of its    *)
(* file, or Local, the project's .podbox.toml, which sorts first.  The     *)
(* [image] section of a definition is abstracted to its content, `rev`.    *)
(***************************************************************************)
EXTENDS Naturals, FiniteSets

CONSTANTS
  Names,     \* names of containers
  LocalNames, \* the name that a project's definition may give
  Profiles,  \* names of profiles, which are also what their TOML calls them
  Revs,      \* contents of an [image] section
  None

ASSUME NamesAssumption ==
  /\ Names \subseteq Nat \ {0} /\ Profiles \subseteq Names /\ LocalNames \subseteq Names
  /\ None \notin Nat

VARIABLES
  file,     \* the definition at a path, None if there is no file
  active,   \* the name in .active, None if there is no such file
  tag,      \* the content that the image of a name was built from, or None
  unit,     \* the names with a .container file
  homes,    \* the home directories that exist, ~/containers/NAME
  waiting   \* the command that waits for an editor, a pull or an answer

world == <<tag, unit, homes>>
vars  == <<file, active, world, waiting>>

Local == 0
Paths == Names \cup {Local}

\* `own` is no field of the TOML: it is FALSE for a definition made from a
\* profile under another name, which keeps the profile's home directory.
Definitions == [name : Names, home : Names, rev : Revs, own : BOOLEAN]
Definition(n, h, r) == [name |-> n, home |-> h, rev |-> r, own |-> n = h]

Nothing == [op |-> "none"]
Waits == {Nothing}
  \cup [op : {"build", "start", "create", "pull", "remove"}, cfg : Definitions]
  \cup [op : {"edit"}, cfg : Definitions, path : Paths]
  \cup [op : {"stale"}, found : SUBSET Names]

TypeOK ==
  /\ file \in [Paths -> Definitions \cup {None}]
  /\ active \in Names \cup {None}
  /\ tag \in [Names -> Revs \cup {None}]
  /\ unit \subseteq Names /\ homes \subseteq Names
  /\ waiting \in Waits

Init ==
  /\ file = [p \in Paths |-> None] /\ active = None
  /\ tag = [n \in Names |-> None]
  /\ unit = {} /\ homes = {}
  /\ waiting = Nothing

-----------------------------------------------------------------------------
(* Which definition a command is about.  Its name, if one is given, is an  *)
(* argument, or that of -C, or PODBOX_CONTAINER; the first of them counts. *)

Options == Names \cup {None}
Exists(p) == file[p] # None

list_configs    == {n \in Names : Exists(n)}
find_definition == {p \in Paths : Exists(p) /\ \A q \in Paths : Exists(q) => p <= q}

read_active_context == IF active # None /\ Exists(active) THEN active ELSE None

First(name, other) == IF name # None THEN name ELSE other

\* .active is read only if no name is given, and removed if it is stale.
HealContext(name) ==
  active' = IF name = None THEN read_active_context ELSE active

\* The paths resolve_config may load.  Several definitions and no name: the
\* user picks one, and without a terminal it is the first.
resolve_config(name) ==
  LET target == First(name, read_active_context) IN
  IF target # None THEN {target} \cap list_configs
  ELSE IF Cardinality(list_configs) = 1 THEN list_configs
  ELSE find_definition \cup list_configs

\* Mutated: the existence of the file is not looked at.
EditsAnything(name) ==
  IF name # None THEN {name}
  ELSE IF list_configs = {} THEN find_definition ELSE list_configs

\* The paths an editor may be opened on.
resolve_config_path(name) ==
  IF name # None THEN {name} \cap list_configs
  ELSE IF list_configs = {} THEN find_definition ELSE list_configs

-----------------------------------------------------------------------------
(* What commands do with the definition they have loaded.                  *)

BuildImage(cfg) ==
  /\ tag' = [tag EXCEPT ![cfg.name] = cfg.rev]
  /\ homes' = homes \cup {cfg.home}
  /\ UNCHANGED unit

InstallUnits(cfg) ==
  /\ unit' = unit \cup {cfg.name} /\ homes' = homes \cup {cfg.home}
  /\ UNCHANGED tag

\* start: whatever is missing is made first.
StartHealed(cfg) ==
  LET healed == tag[cfg.name] = None \/ cfg.name \notin unit IN
  /\ tag' = [tag EXCEPT ![cfg.name] = IF @ = None THEN cfg.rev ELSE @]
  /\ unit' = unit \cup {cfg.name}
  /\ homes' = IF healed THEN homes \cup {cfg.home} ELSE homes

\* finish_create: an image of that name is taken as it is.
FinishCreate(cfg) ==
  /\ tag' = [tag EXCEPT ![cfg.name] = IF @ = None THEN cfg.rev ELSE @]
  /\ unit' = unit \cup {cfg.name} /\ homes' = homes \cup {cfg.home}

Effect(op, cfg) ==
  CASE op = "build"   -> BuildImage(cfg)     \* and update
    [] op = "enable"  -> InstallUnits(cfg)
    [] op = "start"   -> StartHealed(cfg)
    [] op = "create"  -> FinishCreate(cfg)
    [] op = "disable" -> unit' = unit \ {cfg.name}
                         /\ UNCHANGED <<tag, homes>>

-----------------------------------------------------------------------------
(* Commands that begin and end in one step.                                *)

Run(op, name) ==
  /\ \E p \in resolve_config(name) : Effect(op, file[p])
  /\ HealContext(name)
  /\ UNCHANGED <<file, waiting>>

\* disable --force: no definition is looked for, and a name is needed.
DisableForced(name) ==
  LET n == First(name, read_active_context) IN
  /\ n # None
  /\ unit' = unit \ {n}
  /\ HealContext(name)
  /\ UNCHANGED <<file, tag, homes, waiting>>

\* init: with an image or the wizard everything is called n; with a profile
\* the file is called n and its contents what the profile calls them.
InitDefinition(n, inner, r) ==
  /\ ~Exists(n)
  /\ inner = n \/ inner \in Profiles
  /\ file' = [file EXCEPT ![n] = Definition(inner, inner, r)]
  /\ UNCHANGED <<active, world, waiting>>

\* Mutated: the clone keeps the home of its source.
CloneSharesHome(src, dst, copied) ==
  /\ Exists(src) /\ ~Exists(dst)
  /\ file' = [file EXCEPT ![dst] = [file[src] EXCEPT !.name = dst]]
  /\ homes' = IF copied /\ src \in homes THEN homes \cup {dst} ELSE homes
  /\ UNCHANGED <<active, tag, unit, waiting>>

\* What is copied is the home the source's name stands for.
Clone(src, dst, copied) ==
  /\ Exists(src) /\ ~Exists(dst)
  /\ file' = [file EXCEPT ![dst] = Definition(dst, dst, file[src].rev)]
  /\ homes' = IF copied /\ src \in homes THEN homes \cup {dst} ELSE homes
  /\ UNCHANGED <<active, tag, unit, waiting>>

Use == /\ \/ active' \in list_configs          \* podbox use NAME
          \/ active' = None                    \* podbox use --clear
          \/ active' = read_active_context     \* podbox use
       /\ UNCHANGED <<file, world, waiting>>

\* diff --apply compares one definition with its running container and patches
\* the file that find_definition returns.
DiffApply(name) ==
  /\ resolve_config(name) # {}
  /\ \E p \in find_definition, r \in Revs :
       file' = [file EXCEPT ![p].rev = r]
  /\ HealContext(name)
  /\ UNCHANGED <<world, waiting>>

-----------------------------------------------------------------------------
(* Commands that wait.  Any other may run from another terminal meanwhile. *)

\* build and start with --edit: the definition is loaded first, and the path
\* to open is resolved on its own, from -C only.
OpenEditor(op, pos, c) ==
  /\ waiting = Nothing
  /\ resolve_config_path(c) # {}
  /\ \E p \in resolve_config(First(pos, c)) :
       waiting' = [op |-> op, cfg |-> file[p]]
  /\ HealContext(First(pos, c))
  /\ UNCHANGED <<file, world>>

\* edit: the content before is remembered.
Edit(name) ==
  /\ waiting = Nothing
  /\ \E q \in resolve_config_path(First(name, read_active_context)) :
       waiting' = [op |-> "edit", cfg |-> file[q], path |-> q]
  /\ HealContext(name)
  /\ UNCHANGED <<file, world>>

\* create with a profile: an existing definition is "reused" by not being
\* written; what is made is that of the profile all the same.
CreateProfile(p, name, r) ==
  LET n == First(name, p)
      cfg == Definition(n, p, r) IN
  /\ waiting = Nothing
  /\ file' = IF Exists(n) THEN file ELSE [file EXCEPT ![n] = cfg]
  /\ waiting' = [op |-> "create", cfg |-> cfg]
  /\ UNCHANGED <<active, world>>

CreateImage(n, r) ==
  /\ waiting = Nothing /\ ~Exists(n)
  /\ waiting' = [op |-> "pull", cfg |-> Definition(n, n, r)]
  /\ UNCHANGED <<file, active, world>>

\* Mutated: that there is no such definition was seen before the pull.
PullsOver ==
  LET cfg == waiting.cfg IN
  /\ waiting.op = "pull"
  /\ file' = [file EXCEPT ![cfg.name] = cfg]
  /\ waiting' = [op |-> "create", cfg |-> cfg]
  /\ UNCHANGED <<active, world>>

Pulled ==
  LET cfg == waiting.cfg IN
  /\ waiting.op = "pull"
  /\ file' = IF Exists(cfg.name) THEN file ELSE [file EXCEPT ![cfg.name] = cfg]
  /\ waiting' = [op |-> "create", cfg |-> cfg]
  /\ UNCHANGED <<active, world>>

\* The editor has closed (or create had none): on with what was loaded.
CarryOn ==
  /\ waiting.op \in {"build", "start", "create"}
  /\ Effect(waiting.op, waiting.cfg)
  /\ active' = IF waiting.op = "create" THEN waiting.cfg.name ELSE active
  /\ waiting' = Nothing
  /\ UNCHANGED file

\* Mutated: what is built is what was there before.
EditBuildsOld ==
  /\ waiting.op = "edit" /\ Exists(waiting.path)
  /\ file[waiting.path].rev # waiting.cfg.rev
  /\ BuildImage(waiting.cfg)
  /\ waiting' = Nothing
  /\ UNCHANGED <<file, active>>

\* edit, after its editor: a changed [image] section is loaded and built.
EditBuilds ==
  /\ waiting.op = "edit" /\ Exists(waiting.path)
  /\ file[waiting.path].rev # waiting.cfg.rev
  /\ BuildImage(file[waiting.path])
  /\ waiting' = Nothing
  /\ UNCHANGED <<file, active>>

\* A failing editor or pull, an answer other than "y", nothing changed, Ctrl-C.
GiveUp == /\ waiting # Nothing /\ waiting' = Nothing
          /\ UNCHANGED <<file, active, world>>

AskRemove(name) ==
  /\ waiting = Nothing
  /\ \E p \in resolve_config(name) :
       waiting' = [op |-> "remove", cfg |-> file[p]]
  /\ HealContext(name)
  /\ UNCHANGED <<file, world>>

\* With --all, if podman rm succeeds, and for a second yes: the home goes.
RemoveAll ==
  /\ waiting.op = "remove"
  /\ homes' = homes \ {waiting.cfg.home}
  /\ waiting' = Nothing
  /\ UNCHANGED <<file, active, tag, unit>>

\* Stale: no definition of the unit's name, or stopped and failed.
AskRemoveStale ==
  /\ waiting = Nothing
  /\ LET orphans == {n \in unit : ~Exists(n)} IN
     \E failed \in SUBSET (unit \ orphans) :
       waiting' = [op |-> "stale", found |-> orphans \cup failed]
  /\ waiting'.found # {}
  /\ UNCHANGED <<file, active, world>>

RemoveStale ==
  LET found == waiting.found IN
  /\ waiting.op = "stale"
  /\ file' = [p \in Paths |-> IF p \in found THEN None ELSE file[p]]
  /\ unit' = unit \ found
  /\ waiting' = Nothing
  /\ UNCHANGED <<active, tag, homes>>

-----------------------------------------------------------------------------
(* The user's editor and file manager.                                     *)

Save(p, r) == /\ Exists(p)
              /\ file' = [file EXCEPT ![p].rev = r]
              /\ UNCHANGED <<active, world, waiting>>

Delete(p) == /\ Exists(p)
             /\ file' = [file EXCEPT ![p] = None]
             /\ UNCHANGED <<active, world, waiting>>

WriteLocal(n, r) == /\ ~Exists(Local)
                    /\ file' = [file EXCEPT ![Local] = Definition(n, n, r)]
                    /\ UNCHANGED <<active, world, waiting>>

Next ==
  \/ \E name \in Options :
       \/ \E op \in {"build", "enable", "start", "disable"} : Run(op, name)
       \/ Edit(name) \/ DiffApply(name) \/ AskRemove(name)
       \/ DisableForced(name)
  \/ \E op \in {"build", "start"}, pos, c \in Options : OpenEditor(op, pos, c)
  \/ \E n \in Names, r \in Revs :
       \/ \E inner \in Names : InitDefinition(n, inner, r)
       \/ CreateImage(n, r)
  \/ \E n \in LocalNames, r \in Revs : WriteLocal(n, r)
  \/ \E p \in Profiles, name \in Options, r \in Revs : CreateProfile(p, name, r)
  \/ \E src, dst \in Names, copied \in BOOLEAN : Clone(src, dst, copied)
  \/ \E p \in Paths : Delete(p) \/ \E r \in Revs : Save(p, r)
  \/ Use \/ Pulled \/ CarryOn \/ EditBuilds \/ GiveUp \/ RemoveAll
  \/ AskRemoveStale \/ RemoveStale

Spec == Init /\ [][Next]_vars

-----------------------------------------------------------------------------
(* Properties.                                                             *)

\* No command replaces a definition by another: init, create and clone only
\* write where there is none, however long create has been pulling since it
\* looked.  A definition changes in an editor or by `diff --apply`.
NeverOverwritten ==
  [][\A p \in Paths :
       Exists(p) /\ file'[p] \notin {file[p], None}
         => \/ \E r \in Revs : Save(p, r)
            \/ \E name \in Options : DiffApply(name)]_vars

\* What gets built is what a definition says at that moment, also when `edit`
\* builds after its editor has closed.  Left out are create and the commands
\* with --edit, which go on with what they loaded before the editor opened.
BuiltIsDefined ==
  [][\A n \in Names :
       tag'[n] \notin {tag[n], None}
         => \/ waiting.op \in {"build", "start", "create"} /\ CarryOn
            \/ \E p \in Paths : /\ Exists(p) /\ file[p].name = n
                                /\ file[p].rev = tag'[n]]_vars

\* `remove --all` of one container leaves the home directories of the other
\* defined containers alone, unless one of them was made from a profile under
\* another name: such a container lives in the profile's home.
RemoveSparesOthers ==
  [][\A h \in homes \ homes' : \A n \in Names :
       waiting.cfg.own /\ Exists(n) /\ file[n].own /\ file[n].home = h
         => file[n].name = waiting.cfg.name]_vars
=============================================================================
