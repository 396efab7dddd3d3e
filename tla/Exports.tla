------------------------------- MODULE Exports ------------------------------
(***************************************************************************)
(* What `podbox export` puts on the host for containers: desktop entries,  *)
(* icons and shims for programs, and how `export clean` finds them again,  *)
(* by file name, by directory and by content, one file after the other and *)
(* passing over whatever cannot be read or removed.  Commands for different*)
(* containers run side by side and may end anywhere.                       *)
(*                                                                         *)
(* Names of containers and applications are sequences of parts: what the   *)
(* file name podbox-CONTAINER-APP.desktop tells of them is the question.   *)
(* A program in ~/.local/bin is told by the containers that its text       *)
(* enters (--container "NAME"): one for a shim, any for a script of the    *)
(* user's, none for another program and for a file that is left empty.     *)
(***************************************************************************)
EXTENDS Naturals, Sequences, SequencesExt

CONSTANTS
  Names,     \* names of containers
  Apps,      \* names of each container's applications
  Bins,      \* names of programs
  Dash,      \* the part "-"
  Commands,  \* commands that may run at the same time
  Scripts,   \* what programs of the user's enter
  None

AllApps == UNION {Apps[c] : c \in Names}

ASSUME NamesAssumption ==
  /\ \A n \in Names \cup AllApps : n \in Seq(UNION {Range(m) : m \in Names \cup AllApps})
  /\ None \notin Names

ASSUME ScriptsAssumption == Scripts \subseteq SUBSET Names

VARIABLES
  desktop,  \* the container that a desktop entry runs, None if it runs none
  icons,    \* the containers with a directory of icons
  programs, \* the files in ~/.local/bin
  shim,     \* the containers that ~/.local/bin/BIN enters
  cmd,      \* what a command is doing
  \* history, read by properties only
  clean,    \* the containers cleaned of everything, and nothing made for them since
  amid      \* the cleaning commands that were at it when BIN was last written

host    == <<desktop, icons, programs, shim>>
history == <<clean, amid>>
vars    == <<host, cmd, history>>

\* podbox-C-APP.desktop, without the parts that are common to all.
EntryName(c, app) == c \o <<Dash>> \o app
Entries == UNION {{EntryName(c, app) : app \in Apps[c]} : c \in Names}

Idle == [op |-> "none"]
Cleans == {"cleanEntries", "cleanIcons", "cleanShims", "rmShim"}
Work == {Idle}
  \cup [op : {"apps"}, c : Names, left : (SUBSET AllApps) \ {{}}]
  \cup [op : {"icon"}, c : Names, left : SUBSET AllApps]
  \cup [op : {"bins"}, c : Names, left : (SUBSET Bins) \ {{}}]
  \cup [op : {"writeShim"}, c : Names, bin : Bins, left : SUBSET Bins]
  \cup [op : {"cleanEntries"}, c : Names, left : (SUBSET Entries) \ {{}}]
  \cup [op : {"cleanIcons"}, c : Names]
  \cup [op : {"cleanShims"}, c : Names, left : (SUBSET Bins) \ {{}}]
  \cup [op : {"rmShim"}, c : Names, bin : Bins, left : SUBSET Bins]

TypeOK ==
  /\ desktop \in [Entries -> Names \cup {None}]
  /\ icons \subseteq Names
  /\ programs \subseteq Bins /\ shim \in [Bins -> SUBSET Names]
  /\ cmd \in [Commands -> Work]
  /\ clean \subseteq Names /\ amid \in [Bins -> SUBSET Commands]

Init ==
  /\ desktop = [f \in Entries |-> None]
  /\ icons = {}
  /\ programs \in SUBSET Bins
  /\ shim \in [Bins -> Scripts \cup {{}}] /\ \A b \in Bins \ programs : shim[b] = {}
  /\ cmd = [p \in Commands |-> Idle]
  /\ clean = {} /\ amid = [b \in Bins |-> {}]

-----------------------------------------------------------------------------

Become(p, work) == cmd' = [cmd EXCEPT ![p] = work]

\* Mutated: a command with nothing left to export goes on.
RestNever(c, left) == [op |-> "apps", c |-> c, left |-> left]

Rest(c, left) == IF left = {} THEN Idle ELSE [op |-> "apps", c |-> c, left |-> left]

\* One name, or with --all those that the definition declares.
ExportApps(p, c, apps) ==
  /\ cmd[p] = Idle /\ apps # {}
  /\ Become(p, [op |-> "apps", c |-> c, left |-> apps])
  /\ UNCHANGED <<host, clean>>

\* The first application left is found in one of the places where the container
\* keeps desktop entries; its entry is rewritten for the host.
WriteEntry(p, app) ==
  LET c == cmd[p].c IN
  /\ cmd[p].op = "apps" /\ app \in cmd[p].left
  /\ desktop' = [desktop EXCEPT ![EntryName(c, app)] = c]
  /\ clean' = clean \ {c}
  /\ Become(p, [op |-> "icon", c |-> c, left |-> cmd[p].left \ {app}])
  /\ UNCHANGED <<icons, programs, shim>>

\* An application that is not found, or whose entry cannot be written (which
\* may leave it empty), is passed over with --all and ends the command
\* otherwise, when it is the only one.
SkipApp(p, app) ==
  LET c == cmd[p].c IN
  /\ cmd[p].op = "apps" /\ app \in cmd[p].left
  /\ desktop' \in {desktop, [desktop EXCEPT ![EntryName(c, app)] = None]}
  /\ Become(p, Rest(c, cmd[p].left \ {app}))
  /\ UNCHANGED <<icons, programs, shim, clean>>

\* An icon that is not named, not found or refused is no error; the directory
\* is made before the icon is looked for.
CopyIcon(p) ==
  LET c == cmd[p].c IN
  /\ cmd[p].op = "icon"
  /\ icons' \in {icons, icons \cup {c}}
  /\ clean' = IF icons' = icons THEN clean ELSE clean \ {c}
  /\ Become(p, Rest(c, cmd[p].left))
  /\ UNCHANGED <<desktop, programs, shim>>

ExportBins(p, c, bins) ==
  /\ cmd[p] = Idle /\ bins # {}
  /\ Become(p, [op |-> "bins", c |-> c, left |-> bins])
  /\ UNCHANGED <<host, clean>>

RestBins(c, left) == IF left = {} THEN Idle ELSE [op |-> "bins", c |-> c, left |-> left]

\* fs::write empties whatever has the shim's name ...
OpenShim(p, bin) ==
  LET c == cmd[p].c IN
  /\ cmd[p].op = "bins" /\ bin \in cmd[p].left
  /\ programs' = programs \cup {bin} /\ shim' = [shim EXCEPT ![bin] = {}]
  /\ Become(p, [op |-> "writeShim", c |-> c, bin |-> bin, left |-> cmd[p].left \ {bin}])
  /\ UNCHANGED <<desktop, icons, clean>>

\* ... and writes it, or fails to; what is written to a file that has been
\* removed meanwhile is nowhere.
WriteShim(p) ==
  LET c == cmd[p].c  b == cmd[p].bin IN
  /\ cmd[p].op = "writeShim"
  /\ \/ /\ b \in programs
        /\ shim' = [shim EXCEPT ![b] = {c}]
        /\ clean' = clean \ {c}
     \/ UNCHANGED <<shim, clean>>
  /\ Become(p, RestBins(c, cmd[p].left))
  /\ UNCHANGED <<desktop, icons, programs>>

\* A shim whose file cannot be opened is passed over, or ends the command.
SkipBin(p, bin) ==
  /\ cmd[p].op = "bins" /\ bin \in cmd[p].left
  /\ Become(p, RestBins(cmd[p].c, cmd[p].left \ {bin}))
  /\ UNCHANGED <<host, clean>>

-----------------------------------------------------------------------------
(* Cleaning.                                                               *)

\* Mutated: every entry that has the name anywhere.
MatchesAnywhere(c, f) == \E i \in 1 .. Len(f) : IsPrefix(c, SubSeq(f, i, Len(f)))

\* Every entry whose name begins with podbox-C, whatever comes next.
Matches(c, f) == IsPrefix(c, f)

Enters(b, c) == c \in shim[b]

SweepEntries(c, left) ==
  IF left = {} THEN [op |-> "cleanIcons", c |-> c]
  ELSE [op |-> "cleanEntries", c |-> c, left |-> left]

SweepShims(c, left) ==
  IF left = {} THEN Idle ELSE [op |-> "cleanShims", c |-> c, left |-> left]

\* The entries that match are removed one by one.
Clean(p, c) ==
  /\ cmd[p] = Idle
  /\ Become(p, SweepEntries(c, {f \in Entries : Matches(c, f)}))
  /\ clean' = clean \cup {c}
  /\ UNCHANGED host

\* One that cannot be removed stays, and nobody is told.
CleanEntry(p, f) ==
  LET c == cmd[p].c IN
  /\ cmd[p].op = "cleanEntries" /\ f \in cmd[p].left
  /\ \/ /\ desktop' = [desktop EXCEPT ![f] = None]
        /\ UNCHANGED clean
     \/ /\ clean' = IF desktop[f] = c THEN clean \ {c} ELSE clean
        /\ UNCHANGED desktop
  /\ Become(p, SweepEntries(c, cmd[p].left \ {f}))
  /\ UNCHANGED <<icons, programs, shim>>

\* Nor about the icons.
CleanIcons(p) ==
  LET c == cmd[p].c IN
  /\ cmd[p].op = "cleanIcons"
  /\ icons' \in {icons, icons \ {c}}
  /\ clean' = IF c \in icons' THEN clean \ {c} ELSE clean
  /\ Become(p, SweepShims(c, Bins))
  /\ UNCHANGED <<desktop, programs, shim>>

\* Mutated: shims are looked for by name, as entries are.
ReadShimByName(p, b) ==
  LET c == cmd[p].c  left == cmd[p].left \ {b} IN
  /\ cmd[p].op = "cleanShims" /\ b \in cmd[p].left
  /\ IF IsPrefix(c, <<b>>)
     THEN Become(p, [op |-> "rmShim", c |-> c, bin |-> b, left |-> left])
     ELSE Become(p, SweepShims(c, left))
  /\ UNCHANGED <<host, clean>>

\* Every file is read, and told by the text that enters the container, whoever
\* wrote it; one that cannot be read is passed over.
ReadShim(p, b) ==
  LET c == cmd[p].c  left == cmd[p].left \ {b} IN
  /\ cmd[p].op = "cleanShims" /\ b \in cmd[p].left
  /\ \/ /\ Enters(b, c)
        /\ Become(p, [op |-> "rmShim", c |-> c, bin |-> b, left |-> left])
        /\ UNCHANGED clean
     \/ /\ Become(p, SweepShims(c, left))
        /\ clean' = IF Enters(b, c) THEN clean \ {c} ELSE clean
  /\ UNCHANGED host

\* It is removed, whatever it is by then, or stays.
RemoveShim(p) ==
  LET c == cmd[p].c  b == cmd[p].bin IN
  /\ cmd[p].op = "rmShim"
  /\ \/ /\ programs' = programs \ {b} /\ shim' = [shim EXCEPT ![b] = {}]
        /\ UNCHANGED clean
     \/ /\ clean' = IF Enters(b, c) THEN clean \ {c} ELSE clean
        /\ UNCHANGED <<programs, shim>>
  /\ Become(p, SweepShims(c, cmd[p].left))
  /\ UNCHANGED <<desktop, icons>>

\* Ctrl-C, or a directory that cannot be made.
Interrupt(p) ==
  /\ cmd[p] # Idle /\ Become(p, Idle)
  /\ clean' = IF cmd[p].op \in Cleans THEN clean \ {cmd[p].c} ELSE clean
  /\ UNCHANGED host

\* The user puts a program of theirs into ~/.local/bin.
UserWrites(b, s) ==
  /\ programs' = programs \cup {b} /\ shim' = [shim EXCEPT ![b] = s]
  /\ clean' = clean \ s
  /\ UNCHANGED <<desktop, icons, cmd>>

Cleaners == {p \in Commands : cmd[p].op \in Cleans}

Touched(b) == shim'[b] # shim[b] \/ ~(b \in programs <=> b \in programs')

Witness == amid' = [b \in Bins |->
  (IF Touched(b) THEN Commands ELSE amid[b]) \cap Cleaners']

Act(p) ==
  \/ \E c \in Names : \/ \E apps \in SUBSET Apps[c] : ExportApps(p, c, apps)
                      \/ \E bins \in SUBSET Bins : ExportBins(p, c, bins)
                      \/ Clean(p, c)
  \/ \E app \in AllApps : WriteEntry(p, app) \/ SkipApp(p, app)
  \/ CopyIcon(p)
  \/ \E bin \in Bins : OpenShim(p, bin) \/ SkipBin(p, bin)
  \/ WriteShim(p)
  \/ \E f \in Entries : CleanEntry(p, f)
  \/ CleanIcons(p)
  \/ \E b \in Bins : ReadShim(p, b)
  \/ RemoveShim(p)
  \/ Interrupt(p)

Next ==
  /\ \/ \E p \in Commands : Act(p)
     \/ \E b \in Bins, s \in Scripts : UserWrites(b, s)
  /\ Witness

Spec == Init /\ [][Next]_vars

-----------------------------------------------------------------------------
(* Properties.                                                             *)

Cleaning(c) == \E p \in Commands : cmd[p].op \in Cleans /\ cmd[p].c = c

\* After a clean of c that ran to its end, and of which no read or removal of
\* something of c's failed unseen, until something is made for c again, nothing
\* on the host runs c: whatever was exported under which definition before, by
\* commands of other containers in between, and over whose files.  (A shim that
\* an export was killed in is an empty file, which runs nothing; no clean finds
\* it.)
CleanLeavesNothing ==
  \A c \in clean : Cleaning(c) \/
    /\ \A f \in Entries : desktop[f] # c
    /\ \A b \in Bins : ~Enters(b, c)
    /\ c \notin icons

\* Containers of which neither's name begins with the other's leave each other's
\* entries and icons alone: no export overwrites them and no clean takes them.
\* (A clean of `dev` does take the entries of `dev2`, and of `dev-x`.)  A program
\* in ~/.local/bin, be it the user's or another container's shim, is replaced by
\* an export of its own name; and a clean removes it only if its text enters the
\* container cleaned, or if it was put there while that clean was running: then
\* it may have taken the place of one that did, between its being read and its
\* being removed.
UnrelatedLeftAlone ==
  [][\A p \in Commands : cmd[p] # Idle /\ cmd'[p] # cmd[p] =>
       LET c == cmd[p].c IN
       /\ \A d \in Names : ~IsPrefix(c, d) /\ ~IsPrefix(d, c) =>
            /\ \A f \in Entries : desktop[f] = d => desktop'[f] = d
            /\ d \in icons => d \in icons'
       /\ \A b \in programs : Touched(b) =>
            \/ b \in programs' /\ shim'[b] \in {{}, {c}}
            \/ Enters(b, c) \/ p \in amid[b]]_vars
=============================================================================
