---------------------------- MODULE ExportsProofs ---------------------------
(***************************************************************************)
(* Exports for any names, applications and programs, and any number of     *)
(* commands side by side.                                                  *)
(***************************************************************************)
EXTENDS Exports, TLAPS

\* Parts of names.
Parts == (UNION {Range(m) : m \in Names \cup AllApps}) \cup {Dash}

\* An entry that runs a container begins with its name.
NamedAlike == \A f \in Entries : desktop[f] # None => IsPrefix(desktop[f], f)

\* Of c there is at most what a clean with w in hand has yet to come to; nothing,
\* if w is Idle.
Without(c, w) ==
  /\ \A f \in Entries : desktop[f] = c => w.op = "cleanEntries" /\ f \in w.left
  /\ c \in icons => w.op \in {"cleanEntries", "cleanIcons"}
  /\ \A b \in Bins : Enters(b, c) =>
       \/ w.op \in {"cleanEntries", "cleanIcons"}
       \/ w.op = "cleanShims" /\ b \in w.left
       \/ w.op = "rmShim" /\ b \in w.left \cup {w.bin}

\* Of a container that counts as clean there is nothing, or a command at work
\* has found all that it has come to.
Swept ==
  \A c \in clean :
    \/ Without(c, Idle)
    \/ \E p \in Commands : cmd[p].op \in Cleans /\ cmd[p].c = c /\ Without(c, cmd[p])

\* What a clean is about to remove enters its container, or has been replaced
\* since it was read.
Found ==
  \A p \in Commands : cmd[p].op = "rmShim" /\ cmd[p].bin \in programs =>
    Enters(cmd[p].bin, cmd[p].c) \/ p \in amid[cmd[p].bin]

\* The entries that a clean has listed have its container's name.
Listed ==
  \A p \in Commands : cmd[p].op = "cleanEntries" =>
    \A f \in cmd[p].left : Matches(cmd[p].c, f)

IInv == TypeOK /\ NamedAlike /\ Swept /\ Found /\ Listed

-----------------------------------------------------------------------------
(* File names.                                                             *)

LEMMA NameTypes ==
  ASSUME NEW n \in Names \cup AllApps
  PROVE  n \in Seq(Parts)
<1>1. n \in Seq(UNION {Range(m) : m \in Names \cup AllApps})
  BY NamesAssumption
<1>2. UNION {Range(m) : m \in Names \cup AllApps} \subseteq Parts
  BY DEF Parts
<1> QED
  BY <1>1, <1>2

LEMMA DashType == <<Dash>> \in Seq(Parts)
<1>1. Dash \in Parts
  BY DEF Parts
<1> QED
  BY <1>1

LEMMA EntryTypes ==
  ASSUME NEW f \in Entries
  PROVE  f \in Seq(Parts)
<1>1. PICK c \in Names, app \in AllApps : f = c \o <<Dash>> \o app
  BY DEF Entries, EntryName, AllApps
<1>2. c \in Seq(Parts) /\ app \in Seq(Parts) /\ <<Dash>> \in Seq(Parts)
  BY NameTypes, DashType
<1>3. c \o <<Dash>> \in Seq(Parts)
  BY <1>2
<1> QED
  BY <1>1, <1>2, <1>3

\* What IsPrefix says, part by part.
LEMMA PrefixMeans ==
  ASSUME NEW S, NEW s \in Seq(S), NEW t \in Seq(S)
  PROVE  IsPrefix(s, t) <=> Len(s) <= Len(t) /\ \A i \in 1 .. Len(s) : s[i] = t[i]
<1>1. ASSUME Len(s) <= Len(t) PROVE
        /\ SubSeq(s, 1, Len(s)) = [i \in 1 .. Len(s) |-> s[i]]
        /\ SubSeq(t, 1, Len(s)) = [i \in 1 .. Len(s) |-> t[i]]
  BY <1>1
<1> QED
  BY <1>1 DEF IsPrefix

\* The file name of an entry begins with the name of its container.
LEMMA EntryBegins ==
  ASSUME NEW c \in Names, NEW app \in AllApps
  PROVE  IsPrefix(c, EntryName(c, app))
<1>1. c \in Seq(Parts) /\ app \in Seq(Parts) /\ <<Dash>> \in Seq(Parts)
  BY NameTypes, DashType
<1>2. c \o <<Dash>> \in Seq(Parts)
  BY <1>1
<1>3. EntryName(c, app) \in Seq(Parts)
  BY <1>1, <1>2 DEF EntryName
<1>4. Len(c) <= Len(EntryName(c, app))
      /\ \A i \in 1 .. Len(c) : c[i] = EntryName(c, app)[i]
  BY <1>1, <1>2 DEF EntryName
<1> QED
  BY <1>1, <1>3, <1>4, PrefixMeans

\* Of two beginnings of one file name one is the beginning of the other.
LEMMA TwoBeginnings ==
  ASSUME NEW c \in Names, NEW d \in Names, NEW f \in Entries,
         IsPrefix(c, f), IsPrefix(d, f)
  PROVE  IsPrefix(c, d) \/ IsPrefix(d, c)
<1>1. c \in Seq(Parts) /\ d \in Seq(Parts) /\ f \in Seq(Parts)
  BY NameTypes, EntryTypes
<1>2. /\ Len(c) <= Len(f) /\ \A i \in 1 .. Len(c) : c[i] = f[i]
      /\ Len(d) <= Len(f) /\ \A i \in 1 .. Len(d) : d[i] = f[i]
  BY <1>1, PrefixMeans
<1>3. Len(c) \in Nat /\ Len(d) \in Nat
  BY <1>1
<1>4. CASE Len(c) <= Len(d)
  <2>1. \A i \in 1 .. Len(c) : c[i] = d[i]
    BY <1>2, <1>3, <1>4
  <2> QED
    BY <1>1, <1>4, <2>1, PrefixMeans
<1>5. CASE Len(d) <= Len(c)
  <2>1. \A i \in 1 .. Len(d) : d[i] = c[i]
    BY <1>2, <1>3, <1>5
  <2> QED
    BY <1>1, <1>5, <2>1, PrefixMeans
<1> QED
  BY <1>3, <1>4, <1>5

-----------------------------------------------------------------------------
(* The commands.                                                           *)

LEMMA IdleWork == Idle \in Work /\ Idle.op = "none" /\ "none" \notin Cleans
BY DEF Idle, Work, Cleans

\* What a command at work has in hand.
LEMMA WorkTypes ==
  ASSUME NEW w \in Work
  PROVE  /\ w.op = "none" <=> w = Idle
         /\ w # Idle => w.c \in Names
         /\ w.op \in {"apps", "icon"} => w.left \in SUBSET AllApps
         /\ w.op \in {"bins", "writeShim", "cleanShims", "rmShim"} => w.left \in SUBSET Bins
         /\ w.op \in {"writeShim", "rmShim"} => w.bin \in Bins
         /\ w.op = "cleanEntries" => w.left \in SUBSET Entries
<1>1. CASE w = Idle
  BY <1>1, IdleWork
<1>2. CASE w \in [op : {"apps"}, c : Names, left : (SUBSET AllApps) \ {{}}]
  BY <1>2, IdleWork
<1>3. CASE w \in [op : {"icon"}, c : Names, left : SUBSET AllApps]
  BY <1>3, IdleWork
<1>4. CASE w \in [op : {"bins"}, c : Names, left : (SUBSET Bins) \ {{}}]
  BY <1>4, IdleWork
<1>5. CASE w \in [op : {"writeShim"}, c : Names, bin : Bins, left : SUBSET Bins]
  BY <1>5, IdleWork
<1>6. CASE w \in [op : {"cleanEntries"}, c : Names, left : (SUBSET Entries) \ {{}}]
  BY <1>6, IdleWork
<1>7. CASE w \in [op : {"cleanIcons"}, c : Names]
  BY <1>7, IdleWork
<1>8. CASE w \in [op : {"cleanShims"}, c : Names, left : (SUBSET Bins) \ {{}}]
  BY <1>8, IdleWork
<1>9. CASE w \in [op : {"rmShim"}, c : Names, bin : Bins, left : SUBSET Bins]
  BY <1>9, IdleWork
<1> QED
  BY <1>1, <1>2, <1>3, <1>4, <1>5, <1>6, <1>7, <1>8, <1>9 DEF Work

LEMMA InHand ==
  ASSUME IInv, NEW p \in Commands
  PROVE  cmd[p] \in Work
BY DEF IInv, TypeOK

\* What is left to a command that exports.
LEMMA RestTypes ==
  ASSUME NEW c \in Names
  PROVE  /\ \A left \in SUBSET AllApps :
              Rest(c, left) \in Work /\ Rest(c, left).op \notin Cleans
         /\ \A left \in SUBSET Bins :
              RestBins(c, left) \in Work /\ RestBins(c, left).op \notin Cleans
<1>1. ASSUME NEW left \in SUBSET AllApps
      PROVE  Rest(c, left) \in Work /\ Rest(c, left).op \notin Cleans
  <2>1. CASE left = {}
    BY <2>1, IdleWork DEF Rest
  <2>2. CASE left # {}
    <3>1. Rest(c, left) = [op |-> "apps", c |-> c, left |-> left]
      BY <2>2 DEF Rest
    <3>2. Rest(c, left) \in [op : {"apps"}, c : Names, left : (SUBSET AllApps) \ {{}}]
      BY <2>2, <3>1
    <3> QED
      BY <3>1, <3>2 DEF Work, Cleans
  <2> QED
    BY <2>1, <2>2
<1>2. ASSUME NEW left \in SUBSET Bins
      PROVE  RestBins(c, left) \in Work /\ RestBins(c, left).op \notin Cleans
  <2>1. CASE left = {}
    BY <2>1, IdleWork DEF RestBins
  <2>2. CASE left # {}
    <3>1. RestBins(c, left) = [op |-> "bins", c |-> c, left |-> left]
      BY <2>2 DEF RestBins
    <3>2. RestBins(c, left) \in [op : {"bins"}, c : Names, left : (SUBSET Bins) \ {{}}]
      BY <2>2, <3>1
    <3> QED
      BY <3>1, <3>2 DEF Work, Cleans
  <2> QED
    BY <2>1, <2>2
<1> QED
  BY <1>1, <1>2

\* What is left to one that cleans.
LEMMA SweepEntriesTypes ==
  ASSUME NEW c \in Names, NEW left \in SUBSET Entries
  PROVE  \E w \in Work : /\ w = SweepEntries(c, left)
                         /\ w.op \in Cleans /\ w.c = c /\ w.op # "rmShim"
                         /\ \/ w.op = "cleanIcons" /\ left = {}
                            \/ w.op = "cleanEntries" /\ w.left = left
<1>1. CASE left = {}
  <2>1. SweepEntries(c, left) = [op |-> "cleanIcons", c |-> c]
    BY <1>1 DEF SweepEntries
  <2>2. [op |-> "cleanIcons", c |-> c] \in Work
    BY DEF Work
  <2> QED
    BY <1>1, <2>1, <2>2 DEF Cleans
<1>2. CASE left # {}
  <2>1. SweepEntries(c, left) = [op |-> "cleanEntries", c |-> c, left |-> left]
    BY <1>2 DEF SweepEntries
  <2>2. [op |-> "cleanEntries", c |-> c, left |-> left] \in Work
    BY <1>2 DEF Work
  <2> QED
    BY <2>1, <2>2 DEF Cleans
<1> QED
  BY <1>1, <1>2

LEMMA SweepShimsTypes ==
  ASSUME NEW c \in Names, NEW left \in SUBSET Bins
  PROVE  \E w \in Work : /\ w = SweepShims(c, left)
                         /\ w.op \notin {"rmShim", "cleanEntries"}
                         /\ \/ w = Idle /\ left = {}
                            \/ w.op = "cleanShims" /\ w.c = c /\ w.left = left
<1>1. CASE left = {}
  <2>1. SweepShims(c, left) = Idle
    BY <1>1 DEF SweepShims
  <2> QED
    BY <1>1, <2>1, IdleWork
<1>2. CASE left # {}
  <2>1. SweepShims(c, left) = [op |-> "cleanShims", c |-> c, left |-> left]
    BY <1>2 DEF SweepShims
  <2>2. [op |-> "cleanShims", c |-> c, left |-> left] \in Work
    BY <1>2 DEF Work
  <2> QED
    BY <2>1, <2>2
<1> QED
  BY <1>1, <1>2

LEMMA InitInvariant == Init => IInv
<1> SUFFICES ASSUME Init PROVE IInv
  OBVIOUS
<1>1. TypeOK
  BY IdleWork, ScriptsAssumption DEF Init, TypeOK
<1>2. NamedAlike /\ Swept
  BY DEF Init, NamedAlike, Swept
<1>3. Found /\ Listed
  BY IdleWork DEF Init, Found, Listed
<1> QED
  BY <1>1, <1>2, <1>3 DEF IInv

-----------------------------------------------------------------------------
(* What has been swept.                                                    *)

\* What only goes away leaves no more than there was.
LEMMA StaysWithout ==
  ASSUME NEW d, NEW w, Without(d, w),
         \A f \in Entries : desktop'[f] = d => desktop[f] = d,
         d \in icons' => d \in icons,
         \A b \in Bins : d \in shim'[b] => d \in shim[b]
  PROVE  Without(d, w)'
BY DEF Without, Enters

\* A step that is nobody's clean keeps what cleans have swept: what it makes is
\* of containers that are clean no more.
LEMMA OthersSwept ==
  ASSUME IInv, clean' \subseteq clean,
         \A q \in Commands : cmd[q].op \in Cleans /\ cmd[q].c \in clean' => cmd'[q] = cmd[q],
         \A d \in clean' :
           /\ \A f \in Entries : desktop'[f] = d => desktop[f] = d
           /\ d \in icons' => d \in icons
           /\ \A b \in Bins : d \in shim'[b] => d \in shim[b]
  PROVE  Swept'
<1> SUFFICES ASSUME NEW d \in clean'
             PROVE  \/ Without(d, Idle)'
                    \/ \E q \in Commands : (/\ cmd[q].op \in Cleans /\ cmd[q].c = d
                                            /\ Without(d, cmd[q]))'
  BY DEF Swept
<1>1. CASE Without(d, Idle)
  BY <1>1, StaysWithout
<1>2. ASSUME NEW q \in Commands, cmd[q].op \in Cleans, cmd[q].c = d, Without(d, cmd[q])
      PROVE  (cmd[q].op \in Cleans /\ cmd[q].c = d /\ Without(d, cmd[q]))'
  <2>1. cmd'[q] = cmd[q]
    BY <1>2
  <2>2. PICK w : w = cmd[q]
    OBVIOUS
  <2>3. Without(d, w)'
    BY <1>2, <2>2, StaysWithout
  <2> QED
    BY <1>2, <2>1, <2>2, <2>3 DEF Cleans
<1> QED
  BY <1>1, <1>2 DEF IInv, Swept

\* A step of a clean only takes away, and then has come to more.
LEMMA CleanerSwept ==
  ASSUME IInv, NEW p \in Commands, NEW c \in Names, NEW w \in Work,
         cmd[p].op \in Cleans, cmd[p].c = c, Become(p, w), clean' \subseteq clean,
         w = Idle \/ (w.op \in Cleans /\ w.c = c),
         c \in clean' /\ Without(c, cmd[p]) => Without(c, w)',
         \A d \in Names :
           /\ \A f \in Entries : desktop'[f] = d => desktop[f] = d
           /\ d \in icons' => d \in icons
           /\ \A b \in Bins : d \in shim'[b] => d \in shim[b]
  PROVE  Swept'
<1> SUFFICES ASSUME NEW d \in clean'
             PROVE  \/ Without(d, Idle)'
                    \/ \E q \in Commands : (/\ cmd[q].op \in Cleans /\ cmd[q].c = d
                                            /\ Without(d, cmd[q]))'
  BY DEF Swept
<1>0. d \in Names
  BY DEF IInv, TypeOK
<1>1. CASE Without(d, Idle)
  BY <1>0, <1>1, StaysWithout
<1>2. ASSUME NEW q \in Commands, cmd[q].op \in Cleans, cmd[q].c = d, Without(d, cmd[q])
      PROVE  \/ Without(d, Idle)'
             \/ (cmd[q].op \in Cleans /\ cmd[q].c = d /\ Without(d, cmd[q]))'
  <2>1. CASE q = p
    <3>1. Without(c, w)' /\ cmd'[q] = w /\ d = c
      BY <1>2, <2>1 DEF Become, IInv, TypeOK
    <3>2. CASE w = Idle
      BY <3>1, <3>2
    <3>3. CASE w.op \in Cleans /\ w.c = c
      BY <3>1, <3>3 DEF Cleans
    <3> QED
      BY <3>2, <3>3
  <2>2. CASE q # p
    <3>1. cmd'[q] = cmd[q]
      BY <2>2 DEF Become, IInv, TypeOK
    <3>2. PICK v : v = cmd[q]
      OBVIOUS
    <3>3. Without(d, v)'
      BY <1>0, <1>2, <3>2, StaysWithout
    <3> QED
      BY <1>2, <3>1, <3>2, <3>3 DEF Cleans
  <2> QED
    BY <2>1, <2>2
<1> QED
  BY <1>1, <1>2 DEF IInv, Swept

-----------------------------------------------------------------------------
(* The steps.                                                              *)

\* What a clean found stays what it found, or is told as replaced.
LEMMA StepKeeps ==
  ASSUME IInv, NEW p \in Commands, NEW w \in Work, Become(p, w), Witness,
         desktop' \in [Entries -> Names \cup {None}], icons' \subseteq Names,
         programs' \subseteq Bins, shim' \in [Bins -> SUBSET Names], clean' \subseteq Names,
         w.op = "rmShim" => w.c \in shim'[w.bin],
         w.op = "cleanEntries" => \A f \in w.left : Matches(w.c, f),
         NamedAlike', Swept'
  PROVE  IInv'
<1>1. amid' \in [Bins -> SUBSET Commands]
  BY DEF Witness, IInv, TypeOK, Cleaners
<1>2. TypeOK'
  BY <1>1 DEF IInv, TypeOK, Become
<1>3. Found'
  <2> SUFFICES ASSUME NEW q \in Commands, cmd'[q].op = "rmShim", cmd'[q].bin \in programs'
               PROVE  cmd'[q].c \in shim'[cmd'[q].bin] \/ q \in amid'[cmd'[q].bin]
    BY DEF Found, Enters
  <2>1. CASE q = p
    BY <2>1 DEF IInv, TypeOK, Become
  <2>2. CASE q # p
    <3>1. cmd'[q] = cmd[q] /\ cmd[q].bin \in Bins
      BY <2>2, InHand, WorkTypes DEF IInv, TypeOK, Become
    <3>2. q \in Cleaners'
      BY <3>1 DEF Cleaners, Cleans
    <3>3. CASE Touched(cmd[q].bin)
      BY <3>1, <3>2, <3>3 DEF Witness
    <3>4. CASE ~Touched(cmd[q].bin)
      BY <3>1, <3>2, <3>4 DEF Witness, Touched, IInv, Found, Enters
    <3> QED
      BY <3>3, <3>4
  <2> QED
    BY <2>1, <2>2
<1>4. Listed'
  BY DEF IInv, TypeOK, Listed, Become, Matches
<1> QED
  BY <1>2, <1>3, <1>4 DEF IInv

\* Between a command's steps nothing on the host changes.
LEMMA BusyStep ==
  ASSUME IInv, NEW p \in Commands, NEW w \in Work, Become(p, w), Witness,
         cmd[p].op \notin Cleans, w.op \notin Cleans, UNCHANGED <<host, clean>>
  PROVE  IInv'
<1>0. UNCHANGED <<desktop, icons, programs, shim, clean>> /\ w.op \notin {"rmShim", "cleanEntries"}
  BY DEF host, Cleans
<1>1. NamedAlike'
  BY <1>0 DEF IInv, NamedAlike
<1>2. \A q \in Commands : cmd[q].op \in Cleans => cmd'[q] = cmd[q]
  BY DEF Become, IInv, TypeOK
<1>3. Swept'
  BY <1>0, <1>2, OthersSwept
<1> QED
  BY <1>0, <1>1, <1>3, StepKeeps DEF IInv, TypeOK

LEMMA BeginStep ==
  ASSUME IInv, NEW p \in Commands, NEW c \in Names, Witness,
         \/ \E apps \in SUBSET Apps[c] : ExportApps(p, c, apps)
         \/ \E bins \in SUBSET Bins : ExportBins(p, c, bins)
  PROVE  IInv'
<1>0. cmd[p] = Idle => cmd[p].op \notin Cleans
  BY IdleWork
<1>1. ASSUME NEW apps \in SUBSET Apps[c], ExportApps(p, c, apps) PROVE IInv'
  <2>1. apps \in (SUBSET AllApps) \ {{}}
    BY <1>1 DEF ExportApps, AllApps
  <2>2. PICK w : w = [op |-> "apps", c |-> c, left |-> apps]
    OBVIOUS
  <2>3. w \in Work /\ w.op \notin Cleans
    BY <2>1, <2>2 DEF Work, Cleans
  <2> QED
    BY <1>0, <1>1, <2>2, <2>3, BusyStep DEF ExportApps
<1>2. ASSUME NEW bins \in SUBSET Bins, ExportBins(p, c, bins) PROVE IInv'
  <2>1. bins \in (SUBSET Bins) \ {{}}
    BY <1>2 DEF ExportBins
  <2>2. PICK w : w = [op |-> "bins", c |-> c, left |-> bins]
    OBVIOUS
  <2>3. w \in Work /\ w.op \notin Cleans
    BY <2>1, <2>2 DEF Work, Cleans
  <2> QED
    BY <1>0, <1>2, <2>2, <2>3, BusyStep DEF ExportBins
<1> QED
  BY <1>1, <1>2

LEMMA WriteEntryStep ==
  ASSUME IInv, NEW p \in Commands, NEW app \in AllApps, WriteEntry(p, app), Witness
  PROVE  IInv'
<1>0. cmd[p].op = "apps" /\ cmd[p].op \notin Cleans
  BY DEF WriteEntry, Cleans
<1>1. PICK c \in Names : c = cmd[p].c
  BY <1>0, InHand, WorkTypes
<1>2. PICK w : w = [op |-> "icon", c |-> c, left |-> cmd[p].left \ {app}]
  OBVIOUS
<1>3. w \in Work /\ w.op = "icon"
  <2>1. cmd[p].left \ {app} \in SUBSET AllApps
    BY <1>0, InHand, WorkTypes
  <2> QED
    BY <1>2, <2>1 DEF Work
<1>4. /\ desktop' = [desktop EXCEPT ![EntryName(c, app)] = c]
      /\ clean' = clean \ {c} /\ Become(p, w) /\ UNCHANGED <<icons, programs, shim>>
  BY <1>1, <1>2 DEF WriteEntry
<1>5. desktop' \in [Entries -> Names \cup {None}]
  BY <1>4 DEF IInv, TypeOK
<1>6. NamedAlike'
  BY <1>4, EntryBegins DEF IInv, TypeOK, NamedAlike
<1>7. \A d \in clean' : \A f \in Entries : desktop'[f] = d => desktop[f] = d
  BY <1>4 DEF IInv, TypeOK
<1>8. \A q \in Commands : cmd[q].op \in Cleans => cmd'[q] = cmd[q]
  BY <1>0, <1>4 DEF Become, IInv, TypeOK
<1>9. Swept'
  BY <1>4, <1>7, <1>8, OthersSwept
<1> QED
  BY <1>3, <1>4, <1>5, <1>6, <1>9, StepKeeps DEF IInv, TypeOK

LEMMA SkipAppStep ==
  ASSUME IInv, NEW p \in Commands, NEW app \in AllApps, SkipApp(p, app), Witness
  PROVE  IInv'
<1>0. cmd[p].op = "apps" /\ cmd[p].op \notin Cleans
  BY DEF SkipApp, Cleans
<1>1. PICK c \in Names : c = cmd[p].c
  BY <1>0, InHand, WorkTypes
<1>2. PICK w \in Work : w = Rest(c, cmd[p].left \ {app}) /\ w.op \notin Cleans
  <2>1. cmd[p].left \ {app} \in SUBSET AllApps
    BY <1>0, InHand, WorkTypes
  <2> QED
    BY <2>1, RestTypes
<1>3. /\ desktop' \in {desktop, [desktop EXCEPT ![EntryName(c, app)] = None]}
      /\ Become(p, w) /\ UNCHANGED <<icons, programs, shim, clean>>
  BY <1>1, <1>2 DEF SkipApp
<1>4. desktop' \in [Entries -> Names \cup {None}]
  BY <1>3 DEF IInv, TypeOK
<1>5. \A f \in Entries : desktop'[f] = desktop[f] \/ desktop'[f] = None
  BY <1>3 DEF IInv, TypeOK
<1>6. NamedAlike'
  BY <1>5 DEF IInv, NamedAlike
<1>7. \A d \in clean' : \A f \in Entries : desktop'[f] = d => desktop[f] = d
  BY <1>3, <1>5, NamesAssumption DEF IInv, TypeOK
<1>8. \A q \in Commands : cmd[q].op \in Cleans => cmd'[q] = cmd[q]
  BY <1>0, <1>3 DEF Become, IInv, TypeOK
<1>9. Swept'
  BY <1>3, <1>7, <1>8, OthersSwept
<1>10. w.op \notin {"rmShim", "cleanEntries"}
  BY <1>2 DEF Cleans
<1> QED
  BY <1>3, <1>4, <1>6, <1>9, <1>10, StepKeeps DEF IInv, TypeOK

LEMMA CopyIconStep ==
  ASSUME IInv, NEW p \in Commands, CopyIcon(p), Witness
  PROVE  IInv'
<1>0. cmd[p].op = "icon" /\ cmd[p].op \notin Cleans
  BY DEF CopyIcon, Cleans
<1>1. PICK c \in Names : c = cmd[p].c
  BY <1>0, InHand, WorkTypes
<1>2. PICK w \in Work : w = Rest(c, cmd[p].left) /\ w.op \notin Cleans
  BY <1>0, InHand, WorkTypes, RestTypes
<1>3. /\ icons' \in {icons, icons \cup {c}}
      /\ clean' = (IF icons' = icons THEN clean ELSE clean \ {c})
      /\ Become(p, w) /\ UNCHANGED <<desktop, programs, shim>>
  BY <1>1, <1>2 DEF CopyIcon
<1>4. NamedAlike'
  BY <1>3 DEF IInv, NamedAlike
<1>5. /\ clean' \subseteq clean /\ icons' \subseteq Names
      /\ \A d \in clean' : d \in icons' => d \in icons
  BY <1>3 DEF IInv, TypeOK
<1>6. \A q \in Commands : cmd[q].op \in Cleans => cmd'[q] = cmd[q]
  BY <1>0, <1>3 DEF Become, IInv, TypeOK
<1>7. Swept'
  BY <1>3, <1>5, <1>6, OthersSwept
<1>8. w.op \notin {"rmShim", "cleanEntries"}
  BY <1>2 DEF Cleans
<1> QED
  BY <1>3, <1>4, <1>5, <1>7, <1>8, StepKeeps DEF IInv, TypeOK

LEMMA OpenShimStep ==
  ASSUME IInv, NEW p \in Commands, NEW bin \in Bins, OpenShim(p, bin), Witness
  PROVE  IInv'
<1>0. cmd[p].op = "bins" /\ cmd[p].op \notin Cleans
  BY DEF OpenShim, Cleans
<1>1. PICK c \in Names : c = cmd[p].c
  BY <1>0, InHand, WorkTypes
<1>2. PICK w : w = [op |-> "writeShim", c |-> c, bin |-> bin, left |-> cmd[p].left \ {bin}]
  OBVIOUS
<1>3. w \in Work /\ w.op = "writeShim"
  <2>1. cmd[p].left \ {bin} \in SUBSET Bins
    BY <1>0, InHand, WorkTypes
  <2> QED
    BY <1>2, <2>1 DEF Work
<1>4. /\ programs' = programs \cup {bin} /\ shim' = [shim EXCEPT ![bin] = {}]
      /\ Become(p, w) /\ UNCHANGED <<desktop, icons, clean>>
  BY <1>1, <1>2 DEF OpenShim
<1>5. NamedAlike'
  BY <1>4 DEF IInv, NamedAlike
<1>6. /\ shim' \in [Bins -> SUBSET Names] /\ programs' \subseteq Bins
      /\ \A b \in Bins : shim'[b] \subseteq shim[b]
  BY <1>4 DEF IInv, TypeOK
<1>7. \A q \in Commands : cmd[q].op \in Cleans => cmd'[q] = cmd[q]
  BY <1>0, <1>4 DEF Become, IInv, TypeOK
<1>8. Swept'
  BY <1>4, <1>6, <1>7, OthersSwept
<1> QED
  BY <1>3, <1>4, <1>5, <1>6, <1>8, StepKeeps DEF IInv, TypeOK

LEMMA WriteShimStep ==
  ASSUME IInv, NEW p \in Commands, WriteShim(p), Witness
  PROVE  IInv'
<1>0. cmd[p].op = "writeShim" /\ cmd[p].op \notin Cleans
  BY DEF WriteShim, Cleans
<1>1. PICK c \in Names : c = cmd[p].c
  BY <1>0, InHand, WorkTypes
<1>2. PICK b \in Bins : b = cmd[p].bin
  BY <1>0, InHand, WorkTypes
<1>3. PICK w \in Work : w = RestBins(c, cmd[p].left) /\ w.op \notin Cleans
  BY <1>0, InHand, WorkTypes, RestTypes
<1>4. /\ \/ shim' = [shim EXCEPT ![b] = {c}] /\ clean' = clean \ {c}
         \/ UNCHANGED <<shim, clean>>
      /\ Become(p, w) /\ UNCHANGED <<desktop, icons, programs>>
  BY <1>1, <1>2, <1>3 DEF WriteShim
<1>5. NamedAlike'
  BY <1>4 DEF IInv, NamedAlike
<1>6. /\ shim' \in [Bins -> SUBSET Names] /\ clean' \subseteq clean
      /\ \A d \in clean' : \A x \in Bins : d \in shim'[x] => d \in shim[x]
  BY <1>4 DEF IInv, TypeOK
<1>7. \A q \in Commands : cmd[q].op \in Cleans => cmd'[q] = cmd[q]
  BY <1>0, <1>4 DEF Become, IInv, TypeOK
<1>8. Swept'
  BY <1>4, <1>6, <1>7, OthersSwept
<1>9. w.op \notin {"rmShim", "cleanEntries"}
  BY <1>3 DEF Cleans
<1> QED
  BY <1>4, <1>5, <1>6, <1>8, <1>9, StepKeeps DEF IInv, TypeOK

LEMMA SkipBinStep ==
  ASSUME IInv, NEW p \in Commands, NEW bin \in Bins, SkipBin(p, bin), Witness
  PROVE  IInv'
<1>0. cmd[p].op = "bins" /\ cmd[p].op \notin Cleans
  BY DEF SkipBin, Cleans
<1>1. PICK c \in Names : c = cmd[p].c
  BY <1>0, InHand, WorkTypes
<1>2. PICK w \in Work : w = RestBins(c, cmd[p].left \ {bin}) /\ w.op \notin Cleans
  <2>1. cmd[p].left \ {bin} \in SUBSET Bins
    BY <1>0, InHand, WorkTypes
  <2> QED
    BY <2>1, RestTypes
<1> QED
  BY <1>0, <1>1, <1>2, BusyStep DEF SkipBin

\* A clean that begins has before it all that is its container's.
LEMMA CleanStep ==
  ASSUME IInv, NEW p \in Commands, NEW c \in Names, Clean(p, c), Witness
  PROVE  IInv'
<1> DEFINE left == {f \in Entries : Matches(c, f)}
<1>1. PICK w \in Work : /\ w = SweepEntries(c, left)
                        /\ w.op \in Cleans /\ w.c = c /\ w.op # "rmShim"
                        /\ \/ w.op = "cleanIcons" /\ left = {}
                           \/ w.op = "cleanEntries" /\ w.left = left
  <2>1. left \in SUBSET Entries
    OBVIOUS
  <2> HIDE DEF left
  <2> QED
    BY <2>1, SweepEntriesTypes
<1>2. /\ cmd[p] = Idle /\ Become(p, w) /\ clean' = clean \cup {c}
      /\ UNCHANGED <<desktop, icons, programs, shim>>
  BY <1>1 DEF Clean, host
<1>3. NamedAlike'
  BY <1>2 DEF IInv, NamedAlike
<1>4. Swept'
  <2> SUFFICES ASSUME NEW d \in clean'
               PROVE  \/ Without(d, Idle)'
                      \/ \E q \in Commands : (/\ cmd[q].op \in Cleans /\ cmd[q].c = d
                                              /\ Without(d, cmd[q]))'
    BY DEF Swept
  <2>1. CASE d = c
    <3>1. cmd'[p] = w
      BY <1>2 DEF IInv, TypeOK, Become
    <3>2. \A f \in Entries : desktop[f] = c => f \in left
      BY NamesAssumption DEF IInv, NamedAlike, Matches
    <3>3. Without(c, w)'
      BY <1>1, <1>2, <3>2 DEF Without
    <3> QED
      BY <1>1, <2>1, <3>1, <3>3
  <2>2. CASE d \in clean /\ Without(d, Idle)
    BY <1>2, <2>2, StaysWithout
  <2>3. ASSUME NEW q \in Commands, cmd[q].op \in Cleans, cmd[q].c = d, Without(d, cmd[q])
        PROVE  (cmd[q].op \in Cleans /\ cmd[q].c = d /\ Without(d, cmd[q]))'
    <3>1. q # p
      BY <1>2, <2>3, IdleWork
    <3>2. cmd'[q] = cmd[q]
      BY <1>2, <3>1 DEF IInv, TypeOK, Become
    <3>3. PICK v : v = cmd[q]
      OBVIOUS
    <3>4. Without(d, v)'
      BY <1>2, <2>3, <3>3, StaysWithout
    <3> QED
      BY <2>3, <3>2, <3>3, <3>4 DEF Cleans
  <2> QED
    BY <1>2, <2>1, <2>2, <2>3 DEF IInv, Swept
<1>5. w.op = "cleanEntries" => \A f \in w.left : Matches(w.c, f)
  BY <1>1
<1> QED
  BY <1>1, <1>2, <1>3, <1>4, <1>5, StepKeeps DEF IInv, TypeOK

\* An entry of c's that stays takes c out of the clean.
LEMMA CleanEntryStep ==
  ASSUME IInv, NEW p \in Commands, NEW f \in Entries, CleanEntry(p, f), Witness
  PROVE  IInv'
<1>0. cmd[p].op = "cleanEntries" /\ cmd[p].op \in Cleans
  BY DEF CleanEntry, Cleans
<1>1. PICK c \in Names : c = cmd[p].c
  BY <1>0, InHand, WorkTypes
<1>2. PICK left \in SUBSET Entries : left = cmd[p].left \ {f}
  <2>1. cmd[p].left \ {f} \in SUBSET Entries
    BY <1>0, InHand, WorkTypes
  <2> QED
    BY <2>1
<1>3. PICK w \in Work : /\ w = SweepEntries(c, left)
                        /\ w.op \in Cleans /\ w.c = c /\ w.op # "rmShim"
                        /\ \/ w.op = "cleanIcons" /\ left = {}
                           \/ w.op = "cleanEntries" /\ w.left = left
  BY SweepEntriesTypes
<1>4. /\ \/ desktop' = [desktop EXCEPT ![f] = None] /\ UNCHANGED clean
         \/ /\ clean' = IF desktop[f] = c THEN clean \ {c} ELSE clean
            /\ UNCHANGED desktop
      /\ Become(p, w) /\ UNCHANGED <<icons, programs, shim>>
  BY <1>1, <1>2, <1>3 DEF CleanEntry
<1>5. /\ desktop' \in [Entries -> Names \cup {None}] /\ clean' \subseteq clean
      /\ \A g \in Entries : desktop'[g] = desktop[g] \/ desktop'[g] = None
      /\ c \in clean' => desktop'[f] # c
  BY <1>4, NamesAssumption DEF IInv, TypeOK
<1>6. NamedAlike'
  BY <1>5 DEF IInv, NamedAlike
<1>7. \A d \in Names : \A g \in Entries : desktop'[g] = d => desktop[g] = d
  BY <1>5, NamesAssumption
<1>8. c \in clean' /\ Without(c, cmd[p]) => Without(c, w)'
  BY <1>0, <1>2, <1>3, <1>4, <1>5, <1>7 DEF Without, Enters
<1>9. Swept'
  BY <1>0, <1>1, <1>3, <1>4, <1>5, <1>7, <1>8, CleanerSwept
<1>10. w.op = "cleanEntries" => \A g \in w.left : Matches(w.c, g)
  BY <1>0, <1>1, <1>2, <1>3 DEF IInv, Listed
<1> QED
  BY <1>3, <1>4, <1>5, <1>6, <1>9, <1>10, StepKeeps DEF IInv, TypeOK

LEMMA CleanIconsStep ==
  ASSUME IInv, NEW p \in Commands, CleanIcons(p), Witness
  PROVE  IInv'
<1>0. cmd[p].op = "cleanIcons" /\ cmd[p].op \in Cleans
  BY DEF CleanIcons, Cleans
<1>1. PICK c \in Names : c = cmd[p].c
  BY <1>0, InHand, WorkTypes, IdleWork
<1>2. PICK w \in Work : /\ w = SweepShims(c, Bins) /\ w.op \notin {"rmShim", "cleanEntries"}
                        /\ \/ w = Idle /\ Bins = {}
                           \/ w.op = "cleanShims" /\ w.c = c /\ w.left = Bins
  BY SweepShimsTypes
<1>3. /\ icons' \in {icons, icons \ {c}}
      /\ clean' = (IF c \in icons' THEN clean \ {c} ELSE clean)
      /\ Become(p, w) /\ UNCHANGED <<desktop, programs, shim>>
  BY <1>1, <1>2 DEF CleanIcons
<1>4. NamedAlike'
  BY <1>3 DEF IInv, NamedAlike
<1>5. /\ icons' \subseteq icons /\ clean' \subseteq clean
      /\ c \in clean' => c \notin icons'
  BY <1>3
<1>6. c \in clean' /\ Without(c, cmd[p]) => Without(c, w)'
  BY <1>0, <1>2, <1>3, <1>5 DEF Without, Enters
<1>7. w = Idle \/ (w.op \in Cleans /\ w.c = c)
  BY <1>2 DEF Cleans
<1>8. Swept'
  BY <1>0, <1>1, <1>3, <1>5, <1>6, <1>7, CleanerSwept
<1> QED
  BY <1>2, <1>3, <1>4, <1>5, <1>8, StepKeeps DEF IInv, TypeOK

\* What is read is told by its text, and either found or none of c's.
LEMMA ReadShimStep ==
  ASSUME IInv, NEW p \in Commands, NEW b \in Bins, ReadShim(p, b), Witness
  PROVE  IInv'
<1>0. cmd[p].op = "cleanShims" /\ cmd[p].op \in Cleans
  BY DEF ReadShim, Cleans
<1>1. PICK c \in Names : c = cmd[p].c
  BY <1>0, InHand, WorkTypes, IdleWork
<1>2. PICK left \in SUBSET Bins : left = cmd[p].left \ {b}
  <2>1. cmd[p].left \ {b} \in SUBSET Bins
    BY <1>0, InHand, WorkTypes
  <2> QED
    BY <2>1
<1>3. UNCHANGED <<desktop, icons, programs, shim>>
  BY DEF ReadShim, host
<1>4. NamedAlike'
  BY <1>3 DEF IInv, NamedAlike
<1>5. CASE /\ Enters(b, c) /\ UNCHANGED clean
           /\ Become(p, [op |-> "rmShim", c |-> c, bin |-> b, left |-> left])
  <2>1. PICK w : w = [op |-> "rmShim", c |-> c, bin |-> b, left |-> left]
    OBVIOUS
  <2>2. w \in Work /\ w.op \in Cleans /\ w.c = c
    BY <2>1 DEF Work, Cleans
  <2>3. Without(c, cmd[p]) => Without(c, w)'
    BY <1>0, <1>2, <1>3, <2>1 DEF Without, Enters
  <2>4. Become(p, w)
    BY <1>5, <2>1
  <2>5. Swept'
    BY <1>0, <1>1, <1>3, <1>5, <2>2, <2>3, <2>4, CleanerSwept
  <2>6. w.op = "rmShim" /\ w.c \in shim'[w.bin]
    BY <1>3, <1>5, <2>1 DEF Enters
  <2> QED
    BY <1>3, <1>4, <1>5, <2>2, <2>4, <2>5, <2>6, StepKeeps DEF IInv, TypeOK
<1>6. CASE /\ Become(p, SweepShims(c, left))
           /\ clean' = IF Enters(b, c) THEN clean \ {c} ELSE clean
  <2>1. PICK w \in Work : /\ w = SweepShims(c, left) /\ w.op \notin {"rmShim", "cleanEntries"}
                          /\ \/ w = Idle /\ left = {}
                             \/ w.op = "cleanShims" /\ w.c = c /\ w.left = left
    BY SweepShimsTypes
  <2>2. clean' \subseteq clean /\ (c \in clean' => ~Enters(b, c))
    BY <1>6
  <2>3. c \in clean' /\ Without(c, cmd[p]) => Without(c, w)'
    BY <1>0, <1>2, <1>3, <2>1, <2>2 DEF Without, Enters
  <2>4. Become(p, w) /\ (w = Idle \/ (w.op \in Cleans /\ w.c = c))
    BY <1>6, <2>1 DEF Cleans
  <2>5. Swept'
    BY <1>0, <1>1, <1>3, <2>2, <2>3, <2>4, CleanerSwept
  <2> QED
    BY <1>3, <1>4, <2>1, <2>2, <2>4, <2>5, StepKeeps DEF IInv, TypeOK
<1> QED
  BY <1>1, <1>2, <1>5, <1>6 DEF ReadShim

LEMMA RemoveShimStep ==
  ASSUME IInv, NEW p \in Commands, RemoveShim(p), Witness
  PROVE  IInv'
<1>0. cmd[p].op = "rmShim" /\ cmd[p].op \in Cleans
  BY DEF RemoveShim, Cleans
<1>1. PICK c \in Names : c = cmd[p].c
  BY <1>0, InHand, WorkTypes, IdleWork
<1>2. PICK b \in Bins, left \in SUBSET Bins : b = cmd[p].bin /\ left = cmd[p].left
  BY <1>0, InHand, WorkTypes
<1>3. PICK w \in Work : /\ w = SweepShims(c, left) /\ w.op \notin {"rmShim", "cleanEntries"}
                        /\ \/ w = Idle /\ left = {}
                           \/ w.op = "cleanShims" /\ w.c = c /\ w.left = left
  BY SweepShimsTypes
<1>4. /\ \/ /\ programs' = programs \ {b} /\ shim' = [shim EXCEPT ![b] = {}]
            /\ UNCHANGED clean
         \/ /\ clean' = IF Enters(b, c) THEN clean \ {c} ELSE clean
            /\ UNCHANGED <<programs, shim>>
      /\ Become(p, w) /\ UNCHANGED <<desktop, icons>>
  BY <1>1, <1>2, <1>3 DEF RemoveShim
<1>5. NamedAlike'
  BY <1>4 DEF IInv, NamedAlike
<1>6. /\ shim' \in [Bins -> SUBSET Names] /\ programs' \subseteq Bins
      /\ clean' \subseteq clean /\ \A x \in Bins : shim'[x] \subseteq shim[x]
      /\ c \in clean' => c \notin shim'[b]
  BY <1>4 DEF IInv, TypeOK, Enters
<1>7. c \in clean' /\ Without(c, cmd[p]) => Without(c, w)'
  BY <1>0, <1>2, <1>3, <1>4, <1>6 DEF Without, Enters
<1>8. w = Idle \/ (w.op \in Cleans /\ w.c = c)
  BY <1>3 DEF Cleans
<1>9. Swept'
  BY <1>0, <1>1, <1>4, <1>6, <1>7, <1>8, CleanerSwept
<1> QED
  BY <1>3, <1>4, <1>5, <1>6, <1>9, StepKeeps DEF IInv, TypeOK

\* A clean that ends early leaves its container unclean.
LEMMA InterruptStep ==
  ASSUME IInv, NEW p \in Commands, Interrupt(p), Witness
  PROVE  IInv'
<1>1. /\ Become(p, Idle) /\ UNCHANGED <<desktop, icons, programs, shim>>
      /\ clean' = IF cmd[p].op \in Cleans THEN clean \ {cmd[p].c} ELSE clean
  BY DEF Interrupt, host
<1>2. NamedAlike'
  BY <1>1 DEF IInv, NamedAlike
<1>3. \A q \in Commands : cmd[q].op \in Cleans /\ cmd[q].c \in clean' => cmd'[q] = cmd[q]
  BY <1>1 DEF Become, IInv, TypeOK
<1>4. clean' \subseteq clean
  BY <1>1
<1>5. Swept'
  BY <1>1, <1>3, <1>4, OthersSwept
<1> QED
  BY <1>1, <1>2, <1>4, <1>5, IdleWork, StepKeeps DEF IInv, TypeOK

\* What the user writes for a container takes it out of the clean.
LEMMA UserStep ==
  ASSUME IInv, NEW b \in Bins, NEW s \in Scripts, UserWrites(b, s), Witness
  PROVE  IInv'
<1>1. /\ programs' = programs \cup {b} /\ shim' = [shim EXCEPT ![b] = s]
      /\ clean' = clean \ s /\ UNCHANGED <<desktop, icons, cmd>>
  BY DEF UserWrites
<1>2. TypeOK'
  BY <1>1, ScriptsAssumption DEF IInv, TypeOK, Witness, Cleaners
<1>3. NamedAlike'
  BY <1>1 DEF IInv, NamedAlike
<1>4. \A d \in clean' : \A x \in Bins : d \in shim'[x] => d \in shim[x]
  BY <1>1 DEF IInv, TypeOK
<1>5. Swept'
  BY <1>1, <1>4, OthersSwept
<1>6. Found'
  <2> SUFFICES ASSUME NEW q \in Commands, cmd[q].op = "rmShim", cmd[q].bin \in programs'
               PROVE  cmd[q].c \in shim'[cmd[q].bin] \/ q \in amid'[cmd[q].bin]
    BY <1>1 DEF Found, Enters
  <2>1. cmd[q].bin \in Bins /\ q \in Cleaners'
    BY <1>1, InHand, WorkTypes DEF Cleaners, Cleans
  <2>2. CASE Touched(cmd[q].bin)
    BY <2>1, <2>2 DEF Witness
  <2>3. CASE ~Touched(cmd[q].bin)
    BY <2>1, <2>3 DEF Witness, Touched, IInv, Found, Enters
  <2> QED
    BY <2>2, <2>3
<1>7. Listed'
  BY <1>1 DEF IInv, Listed, Matches
<1> QED
  BY <1>2, <1>3, <1>5, <1>6, <1>7 DEF IInv

LEMMA ActStep ==
  ASSUME IInv, NEW p \in Commands, Act(p), Witness
  PROVE  IInv'
BY BeginStep, WriteEntryStep, SkipAppStep, CopyIconStep, OpenShimStep, WriteShimStep,
   SkipBinStep, CleanStep, CleanEntryStep, CleanIconsStep, ReadShimStep, RemoveShimStep,
   InterruptStep DEF Act

LEMMA Invariance == Spec => []IInv
<1>1. IInv /\ [Next]_vars => IInv'
  <2>1. ASSUME IInv, UNCHANGED vars PROVE IInv'
    <3>1. UNCHANGED <<desktop, icons, programs, shim, cmd, clean, amid>>
      BY <2>1 DEF vars, host, history
    <3>2. TypeOK' /\ NamedAlike' /\ Listed'
      BY <2>1, <3>1 DEF IInv, TypeOK, NamedAlike, Listed, Matches
    <3>3. Swept'
      BY <2>1, <3>1, OthersSwept
    <3>4. Found'
      BY <2>1, <3>1 DEF IInv, Found, Enters
    <3> QED
      BY <3>2, <3>3, <3>4 DEF IInv
  <2>2. ASSUME IInv, Next PROVE IInv'
    BY <2>2, ActStep, UserStep DEF Next
  <2> QED
    BY <2>1, <2>2
<1> QED
  BY InitInvariant, <1>1, PTL DEF Spec


-----------------------------------------------------------------------------
(* What cleans leave.                                                      *)

LEMMA CleanWithout == IInv => CleanLeavesNothing
<1> SUFFICES ASSUME IInv, NEW c \in clean, ~Cleaning(c)
             PROVE  /\ \A f \in Entries : desktop[f] # c
                    /\ \A b \in Bins : ~Enters(b, c)
                    /\ c \notin icons
  BY DEF CleanLeavesNothing
<1>1. Without(c, Idle)
  BY DEF IInv, Swept, Cleaning
<1> QED
  BY <1>1, IdleWork DEF Without

-----------------------------------------------------------------------------
(* What commands leave alone.                                              *)

\* Who acts changes what it has in hand, and nobody else's.
LEMMA Alone ==
  ASSUME IInv, NEW p \in Commands, NEW q \in Commands, Act(q), cmd'[p] # cmd[p]
  PROVE  q = p
<1>1. \E w : Become(q, w)
  BY DEF Act, ExportApps, WriteEntry, SkipApp, CopyIcon, ExportBins, OpenShim, WriteShim,
         SkipBin, Clean, CleanEntry, CleanIcons, ReadShim, RemoveShim, Interrupt
<1> QED
  BY <1>1 DEF Become, IInv, TypeOK

\* An entry of d's has not the name of a container that d has nothing to do with.
LEMMA NotNamed ==
  ASSUME IInv, NEW c \in Names, NEW d \in Names, ~IsPrefix(c, d), ~IsPrefix(d, c),
         NEW f \in Entries, desktop[f] = d
  PROVE  ~IsPrefix(c, f)
<1>1. IsPrefix(d, f)
  BY NamesAssumption DEF IInv, NamedAlike
<1> QED
  BY <1>1, TwoBeginnings

LEMMA EntriesAlone ==
  ASSUME IInv, NEW p \in Commands, Act(p), cmd[p] # Idle,
         NEW d \in Names, ~IsPrefix(cmd[p].c, d), ~IsPrefix(d, cmd[p].c),
         NEW f \in Entries, desktop[f] = d
  PROVE  desktop'[f] = d
<1>0. PICK c \in Names : c = cmd[p].c
  BY InHand, WorkTypes
<1>1. ~IsPrefix(c, f)
  BY <1>0, NotNamed
<1>2. ASSUME NEW app \in AllApps, WriteEntry(p, app) \/ SkipApp(p, app)
      PROVE  desktop'[f] = d
  <2>1. f # EntryName(c, app)
    BY <1>1, EntryBegins
  <2>2. CASE WriteEntry(p, app)
    BY <1>0, <2>1, <2>2 DEF WriteEntry, IInv, TypeOK
  <2>3. CASE SkipApp(p, app)
    BY <1>0, <2>1, <2>3 DEF SkipApp, IInv, TypeOK
  <2> QED
    BY <1>2, <2>2, <2>3
<1>3. ASSUME NEW g \in Entries, CleanEntry(p, g) PROVE desktop'[f] = d
  <2>1. f # g
    BY <1>0, <1>1, <1>3 DEF CleanEntry, IInv, Listed, Matches
  <2> QED
    BY <1>3, <2>1 DEF CleanEntry, IInv, TypeOK
<1>4. UNCHANGED desktop => desktop'[f] = d
  OBVIOUS
<1> QED
  BY <1>2, <1>3, <1>4 DEF Act, ExportApps, CopyIcon, ExportBins, OpenShim, WriteShim, SkipBin,
     Clean, CleanIcons, ReadShim, RemoveShim, Interrupt, host

LEMMA IconsAlone ==
  ASSUME IInv, NEW p \in Commands, Act(p), NEW d \in Names, ~IsPrefix(cmd[p].c, d), d \in icons
  PROVE  d \in icons'
<1>1. CASE CopyIcon(p)
  BY <1>1 DEF CopyIcon
<1>2. CASE CleanIcons(p)
  <2>1. cmd[p].c \in Names
    BY <1>2, InHand, WorkTypes, IdleWork DEF CleanIcons
  <2>2. IsPrefix(d, d)
    BY NameTypes, PrefixMeans
  <2> QED
    BY <1>2, <2>1, <2>2 DEF CleanIcons
<1>3. UNCHANGED icons => d \in icons'
  OBVIOUS
<1> QED
  BY <1>1, <1>2, <1>3 DEF Act, ExportApps, WriteEntry, SkipApp, ExportBins, OpenShim, WriteShim,
     SkipBin, Clean, CleanEntry, ReadShim, RemoveShim, Interrupt, host

LEMMA ProgramsAlone ==
  ASSUME IInv, NEW p \in Commands, Act(p), NEW b \in programs, Touched(b)
  PROVE  \/ b \in programs' /\ shim'[b] \in {{}, {cmd[p].c}}
         \/ Enters(b, cmd[p].c) \/ p \in amid[b]
<1>0. b \in Bins
  BY DEF IInv, TypeOK
<1>1. ASSUME NEW bin \in Bins, OpenShim(p, bin)
      PROVE  b \in programs' /\ shim'[b] \in {{}, {cmd[p].c}}
  BY <1>0, <1>1 DEF OpenShim, Touched, IInv, TypeOK
<1>2. CASE WriteShim(p)
  BY <1>0, <1>2 DEF WriteShim, Touched, IInv, TypeOK
<1>3. CASE RemoveShim(p)
  <2>1. b = cmd[p].bin
    BY <1>0, <1>3 DEF RemoveShim, Touched, IInv, TypeOK
  <2> QED
    BY <1>3, <2>1 DEF RemoveShim, IInv, Found
<1>4. UNCHANGED <<programs, shim>> => ~Touched(b)
  BY DEF Touched
<1> QED
  BY <1>1, <1>2, <1>3, <1>4 DEF Act, ExportApps, WriteEntry, SkipApp, CopyIcon, ExportBins,
     SkipBin, Clean, CleanEntry, CleanIcons, ReadShim, Interrupt, host

-----------------------------------------------------------------------------
(* The theorems.                                                           *)

\* The files, the commands and the histories keep their types.
THEOREM TypeCorrect == Spec => []TypeOK
<1>1. IInv => TypeOK
  BY DEF IInv
<1> QED
  BY Invariance, <1>1, PTL

\* A clean of which no read or removal of something of its container's failed
\* (export.rs:181-238 tells nobody of those that do) leaves nothing of it on the
\* host, whatever other commands did while it was going from file to file.
THEOREM CleanCorrect == Spec => []CleanLeavesNothing
BY Invariance, CleanWithout, PTL

\* No command touches the entries and icons of a container whose name is not the
\* beginning of its own or the other way round; and the removal of a program
\* (export.rs:224-232) takes one that enters the container, or one that has been
\* put there since the clean began.
THEOREM UnrelatedCorrect == Spec => UnrelatedLeftAlone
<1> DEFINE Alright == \A p \in Commands : cmd[p] # Idle /\ cmd'[p] # cmd[p] =>
       LET c == cmd[p].c IN
       /\ \A d \in Names : ~IsPrefix(c, d) /\ ~IsPrefix(d, c) =>
            /\ \A f \in Entries : desktop[f] = d => desktop'[f] = d
            /\ d \in icons => d \in icons'
       /\ \A b \in programs : Touched(b) =>
            \/ b \in programs' /\ shim'[b] \in {{}, {c}}
            \/ Enters(b, c) \/ p \in amid[b]
<1>1. ASSUME IInv, [Next]_vars PROVE [Alright]_vars
  <2> SUFFICES ASSUME Next, NEW p \in Commands, cmd[p] # Idle, cmd'[p] # cmd[p]
      PROVE  /\ \A d \in Names : ~IsPrefix(cmd[p].c, d) /\ ~IsPrefix(d, cmd[p].c) =>
                  /\ \A f \in Entries : desktop[f] = d => desktop'[f] = d
                  /\ d \in icons => d \in icons'
             /\ \A b \in programs : Touched(b) =>
                  \/ b \in programs' /\ shim'[b] \in {{}, {cmd[p].c}}
                  \/ Enters(b, cmd[p].c) \/ p \in amid[b]
    BY <1>1
  <2>1. Act(p)
    BY <1>1, Alone DEF Next, UserWrites
  <2> QED
    BY <1>1, <2>1, EntriesAlone, IconsAlone, ProgramsAlone
<1>2. IInv /\ [Next]_vars => [Alright]_vars
  BY <1>1
<1> QED
  BY Invariance, <1>2, PTL DEF Spec, UnrelatedLeftAlone
=============================================================================
