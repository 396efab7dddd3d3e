-------------------------- MODULE ContainersProofs --------------------------
(***************************************************************************)
(* Containers for any names, profiles and contents, whatever other         *)
(* commands and the user do while one of them waits.                       *)
(***************************************************************************)
EXTENDS Containers, TLAPS

\* What has its home under its own name is marked so, in the files and in what
\* the waiting command has loaded.
HousedAsNamed(d) == d.own <=> d.name = d.home

Loaded == {"build", "start", "create", "pull", "remove"}

Housed ==
  /\ \A p \in Paths : Exists(p) => HousedAsNamed(file[p])
  /\ waiting.op \in Loaded => HousedAsNamed(waiting.cfg)

IInv == TypeOK /\ Housed

-----------------------------------------------------------------------------
(* The operators.                                                          *)

\* There is a definition at a path if and only if there is a file.
LEMMA ExistsIsDefined ==
  ASSUME TypeOK, NEW p \in Paths, Exists(p)
  PROVE  file[p] \in Definitions /\ file[p].name \in Names /\ file[p].home \in Names
         /\ file[p].rev \in Revs
BY DEF TypeOK, Exists, Definitions

LEMMA DefinitionType ==
  ASSUME NEW n \in Names, NEW h \in Names, NEW r \in Revs
  PROVE  /\ Definition(n, h, r) \in Definitions
         /\ HousedAsNamed(Definition(n, h, r))
         /\ Definition(n, h, r).name = n
<1>1. (n = h) \in BOOLEAN
  OBVIOUS
<1> QED
  BY <1>1 DEF Definition, Definitions, HousedAsNamed

\* Whatever is typed or remembered, a command loads, and an editor opens, only
\* what there is.
LEMMA ResolvedExists ==
  ASSUME TypeOK, NEW name \in Options
  PROVE  /\ \A p \in resolve_config(name) : p \in Paths /\ Exists(p)
         /\ \A p \in resolve_config_path(name) : p \in Paths /\ Exists(p)
BY DEF resolve_config, resolve_config_path, find_definition, list_configs, Paths

LEMMA OptionTypes ==
  ASSUME TypeOK
  PROVE  /\ read_active_context \in Options
         /\ \A a, b \in Options : First(a, b) \in Options
BY DEF TypeOK, read_active_context, First, Options

LEMMA HealType ==
  ASSUME TypeOK, NEW name, HealContext(name)
  PROVE  active' \in Names \cup {None}
BY OptionTypes DEF TypeOK, HealContext, Options

\* A command that builds, installs or starts touches what its definition names.
LEMMA EffectType ==
  ASSUME TypeOK, NEW cfg \in Definitions,
         NEW op \in {"build", "enable", "start", "create", "disable"},
         Effect(op, cfg)
  PROVE  /\ tag' \in [Names -> Revs \cup {None}]
         /\ unit' \subseteq Names /\ homes' \subseteq Names
         /\ homes \subseteq homes'
         /\ \A n \in Names : tag'[n] \notin {tag[n], None}
                               => cfg.name = n /\ cfg.rev = tag'[n]
<1> USE DEF TypeOK, Definitions
<1>1. CASE op = "build"
  BY <1>1 DEF Effect, BuildImage
<1>2. CASE op = "enable"
  BY <1>2 DEF Effect, InstallUnits
<1>3. CASE op = "start"
  BY <1>3 DEF Effect, StartHealed
<1>4. CASE op = "create"
  BY <1>4 DEF Effect, FinishCreate
<1>5. CASE op = "disable"
  BY <1>5 DEF Effect
<1> QED
  BY <1>1, <1>2, <1>3, <1>4, <1>5

\* What a command that waits remembers.
LEMMA WaitingType ==
  ASSUME TypeOK
  PROVE  /\ waiting.op \in Loaded \cup {"edit"} => waiting.cfg \in Definitions
         /\ waiting.op = "edit" => waiting.path \in Paths
         /\ waiting.op = "stale" => waiting.found \subseteq Names
BY DEF TypeOK, Waits, Nothing, Loaded

\* A definition with other contents is still one.
LEMMA RevChanged ==
  ASSUME IInv, NEW p \in Paths, Exists(p), NEW r \in Revs,
         file' = [file EXCEPT ![p].rev = r]
  PROVE  /\ file' \in [Paths -> Definitions \cup {None}]
         /\ \A q \in Paths : file'[q] # None => HousedAsNamed(file'[q])
<1>1. file[p] \in Definitions /\ HousedAsNamed(file[p])
  BY ExistsIsDefined DEF IInv, Housed
<1>2. [file[p] EXCEPT !.rev = r] \in Definitions
      /\ HousedAsNamed([file[p] EXCEPT !.rev = r])
  BY <1>1 DEF Definitions, HousedAsNamed
<1> QED
  BY <1>1, <1>2 DEF IInv, TypeOK, Housed, Exists

\* So is a new one.
LEMMA NewDefinition ==
  ASSUME IInv, NEW p \in Paths, NEW d \in Definitions, HousedAsNamed(d),
         file' = [file EXCEPT ![p] = d]
  PROVE  /\ file' \in [Paths -> Definitions \cup {None}]
         /\ \A q \in Paths : file'[q] # None => HousedAsNamed(file'[q])
BY DEF IInv, TypeOK, Housed, Exists

-----------------------------------------------------------------------------
(* The steps.                                                              *)

LEMMA InitInvariant == Init => IInv
BY DEF Init, IInv, TypeOK, Housed, Exists, Waits, Nothing, Loaded

\* Commands that end at once, and the user's own changes.
Immediate ==
  \/ \E name \in Options :
       \/ \E op \in {"build", "enable", "start", "disable"} : Run(op, name)
       \/ DiffApply(name) \/ DisableForced(name)
  \/ \E n \in Names, r \in Revs, inner \in Names : InitDefinition(n, inner, r)
  \/ \E n \in LocalNames, r \in Revs : WriteLocal(n, r)
  \/ \E src, dst \in Names, copied \in BOOLEAN : Clone(src, dst, copied)
  \/ \E p \in Paths : Delete(p) \/ \E r \in Revs : Save(p, r)
  \/ Use

LEMMA ImmediateStep == IInv /\ Immediate => IInv'
<1> SUFFICES ASSUME IInv, Immediate PROVE IInv'
  OBVIOUS
<1>0. TypeOK /\ Housed
  BY DEF IInv
<1>1. ASSUME NEW name \in Options,
             NEW op \in {"build", "enable", "start", "disable"}, Run(op, name)
      PROVE  IInv'
  <2>1. PICK p \in resolve_config(name) : Effect(op, file[p])
    BY <1>1 DEF Run
  <2>2. file[p] \in Definitions
    BY <1>0, ResolvedExists, ExistsIsDefined
  <2>3. /\ tag' \in [Names -> Revs \cup {None}]
        /\ unit' \subseteq Names /\ homes' \subseteq Names
    BY <1>0, <2>1, <2>2, EffectType
  <2>4. active' \in Names \cup {None}
    BY <1>0, <1>1, HealType DEF Run
  <2> QED
    BY <1>0, <1>1, <2>3, <2>4 DEF Run, IInv, TypeOK, Housed, Exists
<1>2. ASSUME NEW name \in Options, DiffApply(name) PROVE IInv'
  <2>1. PICK p \in find_definition, r \in Revs : file' = [file EXCEPT ![p].rev = r]
    BY <1>2 DEF DiffApply
  <2>2. p \in Paths /\ Exists(p)
    BY DEF find_definition
  <2>3. active' \in Names \cup {None}
    BY <1>0, <1>2, HealType DEF DiffApply
  <2> QED
    BY <1>0, <1>2, <2>1, <2>2, <2>3, RevChanged
       DEF DiffApply, IInv, TypeOK, Housed, Exists, world
<1>3. ASSUME NEW name \in Options, DisableForced(name) PROVE IInv'
  <2>1. active' \in Names \cup {None}
    BY <1>0, <1>3, HealType DEF DisableForced
  <2> QED
    BY <1>0, <1>3, <2>1 DEF DisableForced, IInv, TypeOK, Housed, Exists
<1>4. ASSUME NEW n \in Names, NEW r \in Revs, NEW inner \in Names,
             InitDefinition(n, inner, r)
      PROVE  IInv'
  <2>1. n \in Paths
    BY DEF Paths
  <2> QED
    BY <1>0, <1>4, <2>1, DefinitionType, NewDefinition
       DEF InitDefinition, IInv, TypeOK, Housed, Exists, world
<1>5. ASSUME NEW n \in LocalNames, NEW r \in Revs, WriteLocal(n, r) PROVE IInv'
  <2>1. n \in Names /\ Local \in Paths
    BY NamesAssumption DEF Paths
  <2> QED
    BY <1>0, <1>5, <2>1, DefinitionType, NewDefinition
       DEF WriteLocal, IInv, TypeOK, Housed, Exists, world
<1>6. ASSUME NEW src \in Names, NEW dst \in Names, NEW copied \in BOOLEAN,
             Clone(src, dst, copied)
      PROVE  IInv'
  <2>1. src \in Paths /\ dst \in Paths
    BY DEF Paths
  <2>2. file[src].rev \in Revs
    BY <1>0, <1>6, <2>1, ExistsIsDefined DEF Clone
  <2> QED
    BY <1>0, <1>6, <2>1, <2>2, DefinitionType, NewDefinition
       DEF Clone, IInv, TypeOK, Housed, Exists
<1>7. ASSUME NEW p \in Paths, Delete(p) PROVE IInv'
  BY <1>0, <1>7 DEF Delete, IInv, TypeOK, Housed, Exists, world
<1>8. ASSUME NEW p \in Paths, NEW r \in Revs, Save(p, r) PROVE IInv'
  BY <1>0, <1>8, RevChanged DEF Save, IInv, TypeOK, Housed, Exists, world
<1>9. CASE Use
  <2>1. active' \in Names \cup {None}
    BY <1>0, <1>9, OptionTypes DEF Use, list_configs, Options
  <2> QED
    BY <1>0, <1>9, <2>1 DEF Use, IInv, TypeOK, Housed, Exists, world
<1> QED
  BY <1>1, <1>2, <1>3, <1>4, <1>5, <1>6, <1>7, <1>8, <1>9 DEF Immediate

\* Commands that begin to wait.
Begins ==
  \/ \E name \in Options : Edit(name) \/ AskRemove(name)
  \/ \E op \in {"build", "start"}, pos, c \in Options : OpenEditor(op, pos, c)
  \/ \E n \in Names, r \in Revs : CreateImage(n, r)
  \/ \E p \in Profiles, name \in Options, r \in Revs : CreateProfile(p, name, r)
  \/ AskRemoveStale

LEMMA BeginsStep == IInv /\ Begins => IInv'
<1> SUFFICES ASSUME IInv, Begins PROVE IInv'
  OBVIOUS
<1>0. TypeOK /\ Housed
  BY DEF IInv
<1>1. ASSUME NEW name \in Options, Edit(name) PROVE IInv'
  <2>1. First(name, read_active_context) \in Options
    BY <1>0, OptionTypes
  <2>2. PICK q \in resolve_config_path(First(name, read_active_context)) :
          waiting' = [op |-> "edit", cfg |-> file[q], path |-> q]
    BY <1>1 DEF Edit
  <2>3. q \in Paths /\ file[q] \in Definitions
    BY <1>0, <2>1, ResolvedExists, ExistsIsDefined
  <2>4. waiting' \in Waits /\ waiting'.op = "edit"
    BY <2>2, <2>3 DEF Waits
  <2>5. active' \in Names \cup {None}
    BY <1>0, <1>1, HealType DEF Edit
  <2> QED
    BY <1>0, <1>1, <2>4, <2>5 DEF Edit, IInv, TypeOK, Housed, Exists, world, Loaded
<1>2. ASSUME NEW name \in Options, AskRemove(name) PROVE IInv'
  <2>1. PICK p \in resolve_config(name) :
          waiting' = [op |-> "remove", cfg |-> file[p]]
    BY <1>2 DEF AskRemove
  <2>2. p \in Paths /\ Exists(p) /\ file[p] \in Definitions
    BY <1>0, ResolvedExists, ExistsIsDefined
  <2>3. waiting' \in Waits /\ waiting'.cfg = file[p]
    BY <2>1, <2>2 DEF Waits
  <2>4. active' \in Names \cup {None}
    BY <1>0, <1>2, HealType DEF AskRemove
  <2> QED
    BY <1>0, <1>2, <2>2, <2>3, <2>4 DEF AskRemove, IInv, TypeOK, Housed, Exists, world
<1>3. ASSUME NEW op \in {"build", "start"}, NEW pos \in Options, NEW c \in Options,
             OpenEditor(op, pos, c)
      PROVE  IInv'
  <2>1. First(pos, c) \in Options
    BY <1>0, OptionTypes
  <2>2. PICK p \in resolve_config(First(pos, c)) :
          waiting' = [op |-> op, cfg |-> file[p]]
    BY <1>3 DEF OpenEditor
  <2>3. p \in Paths /\ Exists(p) /\ file[p] \in Definitions
    BY <1>0, <2>1, ResolvedExists, ExistsIsDefined
  <2>4. waiting' \in Waits /\ waiting'.cfg = file[p]
    BY <2>2, <2>3 DEF Waits
  <2>5. active' \in Names \cup {None}
    BY <1>0, <1>3, HealType DEF OpenEditor
  <2> QED
    BY <1>0, <1>3, <2>3, <2>4, <2>5 DEF OpenEditor, IInv, TypeOK, Housed, Exists, world
<1>4. ASSUME NEW n \in Names, NEW r \in Revs, CreateImage(n, r) PROVE IInv'
  <2>1. Definition(n, n, r) \in Definitions /\ HousedAsNamed(Definition(n, n, r))
    BY DefinitionType
  <2>2. waiting' \in Waits /\ waiting'.cfg = Definition(n, n, r)
    BY <1>4, <2>1 DEF CreateImage, Waits
  <2> QED
    BY <1>0, <1>4, <2>1, <2>2 DEF CreateImage, IInv, TypeOK, Housed, Exists, world
<1>5. ASSUME NEW p \in Profiles, NEW name \in Options, NEW r \in Revs,
             CreateProfile(p, name, r)
      PROVE  IInv'
  <2> DEFINE n == First(name, p)
             cfg == Definition(n, p, r)
  <2>1. p \in Names /\ n \in Names /\ n \in Paths
    BY NamesAssumption DEF First, Options, Paths
  <2>2. cfg \in Definitions /\ HousedAsNamed(cfg)
    BY <2>1, DefinitionType
  <2> HIDE DEF n, cfg
  <2>3. file' = IF Exists(n) THEN file ELSE [file EXCEPT ![n] = cfg]
    BY <1>5 DEF CreateProfile, n, cfg
  <2>4. waiting' = [op |-> "create", cfg |-> cfg]
    BY <1>5 DEF CreateProfile, n, cfg
  <2>5. waiting' \in Waits /\ waiting'.cfg = cfg
    BY <2>2, <2>4 DEF Waits
  <2>6. /\ file' \in [Paths -> Definitions \cup {None}]
        /\ \A q \in Paths : file'[q] # None => HousedAsNamed(file'[q])
    BY <1>0, <2>1, <2>2, <2>3, NewDefinition DEF IInv, TypeOK, Housed, Exists
  <2> QED
    BY <1>0, <1>5, <2>2, <2>5, <2>6 DEF CreateProfile, IInv, TypeOK, Housed, Exists, world
<1>6. CASE AskRemoveStale
  <2>1. waiting' \in Waits /\ waiting'.op = "stale"
    BY <1>0, <1>6 DEF AskRemoveStale, TypeOK, Waits
  <2> QED
    BY <1>0, <1>6, <2>1 DEF AskRemoveStale, IInv, TypeOK, Housed, Exists, world, Loaded
<1> QED
  BY <1>1, <1>2, <1>3, <1>4, <1>5, <1>6 DEF Begins

\* Commands that go on, or give up.
Resumes == \/ Pulled \/ CarryOn \/ EditBuilds \/ GiveUp \/ RemoveAll \/ RemoveStale

LEMMA ResumesStep == IInv /\ Resumes => IInv'
<1> SUFFICES ASSUME IInv, Resumes PROVE IInv'
  OBVIOUS
<1>0. TypeOK /\ Housed
  BY DEF IInv
<1>00. Nothing \in Waits /\ Nothing.op \notin Loaded
  BY DEF Waits, Nothing, Loaded
<1>1. CASE Pulled
  <2> DEFINE cfg == waiting.cfg
  <2>1. cfg \in Definitions /\ HousedAsNamed(cfg)
    BY <1>0, <1>1, WaitingType DEF Pulled, Housed, Loaded
  <2>2. cfg.name \in Paths
    BY <2>1 DEF Definitions, Paths
  <2> HIDE DEF cfg
  <2>3. file' = IF Exists(cfg.name) THEN file ELSE [file EXCEPT ![cfg.name] = cfg]
    BY <1>1 DEF Pulled, cfg
  <2>4. waiting' = [op |-> "create", cfg |-> cfg]
    BY <1>1 DEF Pulled, cfg
  <2>5. waiting' \in Waits /\ waiting'.cfg = cfg
    BY <2>1, <2>4 DEF Waits
  <2>6. /\ file' \in [Paths -> Definitions \cup {None}]
        /\ \A q \in Paths : file'[q] # None => HousedAsNamed(file'[q])
    BY <1>0, <2>1, <2>2, <2>3, NewDefinition DEF IInv, TypeOK, Housed, Exists
  <2> QED
    BY <1>0, <1>1, <2>1, <2>5, <2>6 DEF Pulled, IInv, TypeOK, Housed, Exists, world
<1>2. CASE CarryOn
  <2>1. waiting.cfg \in Definitions
    BY <1>0, <1>2, WaitingType DEF CarryOn, Loaded
  <2>2. /\ tag' \in [Names -> Revs \cup {None}]
        /\ unit' \subseteq Names /\ homes' \subseteq Names
    BY <1>0, <1>2, <2>1, EffectType DEF CarryOn
  <2>3. active' \in Names \cup {None}
    BY <1>0, <1>2, <2>1 DEF CarryOn, TypeOK, Definitions
  <2> QED
    BY <1>0, <1>00, <1>2, <2>2, <2>3 DEF CarryOn, IInv, TypeOK, Housed, Exists
<1>3. CASE EditBuilds
  <2>1. file[waiting.path] \in Definitions
    BY <1>0, <1>3, WaitingType, ExistsIsDefined DEF EditBuilds
  <2>2. Effect("build", file[waiting.path])
    BY <1>3 DEF EditBuilds, Effect
  <2>3. /\ tag' \in [Names -> Revs \cup {None}]
        /\ unit' \subseteq Names /\ homes' \subseteq Names
    BY <1>0, <2>1, <2>2, EffectType
  <2> QED
    BY <1>0, <1>00, <1>3, <2>3 DEF EditBuilds, IInv, TypeOK, Housed, Exists
<1>4. CASE GiveUp
  BY <1>0, <1>00, <1>4 DEF GiveUp, IInv, TypeOK, Housed, Exists, world
<1>5. CASE RemoveAll
  BY <1>0, <1>00, <1>5 DEF RemoveAll, IInv, TypeOK, Housed, Exists
<1>6. CASE RemoveStale
  BY <1>0, <1>00, <1>6 DEF RemoveStale, IInv, TypeOK, Housed, Exists
<1> QED
  BY <1>1, <1>2, <1>3, <1>4, <1>5, <1>6 DEF Resumes

LEMMA NextCases == Next => Immediate \/ Begins \/ Resumes
BY DEF Next, Immediate, Begins, Resumes

LEMMA Invariance == Spec => []IInv
<1>1. IInv /\ [Next]_vars => IInv'
  <2>1. IInv /\ UNCHANGED vars => IInv'
    BY DEF vars, world, IInv, TypeOK, Housed, Exists
  <2> QED
    BY <2>1, NextCases, ImmediateStep, BeginsStep, ResumesStep
<1> QED
  BY InitInvariant, <1>1, PTL DEF Spec

-----------------------------------------------------------------------------
\* Types: among them, that no command acts on a definition that does not exist.
THEOREM TypeCorrect == Spec => []TypeOK
BY Invariance, PTL DEF IInv

\* A definition is only ever replaced by an editor's save or diff --apply.
THEOREM NotOverwritten == Spec => NeverOverwritten
<1>1. IInv /\ [Next]_vars =>
        [\A p \in Paths :
           Exists(p) /\ file'[p] \notin {file[p], None}
             => \/ \E r \in Revs : Save(p, r)
                \/ \E name \in Options : DiffApply(name)]_vars
  <2> SUFFICES ASSUME IInv, Next, NEW p \in Paths,
                      Exists(p), file'[p] \notin {file[p], None},
                      ~\E name \in Options : DiffApply(name)
               PROVE  \E r \in Revs : Save(p, r)
    OBVIOUS
  <2>0. file \in [Paths -> Definitions \cup {None}]
    BY DEF IInv, TypeOK
  <2>1. CASE Immediate
    <3>1. ASSUME NEW q \in Paths, NEW r \in Revs, Save(q, r) PROVE q = p
      BY <2>0, <3>1 DEF Save
    <3>2. ASSUME NEW q \in Paths, Delete(q) PROVE FALSE
      BY <2>0, <3>2 DEF Delete
    <3> QED
      BY <2>0, <2>1, <3>1, <3>2
         DEF Immediate, Run, DisableForced, InitDefinition, WriteLocal, Clone, Use, Exists
  <2>2. CASE Begins
    BY <2>0, <2>2
       DEF Begins, Edit, AskRemove, OpenEditor, CreateImage, CreateProfile, AskRemoveStale, Exists
  <2>3. CASE Resumes
    BY <2>0, <2>3
       DEF Resumes, Pulled, CarryOn, EditBuilds, GiveUp, RemoveAll, RemoveStale, Exists
  <2> QED
    BY <2>1, <2>2, <2>3, NextCases
<1> QED
  BY <1>1, Invariance, PTL DEF Spec, NeverOverwritten

\* What is built is what a definition says then, but for the commands named.
THEOREM BuiltCorrect == Spec => BuiltIsDefined
<1>1. IInv /\ [Next]_vars =>
        [\A n \in Names :
           tag'[n] \notin {tag[n], None}
             => \/ waiting.op \in {"build", "start", "create"} /\ CarryOn
                \/ \E p \in Paths : /\ Exists(p) /\ file[p].name = n
                                    /\ file[p].rev = tag'[n]]_vars
  <2> SUFFICES ASSUME IInv, Next, NEW n \in Names, tag'[n] \notin {tag[n], None},
                      ~CarryOn
               PROVE  \E p \in Paths : /\ Exists(p) /\ file[p].name = n
                                       /\ file[p].rev = tag'[n]
    BY DEF CarryOn
  <2>0. TypeOK
    BY DEF IInv
  <2>1. CASE Immediate
    <3>1. PICK name \in Options, op \in {"build", "enable", "start", "disable"} :
            Run(op, name)
      BY <2>1 DEF Immediate, DiffApply, DisableForced, InitDefinition, WriteLocal,
                  Clone, Delete, Save, Use, world
    <3>2. PICK p \in resolve_config(name) : Effect(op, file[p])
      BY <3>1 DEF Run
    <3>3. p \in Paths /\ Exists(p) /\ file[p] \in Definitions
      BY <2>0, ResolvedExists, ExistsIsDefined
    <3> QED
      BY <2>0, <3>2, <3>3, EffectType
  <2>2. CASE Begins
    BY <2>2 DEF Begins, Edit, AskRemove, OpenEditor, CreateImage, CreateProfile,
                AskRemoveStale, world
  <2>3. CASE Resumes
    <3>1. EditBuilds
      BY <2>3 DEF Resumes, Pulled, GiveUp, RemoveAll, RemoveStale, world
    <3>2. /\ waiting.path \in Paths /\ Exists(waiting.path)
          /\ file[waiting.path] \in Definitions
      BY <2>0, <3>1, WaitingType, ExistsIsDefined DEF EditBuilds
    <3>3. Effect("build", file[waiting.path])
      BY <3>1 DEF EditBuilds, Effect
    <3> QED
      BY <2>0, <3>2, <3>3, EffectType
  <2> QED
    BY <2>1, <2>2, <2>3, NextCases
<1> QED
  BY <1>1, Invariance, PTL DEF Spec, BuiltIsDefined

\* A home that is removed is that of no other defined container, unless one of
\* the two was made from a profile under another name.
THEOREM RemovalCorrect == Spec => RemoveSparesOthers
<1>1. IInv /\ [Next]_vars =>
        [\A h \in homes \ homes' : \A n \in Names :
           waiting.cfg.own /\ Exists(n) /\ file[n].own /\ file[n].home = h
             => file[n].name = waiting.cfg.name]_vars
  <2> SUFFICES ASSUME IInv, Next, NEW h \in homes \ homes', NEW n \in Names,
                      waiting.cfg.own, Exists(n), file[n].own, file[n].home = h
               PROVE  file[n].name = waiting.cfg.name
    OBVIOUS
  <2>0. TypeOK /\ Housed
    BY DEF IInv
  <2>1. ~Immediate
    <3>1. ASSUME NEW name \in Options,
                 NEW op \in {"build", "enable", "start", "disable"}, Run(op, name)
          PROVE  FALSE
      <4>1. PICK p \in resolve_config(name) : Effect(op, file[p])
        BY <3>1 DEF Run
      <4>2. file[p] \in Definitions
        BY <2>0, ResolvedExists, ExistsIsDefined
      <4> QED
        BY <2>0, <4>1, <4>2, EffectType
    <3> QED
      BY <3>1 DEF Immediate, DiffApply, DisableForced, InitDefinition, WriteLocal,
                  Clone, Delete, Save, Use, world
  <2>2. ~Begins
    BY DEF Begins, Edit, AskRemove, OpenEditor, CreateImage, CreateProfile,
           AskRemoveStale, world
  <2>3. ASSUME CarryOn PROVE FALSE
    <3>1. waiting.cfg \in Definitions
      BY <2>0, <2>3, WaitingType DEF CarryOn, Loaded
    <3> QED
      BY <2>0, <2>3, <3>1, EffectType DEF CarryOn
  <2>4. RemoveAll
    BY <2>1, <2>2, <2>3, NextCases
       DEF Resumes, Pulled, EditBuilds, BuildImage, GiveUp, RemoveStale, world
  <2>5. h = waiting.cfg.home
    BY <2>4 DEF RemoveAll
  <2>6. HousedAsNamed(waiting.cfg)
    BY <2>0, <2>4 DEF RemoveAll, Housed, Loaded
  <2>7. HousedAsNamed(file[n])
    BY <2>0 DEF Housed, Paths
  <2> QED
    BY <2>5, <2>6, <2>7 DEF HousedAsNamed
<1> QED
  BY <1>1, Invariance, PTL DEF Spec, RemoveSparesOthers
=============================================================================
