-------------------------- MODULE DefinitionsProofs -------------------------
(***************************************************************************)
(* Definitions for any files, labels, hosts and packages.                  *)
(***************************************************************************)
EXTENDS Definitions, TLAPS

-----------------------------------------------------------------------------
(* From a file to a configuration and back.                                *)

\* The keys that are named in what follows.
LEMMA SomeKeys ==
  /\ {"install", "base", "home", "dbus", "preset", "talk", "own", "image", "requires",
      "extra", "env", "security_label_disable"} \subseteq Keys
  /\ "security" \in Tables
  /\ Default.image = {} /\ Default.requires = {} /\ Default.extra = {} /\ Default.env = {}
BY DEF Keys, Default, Tables, Table

LEMMA FromStrIs ==
  ASSUME NEW f
  PROVE  /\ DOMAIN FromStr(f) = Keys
         /\ FromStr(f) = [k \in Keys |-> FromStr(f)[k]]
BY DEF FromStr

\* Writing a configuration and reading it gives it back: what is left out is
\* what is missing in a table that is there.
LEMMA RoundTrip ==
  ASSUME NEW c, c = [k \in Keys |-> c[k]]
  PROVE  FromStr(ToStringPretty(c)) = c
<1> DEFINE f == ToStringPretty(c)
           written == {k \in Keys : c[k] # Default[k]} \cup {"base", "home"}
<1>1. /\ f.tables = Tables /\ f.keys = [k \in written |-> c[k]]
      /\ written \subseteq Keys
  BY SomeKeys DEF ToStringPretty
<1>2. "security" \in f.tables
  BY <1>1, SomeKeys
<1> HIDE DEF f
<1>3. \A k \in Keys : FromStr(f)[k] = c[k]
  <2> TAKE k \in Keys
  <2>1. CASE k \in written
    BY <1>1, <2>1 DEF FromStr
  <2>2. CASE k \notin written
    BY <1>1, <1>2, <2>2 DEF FromStr
  <2> QED
    BY <2>1, <2>2
<1> QED
  BY <1>3, FromStrIs DEF f

\* Defaults that have been applied once need not be applied again.
LEMMA DefaultsOnce ==
  ASSUME NEW c, c = [k \in Keys |-> c[k]]
  PROVE  /\ ApplyDefaults(c) = [k \in Keys |-> ApplyDefaults(c)[k]]
         /\ ApplyDefaults(ApplyDefaults(c)) = ApplyDefaults(c)
         /\ \A k \in Keys \ {"preset"} : ApplyDefaults(c)[k] = c[k]
BY SomeKeys DEF ApplyDefaults

\* They have nothing to do with the packages.
LEMMA DefaultsApart ==
  ASSUME NEW c, c = [k \in Keys |-> c[k]], NEW list
  PROVE  ApplyDefaults([c EXCEPT !.install = list]) = [ApplyDefaults(c) EXCEPT !.install = list]
BY SomeKeys DEF ApplyDefaults

-----------------------------------------------------------------------------
(* What podbox writes.                                                     *)

LEMMA CloneMeans ==
  ASSUME Clone
  PROVE  Parse(file') = Parse(file)
BY FromStrIs, RoundTrip DEF Clone, Parse

LEMMA CreateMeans ==
  ASSUME host \in Hosts, Create
  PROVE  \E shell \in Shells :
           Parse(file') = [Parse(file) EXCEPT !.install = @ \cup {shell}]
<1> DEFINE c == Parse(file)
           list(s) == c.install \cup s
<1>1. PICK shell \in Shells :
        (IF host \cap Shells = {} THEN {"fish"} ELSE host \cap Shells) = {shell}
  <2>1. Shells = {"bash", "zsh", "fish"}
    BY DEF Shells, HostShell
  <2>2. CASE host \cap Shells = {}
    BY <2>1, <2>2
  <2>3. CASE host \cap Shells # {}
    <3>1. PICK s \in host \cap Shells : TRUE
      BY <2>3
    <3>2. host \cap Shells = {s}
      BY <2>1, <3>1, HostsAssumption
    <3> QED
      BY <3>1, <3>2
  <2> QED
    BY <2>2, <2>3
<1>2. c = [k \in Keys |-> c[k]] /\ ApplyDefaults(c) = c
  BY FromStrIs, DefaultsOnce DEF Parse
<1> DEFINE d == [c EXCEPT !.install = c.install \cup {shell}]
<1>3. file' = ToStringPretty(d)
  BY <1>1 DEF Create, ApplyShellDefaults
<1> HIDE DEF c
<1>4. d = [k \in Keys |-> d[k]]
  BY <1>2
<1>5. ApplyDefaults(d) = d
  BY <1>2, DefaultsApart
<1> HIDE DEF d
<1>6. Parse(file') = d
  BY <1>3, <1>4, <1>5, RoundTrip DEF Parse
<1> QED
  BY <1>6 DEF c, d

\* A list that was compared leaves nothing to report.
LEMMA NothingLeft ==
  ASSUME NEW c, c = [k \in Keys |-> c[k]], NEW there
  PROVE  ~HasDrift([c EXCEPT !.install = Reconciled(c, there)], there)
<1> DEFINE list == Reconciled(c, there)
           d    == [c EXCEPT !.install = list]
<1>1. d.install = list /\ d.image = c.image
  BY SomeKeys
<1>2. Missing(d, there) = {}
  BY <1>1 DEF Reconciled, Missing, Unexpected
<1>3. Unexpected(d, there) = {}
  <2>1. CASE Prebuilt(c)
    BY <1>1, <2>1 DEF Unexpected, Prebuilt
  <2>2. CASE ~Prebuilt(c)
    BY <1>1, <2>2 DEF Unexpected, Prebuilt, Reconciled, Missing
  <2> QED
    BY <2>1, <2>2
<1> QED
  BY <1>2, <1>3 DEF HasDrift

LEMMA PatchReads ==
  ASSUME NEW list \in diff,
         file' = [tables |-> file.tables,
                  keys   |-> [k \in {"install"} \cup DOMAIN file.keys |->
                                IF k = "install" THEN list ELSE file.keys[k]]]
  PROVE  FromStr(file') = [FromStr(file) EXCEPT !.install = list]
<1>1. \A k \in Keys \ {"install"} : FromStr(file')[k] = FromStr(file)[k]
  BY DEF FromStr
<1>2. FromStr(file')["install"] = list
  BY SomeKeys DEF FromStr
<1> QED
  BY <1>1, <1>2, FromStrIs

LEMMA PatchMeans ==
  ASSUME Patch
  PROVE  \E list \in diff :
           /\ Parse(file') = [Parse(file) EXCEPT !.install = list]
           /\ list = Reconciled(Parse(file), packages) => ~HasDrift(Parse(file'), packages)
<1>1. PICK list \in diff :
        file' = [tables |-> file.tables,
                 keys   |-> [k \in {"install"} \cup DOMAIN file.keys |->
                               IF k = "install" THEN list ELSE file.keys[k]]]
  BY DEF Patch
<1>2. FromStr(file') = [FromStr(file) EXCEPT !.install = list]
  BY <1>1, PatchReads
<1>3. Parse(file') = [Parse(file) EXCEPT !.install = list]
  BY <1>2, FromStrIs, DefaultsApart DEF Parse
<1>4. Parse(file) = [k \in Keys |-> Parse(file)[k]]
  BY FromStrIs, DefaultsOnce DEF Parse
<1>5. list = Reconciled(Parse(file), packages) => ~HasDrift(Parse(file'), packages)
  BY <1>3, <1>4, NothingLeft
<1> QED
  BY <1>3, <1>5

-----------------------------------------------------------------------------
(* The unit files.                                                         *)

LEMMA AllHas ==
  ASSUME NEW key, NEW values, NEW k, NEW v
  PROVE  <<k, v>> \in All(key, values) <=> k = key /\ v \in values
BY DEF All

\* What each part of the container's unit says of the image, the proxy and the
\* bus: only the part that it is about says anything.
LEMMA InUnit ==
  ASSUME NEW c, NEW v \in OwnTexts, c.requires \cap OwnTexts = {}
  PROVE  /\ <<"Requires", v>> \in EmitUnit(c) <=> v = "proxy" /\ UseDbusProxy(c)
         /\ \A k \in {"Volume", "Environment", "Image"} : <<k, v>> \notin EmitUnit(c)
BY AllHas DEF EmitUnit, If, OwnTexts

LEMMA InContainerImage ==
  ASSUME NEW c, NEW v \in OwnTexts, c.image \cap OwnTexts = {}
  PROVE  /\ <<"Image", v>> \in EmitContainerImage(c)
              <=> v = "localhost" /\ ~(Prebuilt(c) /\ c.install = {})
         /\ \A k \in {"Requires", "Volume", "Environment"} :
              <<k, v>> \notin EmitContainerImage(c)
BY AllHas DEF EmitContainerImage, If, OwnTexts

LEMMA InXdgDir ==
  ASSUME NEW c, NEW h, NEW k, NEW v \in OwnTexts
  PROVE  <<k, v>> \notin EmitXdgDir(c, h)
BY DEF EmitXdgDir, If, OwnTexts

LEMMA InLooks ==
  ASSUME NEW c, NEW h, NEW k, NEW v \in OwnTexts
  PROVE  <<k, v>> \notin EmitLooks(c, h)
BY AllHas DEF EmitLooks, If, OwnTexts

LEMMA InSession ==
  ASSUME NEW c, NEW h, NEW k, NEW v \in OwnTexts
  PROVE  <<k, v>> \notin EmitSession(c, h)
BY AllHas DEF EmitSession, If, OwnTexts

LEMMA InBus ==
  ASSUME NEW c, NEW h, NEW k, NEW v \in OwnTexts
  PROVE  <<k, v>> \in EmitBus(c, h) <=>
           /\ c.dbus /\ "bus" \in h
           /\ <<k, v>> \in IF UseDbusProxy(c)
                THEN {<<"Volume", "proxy-socket">>, <<"Environment", "bus=proxy">>}
                ELSE {<<"Volume", "bus">>, <<"Environment", "bus=host">>}
BY DEF EmitBus, If

LEMMA InVolumes ==
  ASSUME NEW c, NEW h, NEW k, NEW v \in OwnTexts, c.extra \cap OwnTexts = {}
  PROVE  <<k, v>> \in EmitVolumes(c, h) <=> <<k, v>> \in EmitBus(c, h)
<1>1. <<k, v>> \notin All("Volume", c.extra)
  BY AllHas
<1>2. <<k, v>> \notin {<<"Volume", "home">>, <<"Volume", "host-socket">>}
  BY DEF OwnTexts
<1> QED
  BY <1>1, <1>2, InXdgDir, InLooks, InSession DEF EmitVolumes

LEMMA InOthers ==
  ASSUME NEW c, NEW h, NEW v \in OwnTexts, c.env \cap OwnTexts = {},
         NEW k \in {"Requires", "Volume", "Environment", "Image"}
  PROVE  <<k, v>> \notin EmitEnv(c, h) \cup EmitGpu(c, h) \cup EmitService(c)
<1>1. <<k, v>> \notin EmitEnv(c, h)
  BY AllHas DEF EmitEnv, OwnTexts
<1>2. <<k, v>> \notin EmitGpu(c, h)
  BY AllHas DEF EmitGpu
<1>3. <<k, v>> \notin EmitService(c)
  BY AllHas DEF EmitService, If
<1> QED
  BY <1>1, <1>2, <1>3

\* Nothing that the user writes into directives is one of podbox's own.
Apart(c) == \A k \in {"image", "requires", "extra", "env"} : c[k] \cap OwnTexts = {}

LEMMA InContainer ==
  ASSUME NEW c, NEW h, Apart(c)
  PROVE  LET has(key, v) == <<key, v>> \in GenerateContainer(c, h)
             bus == c.dbus /\ "bus" \in h IN
         /\ has("Requires", "proxy") <=> UseDbusProxy(c)
         /\ has("Volume", "proxy-socket") <=> bus /\ UseDbusProxy(c)
         /\ has("Environment", "bus=proxy") <=> bus /\ UseDbusProxy(c)
         /\ has("Volume", "bus") <=> bus /\ ~UseDbusProxy(c)
         /\ has("Image", "localhost") <=> ~(Prebuilt(c) /\ c.install = {})
<1>1. /\ c.image \cap OwnTexts = {} /\ c.requires \cap OwnTexts = {}
      /\ c.extra \cap OwnTexts = {} /\ c.env \cap OwnTexts = {}
  BY DEF Apart
<1> DEFINE ours == {"Requires", "Volume", "Environment", "Image"}
           bus  == c.dbus /\ "bus" \in h
<1>2. \A k \in ours, v \in OwnTexts :
        <<k, v>> \in GenerateContainer(c, h) <=>
          \/ <<k, v>> \in EmitUnit(c)
          \/ <<k, v>> \in EmitContainerImage(c)
          \/ <<k, v>> \in EmitBus(c, h)
  BY <1>1, InVolumes, InOthers DEF GenerateContainer
<1>3. {"proxy", "proxy-socket", "bus", "bus=proxy", "localhost"} \subseteq OwnTexts
  BY DEF OwnTexts
<1>4. <<"Requires", "proxy">> \in GenerateContainer(c, h) <=> UseDbusProxy(c)
  <2>1. <<"Requires", "proxy">> \in EmitUnit(c) <=> UseDbusProxy(c)
    BY <1>1, <1>3, InUnit
  <2>2. <<"Requires", "proxy">> \notin EmitContainerImage(c)
    BY <1>1, <1>3, InContainerImage
  <2>3. <<"Requires", "proxy">> \notin EmitBus(c, h)
    BY <1>3, InBus
  <2> QED
    BY <1>2, <1>3, <2>1, <2>2, <2>3
<1>5. <<"Volume", "proxy-socket">> \in GenerateContainer(c, h) <=> bus /\ UseDbusProxy(c)
  <2>1. <<"Volume", "proxy-socket">> \notin EmitUnit(c)
    BY <1>1, <1>3, InUnit
  <2>2. <<"Volume", "proxy-socket">> \notin EmitContainerImage(c)
    BY <1>1, <1>3, InContainerImage
  <2>3. <<"Volume", "proxy-socket">> \in EmitBus(c, h) <=> bus /\ UseDbusProxy(c)
    BY <1>3, InBus
  <2> QED
    BY <1>2, <1>3, <2>1, <2>2, <2>3
<1>6. <<"Environment", "bus=proxy">> \in GenerateContainer(c, h) <=> bus /\ UseDbusProxy(c)
  <2>1. <<"Environment", "bus=proxy">> \notin EmitUnit(c)
    BY <1>1, <1>3, InUnit
  <2>2. <<"Environment", "bus=proxy">> \notin EmitContainerImage(c)
    BY <1>1, <1>3, InContainerImage
  <2>3. <<"Environment", "bus=proxy">> \in EmitBus(c, h) <=> bus /\ UseDbusProxy(c)
    BY <1>3, InBus
  <2> QED
    BY <1>2, <1>3, <2>1, <2>2, <2>3
<1>7. <<"Volume", "bus">> \in GenerateContainer(c, h) <=> bus /\ ~UseDbusProxy(c)
  <2>1. <<"Volume", "bus">> \notin EmitUnit(c)
    BY <1>1, <1>3, InUnit
  <2>2. <<"Volume", "bus">> \notin EmitContainerImage(c)
    BY <1>1, <1>3, InContainerImage
  <2>3. <<"Volume", "bus">> \in EmitBus(c, h) <=> bus /\ ~UseDbusProxy(c)
    BY <1>3, InBus
  <2> QED
    BY <1>2, <1>3, <2>1, <2>2, <2>3
<1>8. <<"Image", "localhost">> \in GenerateContainer(c, h) <=> ~(Prebuilt(c) /\ c.install = {})
  <2>1. <<"Image", "localhost">> \notin EmitUnit(c)
    BY <1>1, <1>3, InUnit
  <2>2. <<"Image", "localhost">> \in EmitContainerImage(c) <=> ~(Prebuilt(c) /\ c.install = {})
    BY <1>1, <1>3, InContainerImage
  <2>3. <<"Image", "localhost">> \notin EmitBus(c, h)
    BY <1>3, InBus
  <2> QED
    BY <1>2, <1>3, <2>1, <2>2, <2>3
<1> QED
  BY <1>4, <1>5, <1>6, <1>7, <1>8

LEMMA ProxyHasRules ==
  ASSUME NEW c
  PROVE  GenerateDbusProxyService(c) # {} <=> UseDbusProxy(c)
<1>1. CASE ~UseDbusProxy(c)
  BY <1>1 DEF GenerateDbusProxyService, If
<1>2. CASE UseDbusProxy(c)
  <2>1. PICK v : v \in EffectiveTalk(c) \/ v \in c.own
    BY <1>2 DEF UseDbusProxy
  <2>2. <<"talk", v>> \in All("talk", EffectiveTalk(c)) \/ <<"own", v>> \in All("own", c.own)
    BY <2>1, AllHas
  <2> QED
    BY <1>2, <2>2 DEF GenerateDbusProxyService, If
<1> QED
  BY <1>1, <1>2

\* What is written for a configuration agrees with it.
LEMMA UnitsWritten ==
  ASSUME NEW c, Apart(c), WriteUnits(c)
  PROVE  UnitsAgree'
<1> DEFINE bus == c.dbus /\ "bus" \in host
           has(key, v) == <<key, v>> \in GenerateContainer(c, host)
<1>1. /\ units'.of = c /\ units'.container = GenerateContainer(c, host)
      /\ units'.build = GenerateBuild(c) /\ units'.proxy = GenerateDbusProxyService(c)
      /\ host' = host
  BY DEF WriteUnits, Generate
<1>2. /\ has("Requires", "proxy") <=> UseDbusProxy(c)
      /\ has("Volume", "proxy-socket") <=> bus /\ UseDbusProxy(c)
      /\ has("Environment", "bus=proxy") <=> bus /\ UseDbusProxy(c)
      /\ has("Volume", "bus") <=> bus /\ ~UseDbusProxy(c)
      /\ has("Image", "localhost") <=> ~(Prebuilt(c) /\ c.install = {})
  BY InContainer
<1>3. c.install \subseteq Image(c, host).packages
  BY DEF Image, Overlay, Containerfile
<1>4. GenerateBuild(c) # {} => ~Prebuilt(c)
  BY DEF GenerateBuild, If
<1> HIDE DEF has, bus
<1>5. /\ has("Requires", "proxy") <=> GenerateDbusProxyService(c) # {}
      /\ has("Volume", "proxy-socket") => has("Requires", "proxy")
      /\ ~(has("Volume", "proxy-socket") /\ has("Volume", "bus"))
      /\ has("Environment", "bus=proxy") <=> has("Volume", "proxy-socket")
      /\ IF has("Image", "localhost") THEN c.install \subseteq Image(c, host).packages
                                      ELSE c.install = {}
      /\ GenerateBuild(c) # {} => has("Image", "localhost")
  BY <1>2, <1>3, <1>4, ProxyHasRules
<1> QED
  BY <1>1, <1>5 DEF UnitsAgree, has

-----------------------------------------------------------------------------
(* The inductive invariant: what the user writes is apart from podbox's own *)
(* through everything that podbox does with it.                            *)

TextKeys == {"image", "requires", "extra", "env"}

LEMMA LabelsApart ==
  ASSUME NEW c, NEW l, Apart(c), c = [k \in Keys |-> c[k]]
  PROVE  Apart(ApplyLabels(c, l))
<1>1. \A k \in TextKeys : k \in Keys /\ k \notin Booleans /\ k \notin {"documents", "gpu", "shell"}
  BY SomeKeys DEF TextKeys, Booleans
<1>2. \A k \in TextKeys : ApplyLabels(c, l)[k] = c[k]
  BY <1>1 DEF ApplyLabels
<1> QED
  BY <1>2 DEF Apart, TextKeys

LEMMA DefaultsKeepApart ==
  ASSUME NEW f, Apart(FromStr(f))
  PROVE  Apart(Parse(f)) /\ Parse(f) = [k \in Keys |-> Parse(f)[k]]
BY FromStrIs, DefaultsOnce, SomeKeys DEF Apart, Parse

IInv == host \in Hosts /\ Apart(FromStr(file)) /\ UnitsAgree

LEMMA InitIInv == Init => IInv
<1> SUFFICES ASSUME Init PROVE IInv
  OBVIOUS
<1>1. \A k \in TextKeys : FromStr(file)[k] \cap OwnTexts = {}
  <2> TAKE k \in TextKeys
  <2>1. k \in Keys /\ k # "security_label_disable" /\ Default[k] = {}
    BY SomeKeys DEF TextKeys
  <2>2. CASE k \in DOMAIN file.keys
    BY <2>1, <2>2, TextsAssumption DEF FromStr, Init, TextKeys
  <2>3. CASE k \notin DOMAIN file.keys
    BY <2>1, <2>3 DEF FromStr
  <2> QED
    BY <2>2, <2>3
<1>2. UnitsAgree
  BY DEF Init, UnitsAgree
<1> QED
  BY <1>1, <1>2 DEF IInv, Init, Apart, TextKeys

LEMMA StepIInv == IInv /\ [Next]_vars => IInv'
<1> SUFFICES ASSUME IInv, [Next]_vars PROVE IInv'
  OBVIOUS
<1> USE DEF IInv
<1>1. ASSUME NEW p \in Packages, Drift(p), units = NoUnits PROVE IInv'
  BY <1>1 DEF Drift, UnitsAgree
<1>2. ASSUME Enable PROVE IInv'
  <2>1. PICK l \in LabelMaps \cup {NoImage} : WriteUnits(ApplyLabels(Parse(file), l))
    BY <1>2 DEF Enable
  <2>2. Apart(ApplyLabels(Parse(file), l))
    BY DefaultsKeepApart, LabelsApart
  <2> QED
    BY <2>1, <2>2, UnitsWritten DEF WriteUnits
<1>3. ASSUME Start PROVE IInv'
  BY <1>3, DefaultsKeepApart, UnitsWritten DEF Start, WriteUnits
<1>4. ASSUME Clone, units = NoUnits PROVE IInv'
  <2>1. FromStr(file') = FromStr(file)
    BY <1>4, FromStrIs, RoundTrip DEF Clone
  <2> QED
    BY <1>4, <2>1 DEF Clone, UnitsAgree
<1>5. ASSUME Create, units = NoUnits PROVE IInv'
  <2> DEFINE d == ApplyShellDefaults(Parse(file), host)
  <2>1. d = [k \in Keys |-> d[k]] /\ \A k \in TextKeys : d[k] = Parse(file)[k]
    BY DefaultsKeepApart, SomeKeys DEF ApplyShellDefaults, TextKeys
  <2>2. Apart(d)
    BY <2>1, DefaultsKeepApart DEF Apart, TextKeys
  <2>3. FromStr(file') = d
    BY <1>5, <2>1, RoundTrip DEF Create
  <2> QED
    BY <1>5, <2>2, <2>3 DEF Create, UnitsAgree
<1>6. ASSUME Compare, units = NoUnits PROVE IInv'
  BY <1>6 DEF Compare, UnitsAgree
<1>7. ASSUME Patch, units = NoUnits PROVE IInv'
  <2>1. PICK list \in diff : FromStr(file') = [FromStr(file) EXCEPT !.install = list]
    BY <1>7, PatchReads DEF Patch
  <2>2. Apart(FromStr(file'))
    BY <2>1, FromStrIs, SomeKeys DEF Apart
  <2> QED
    BY <1>7, <2>2 DEF Patch, UnitsAgree
<1>8. CASE UNCHANGED vars
  BY <1>8 DEF vars, UnitsAgree
<1> QED
  BY <1>1, <1>2, <1>3, <1>4, <1>5, <1>6, <1>7, <1>8 DEF Next

-----------------------------------------------------------------------------
(* The theorems.                                                           *)

\* The generated units fit together and fit the definition, whatever files,
\* labels and hosts there are.
THEOREM UnitsCorrect == Spec => []UnitsAgree
<1>1. IInv => UnitsAgree
  BY DEF IInv
<1> QED
  BY <1>1, InitIInv, StepIInv, PTL DEF Spec

\* What podbox writes means what it was made from: by `clone`, by `create` and by
\* `diff --apply`.
THEOREM WrittenCorrect == Spec => WrittenAsMeant
<1>1. IInv /\ [Next]_vars =>
        [/\ Clone => Parse(file') = Parse(file)
         /\ Create => \E shell \in Shells :
              Parse(file') = [Parse(file) EXCEPT !.install = @ \cup {shell}]
         /\ Patch => \E list \in diff :
              /\ Parse(file') = [Parse(file) EXCEPT !.install = list]
              /\ list = Reconciled(Parse(file), packages)
                   => ~HasDrift(Parse(file'), packages)]_vars
  BY CloneMeans, CreateMeans, PatchMeans DEF IInv
<1> QED
  BY <1>1, InitIInv, StepIInv, PTL DEF Spec, WrittenAsMeant
=============================================================================
