------------------------- MODULE QuadletUnitsProofs -------------------------
(***************************************************************************)
(* Proofs about QuadletUnits for any set of definitions, prebuilt or not,  *)
(* with or without a proxy, and both kinds of podman.                      *)
(*                                                                         *)
(* The arguments are about the steps that a command has still to take:     *)
(* every command takes its steps in one order, given by Rank, so that the  *)
(* step at the head tells what has been done.                              *)
(***************************************************************************)
EXTENDS QuadletUnits, SequenceTheorems, TLAPS

\* The place of a step in the one order that all commands keep.
Rank(s) ==
  CASE s = "quadlet-rm"      -> 1
    [] s = "rm-build"        -> 2
    [] s = "rm-container"    -> 3
    [] s = "rm-socket"       -> 4
    [] s = "final-reload"    -> 5
    [] s = "rm-f"           -> 6
    [] s = "quadlet-install" -> 7
    [] s = "write-build"     -> 8
    [] s = "write-container" -> 9
    [] s = "write-socket"    -> 10
    [] s = "write-host"      -> 11
    [] s = "write-proxy"     -> 12
    [] s = "reload"          -> 13
    [] s = "reset-failed"    -> 14
    [] s = "stop-socket"     -> 15
    [] s = "stop-host"       -> 16
    [] s = "enable-socket"   -> 17
    [] s = "start-host"      -> 18
    [] s = "ensure-running"  -> 19
    [] s = "rm-config"       -> 20

Has(steps, s) == \E i \in 1 .. Len(steps) : steps[i] = s
InOrder(steps) == \A i, j \in 1 .. Len(steps) : i < j => Rank(steps[i]) < Rank(steps[j])
Ahead(s) == Has(todo, s)

Builds   == {"quadlet-install", "start-host"}
            \cup {"write-build", "write-container", "write-socket", "write-host",
                  "write-proxy"}
Removals == {"quadlet-rm", "rm-build", "rm-container", "rm-socket", "final-reload"}

\* No command both installs and removes.
Apart(steps) == \A s \in Builds, r \in Removals : ~(Has(steps, s) /\ Has(steps, r))

\* Steps writes f, be it by itself or through podman.
Writes(steps, f) ==
  Has(steps, Writing[f]) \/ (f \in {"build", "container"} /\ Has(steps, "quadlet-install"))

\* Calls that failed unseen and keep units from being read, the old host server
\* from being stopped, and the socket from listening.
Unread    == "reload" \in missed
Unstopped == missed \cap {"reload", "stop-host"} # {}
Unheard   == missed \cap {"reload", "enable-socket"} # {}

\* Until the host service is started, what is not yet as the definition has it
\* is still to be written, read or stopped, or a call for it was dropped.
Installing == Ahead("start-host") =>
  /\ ver \in Versions
  /\ \A f \in Needed(ver) : files[f] = ver \/ Writes(todo, f)
  /\ Ahead("reload")
     \/ \A f \in Needed(ver) : files[f] = ver /\ (Unread \/ loaded[f] = ver)
  /\ Ahead("quadlet-install")
     \/ \A f \in ReadByPodman \cap Needed(ver) : files[f] = ver /\ loaded[f] = ver
  /\ Ahead("reload") => Ahead("stop-host")
  /\ Ahead("stop-host") \/ Unstopped \/ host \in {0, ver}
  /\ Ahead("stop-socket") => Ahead("enable-socket")
  /\ Ahead("enable-socket") \/ Unheard \/ socket

\* Before the last reload of a removal the container's unit is gone or going;
\* where podman removes it, systemd knows.
Uninstalling == Ahead("final-reload") =>
  /\ modern  => \/ Ahead("quadlet-rm")
                \/ files["container"] = 0 /\ loaded["container"] = 0
  /\ ~modern => Ahead("rm-container") \/ files["container"] = 0

\* After the removal there is none, on disk or loaded.
Removed == down => files["container"] = 0 /\ loaded["container"] = 0

IInv == TypeOK /\ InOrder(todo) /\ Apart(todo) /\ Installing /\ Uninstalling /\ Removed

-----------------------------------------------------------------------------
(* Sequences of steps.                                                     *)

LEMMA EmptyHas == InOrder(<<>>) /\ \A s : ~Has(<<>>, s)
BY DEF InOrder, Has

LEMMA OneHas ==
  ASSUME NEW x \in Steps
  PROVE  /\ <<x>> \in Seq(Steps) /\ InOrder(<<x>>)
         /\ \A s : Has(<<x>>, s) <=> s = x
BY DEF InOrder, Has

\* Of two sequences one after the other.
LEMMA ConcatHas ==
  ASSUME NEW s \in Seq(Steps), NEW t \in Seq(Steps)
  PROVE  /\ s \o t \in Seq(Steps)
         /\ \A x : Has(s \o t, x) <=> Has(s, x) \/ Has(t, x)
<1>1. Len(s) \in Nat /\ Len(t) \in Nat
  OBVIOUS
<1>2. ASSUME NEW x, Has(s, x) PROVE Has(s \o t, x)
  BY <1>1, <1>2, ConcatProperties DEF Has
<1>3. ASSUME NEW x, Has(t, x) PROVE Has(s \o t, x)
  <2>1. PICK i \in 1 .. Len(t) : t[i] = x
    BY <1>3 DEF Has
  <2>2. Len(s) + i \in 1 .. Len(s) + Len(t) /\ (s \o t)[Len(s) + i] = x
    BY <1>1, <2>1, ConcatProperties
  <2> QED
    BY <2>2, ConcatProperties DEF Has
<1>4. ASSUME NEW x, Has(s \o t, x) PROVE Has(s, x) \/ Has(t, x)
  <2>1. PICK i \in 1 .. Len(s) + Len(t) : (s \o t)[i] = x
    BY <1>4, ConcatProperties DEF Has
  <2>2. CASE i <= Len(s)
    BY <1>1, <2>1, <2>2, ConcatProperties DEF Has
  <2>3. CASE i > Len(s)
    <3>1. i - Len(s) \in 1 .. Len(t) /\ t[i - Len(s)] = x
      BY <1>1, <2>1, <2>3, ConcatProperties
    <3> QED
      BY <3>1 DEF Has
  <2> QED
    BY <1>1, <2>2, <2>3
<1> QED
  BY <1>2, <1>3, <1>4, ConcatProperties

LEMMA ConcatInOrder ==
  ASSUME NEW s \in Seq(Steps), NEW t \in Seq(Steps), InOrder(s), InOrder(t),
         \A x, y \in Steps : Has(s, x) /\ Has(t, y) => Rank(x) < Rank(y)
  PROVE  InOrder(s \o t)
<1> SUFFICES ASSUME NEW i \in 1 .. Len(s) + Len(t), NEW j \in 1 .. Len(s) + Len(t), i < j
             PROVE  Rank((s \o t)[i]) < Rank((s \o t)[j])
  BY ConcatProperties DEF InOrder
<1>1. Len(s) \in Nat /\ Len(t) \in Nat
  OBVIOUS
<1>2. CASE j <= Len(s)
  BY <1>1, <1>2, ConcatProperties DEF InOrder
<1>3. CASE i <= Len(s) /\ j > Len(s)
  <2>1. (s \o t)[i] = s[i] /\ i \in 1 .. Len(s)
    BY <1>1, <1>3, ConcatProperties
  <2>2. (s \o t)[j] = t[j - Len(s)] /\ j - Len(s) \in 1 .. Len(t)
    BY <1>1, <1>3, ConcatProperties
  <2>3. Has(s, s[i]) /\ Has(t, t[j - Len(s)])
    BY <2>1, <2>2 DEF Has
  <2>4. s[i] \in Steps /\ t[j - Len(s)] \in Steps
    BY <2>1, <2>2
  <2> QED
    BY <2>1, <2>2, <2>3, <2>4
<1>4. CASE i > Len(s)
  <2>1. /\ (s \o t)[i] = t[i - Len(s)] /\ (s \o t)[j] = t[j - Len(s)]
        /\ i - Len(s) \in 1 .. Len(t) /\ j - Len(s) \in 1 .. Len(t)
        /\ i - Len(s) < j - Len(s)
    BY <1>1, <1>4, ConcatProperties
  <2> QED
    BY <2>1 DEF InOrder
<1> QED
  BY <1>1, <1>2, <1>3, <1>4

\* What is ahead comes after what is at the head, and only that is done with.
LEMMA TailHas ==
  ASSUME NEW s \in Seq(Steps), s # <<>>, InOrder(s), Apart(s)
  PROVE  /\ Tail(s) \in Seq(Steps) /\ InOrder(Tail(s)) /\ Apart(Tail(s))
         /\ Has(s, Head(s)) /\ Head(s) \in Steps
         /\ \A x : Has(s, x) <=> x = Head(s) \/ Has(Tail(s), x)
         /\ \A x : Has(Tail(s), x) => Rank(Head(s)) < Rank(x)
<1>1. /\ Len(s) \in Nat \ {0} /\ Len(Tail(s)) = Len(s) - 1 /\ Tail(s) \in Seq(Steps)
      /\ Head(s) = s[1] /\ \A i \in 1 .. Len(Tail(s)) : Tail(s)[i] = s[i + 1]
  BY EmptySeq, HeadTailProperties
<1>2. Has(s, Head(s)) /\ Head(s) \in Steps
  BY <1>1 DEF Has
<1>3. ASSUME NEW x, Has(Tail(s), x) PROVE Has(s, x) /\ Rank(Head(s)) < Rank(x)
  <2>1. PICK i \in 1 .. Len(Tail(s)) : Tail(s)[i] = x
    BY <1>3 DEF Has
  <2>2. i + 1 \in 1 .. Len(s) /\ s[i + 1] = x /\ 1 \in 1 .. Len(s) /\ 1 < i + 1
    BY <1>1, <2>1
  <2> QED
    BY <1>1, <2>2 DEF Has, InOrder
<1>4. ASSUME NEW x, Has(s, x), x # Head(s) PROVE Has(Tail(s), x)
  <2>1. PICK i \in 1 .. Len(s) : s[i] = x
    BY <1>4 DEF Has
  <2>2. i - 1 \in 1 .. Len(Tail(s)) /\ Tail(s)[i - 1] = x
    BY <1>1, <1>4, <2>1
  <2> QED
    BY <2>2 DEF Has
<1>5. InOrder(Tail(s))
  <2> SUFFICES ASSUME NEW i \in 1 .. Len(Tail(s)), NEW j \in 1 .. Len(Tail(s)), i < j
               PROVE  Rank(Tail(s)[i]) < Rank(Tail(s)[j])
    BY DEF InOrder
  <2>1. i + 1 \in 1 .. Len(s) /\ j + 1 \in 1 .. Len(s) /\ i + 1 < j + 1
    BY <1>1
  <2> QED
    BY <1>1, <2>1 DEF InOrder
<1>6. Apart(Tail(s))
  BY <1>3 DEF Apart
<1> QED
  BY <1>1, <1>2, <1>3, <1>4, <1>5, <1>6
-----------------------------------------------------------------------------
(* What the commands set out to do.                                        *)

Last == <<"reload", "reset-failed", "stop-socket", "stop-host", "enable-socket",
          "start-host">>
LastSet == {"reload", "reset-failed", "stop-socket", "stop-host", "enable-socket",
            "start-host"}

LEMMA IfHas ==
  ASSUME NEW x \in Steps, NEW b
  PROVE  /\ If(b, x) \in Seq(Steps) /\ InOrder(If(b, x))
         /\ \A s : Has(If(b, x), s) <=> b /\ s = x
<1>1. CASE b
  BY <1>1, OneHas DEF If
<1>2. CASE ~b
  BY <1>2, EmptyHas DEF If
<1> QED
  BY <1>1, <1>2

LEMMA TwoHas ==
  ASSUME NEW x \in Steps, NEW y \in Steps, Rank(x) < Rank(y)
  PROVE  /\ <<x, y>> \in Seq(Steps) /\ InOrder(<<x, y>>)
         /\ \A s : Has(<<x, y>>, s) <=> s \in {x, y}
<1>1. /\ <<x, y>> \in Seq(Steps) /\ Len(<<x, y>>) = 2
      /\ <<x, y>>[1] = x /\ <<x, y>>[2] = y
  OBVIOUS
<1>2. \A i : i \in 1 .. 2 <=> i = 1 \/ i = 2
  OBVIOUS
<1> QED
  BY <1>1, <1>2 DEF InOrder, Has

LEMMA LastHas ==
  /\ Last \in Seq(Steps) /\ InOrder(Last)
  /\ \A s : Has(Last, s) <=> s \in LastSet
<1>1. Last \in Seq(Steps) /\ Len(Last) = 6
  BY DEF Last, Steps
<1>2. /\ Last[1] = "reload" /\ Last[2] = "reset-failed" /\ Last[3] = "stop-socket"
      /\ Last[4] = "stop-host" /\ Last[5] = "enable-socket" /\ Last[6] = "start-host"
  BY DEF Last
<1>3. \A i : i \in 1 .. 6 <=> i \in {1, 2, 3, 4, 5, 6}
  OBVIOUS
<1>4. /\ Rank(Last[1]) = 13 /\ Rank(Last[2]) = 14 /\ Rank(Last[3]) = 15
      /\ Rank(Last[4]) = 16 /\ Rank(Last[5]) = 17 /\ Rank(Last[6]) = 18
  BY <1>2 DEF Rank
<1>5. \A i \in 1 .. 6 : Rank(Last[i]) = 12 + i
  BY <1>3, <1>4
<1>6. InOrder(Last)
  BY <1>1, <1>5 DEF InOrder
<1> QED
  BY <1>1, <1>2, <1>3, <1>6 DEF Has, LastSet

Quadlet(v) == IF modern THEN <<"quadlet-install">>
              ELSE If(v \notin Prebuilt, "write-build") \o <<"write-container">>
QuadletSet == {"quadlet-install", "write-build", "write-container"}

LEMMA QuadletHas ==
  ASSUME NEW v
  PROVE  /\ Quadlet(v) \in Seq(Steps) /\ InOrder(Quadlet(v))
         /\ \A s : Has(Quadlet(v), s) => s \in QuadletSet
         /\ modern => Has(Quadlet(v), "quadlet-install")
         /\ Writes(Quadlet(v), "container")
         /\ v \notin Prebuilt => Writes(Quadlet(v), "build")
<1>0. /\ "quadlet-install" \in Steps /\ "write-build" \in Steps
      /\ "write-container" \in Steps
      /\ Writing["build"] = "write-build" /\ Writing["container"] = "write-container"
  BY DEF Steps, Writing
<1>1. CASE modern
  <2>1. Quadlet(v) = <<"quadlet-install">>
    BY <1>1 DEF Quadlet
  <2> QED
    BY <1>0, <2>1, OneHas DEF QuadletSet, Writes
<1>2. CASE ~modern
  <2> DEFINE a == If(v \notin Prebuilt, "write-build")
             b == <<"write-container">>
  <2>1. Quadlet(v) = a \o b
    BY <1>2 DEF Quadlet
  <2>2. /\ a \in Seq(Steps) /\ InOrder(a)
        /\ \A s : Has(a, s) <=> v \notin Prebuilt /\ s = "write-build"
    BY <1>0, IfHas
  <2>3. /\ b \in Seq(Steps) /\ InOrder(b)
        /\ \A s : Has(b, s) <=> s = "write-container"
    BY <1>0, OneHas
  <2> HIDE DEF a, b
  <2>4. Rank("write-build") < Rank("write-container")
    BY DEF Rank
  <2>5. \A x, y \in Steps : Has(a, x) /\ Has(b, y) => Rank(x) < Rank(y)
    BY <2>2, <2>3, <2>4
  <2>6. /\ a \o b \in Seq(Steps) /\ InOrder(a \o b)
        /\ \A s : Has(a \o b, s) <=> Has(a, s) \/ Has(b, s)
    BY <2>2, <2>3, <2>5, ConcatHas, ConcatInOrder
  <2>7. Has(a \o b, "write-container") /\ (v \notin Prebuilt => Has(a \o b, "write-build"))
    BY <2>2, <2>3, <2>6
  <2>8. \A s : Has(a \o b, s) => s \in QuadletSet
    BY <2>2, <2>3, <2>6 DEF QuadletSet
  <2> QED
    BY <1>0, <1>2, <2>1, <2>6, <2>7, <2>8 DEF Writes
<1> QED
  BY <1>1, <1>2

Custom(v) == <<"write-socket", "write-host">> \o If(v \in Proxied, "write-proxy")
CustomSet == {"write-socket", "write-host", "write-proxy"}

LEMMA CustomHas ==
  ASSUME NEW v
  PROVE  /\ Custom(v) \in Seq(Steps) /\ InOrder(Custom(v))
         /\ \A s : Has(Custom(v), s) => s \in CustomSet
         /\ Writes(Custom(v), "socket") /\ Writes(Custom(v), "host")
         /\ v \in Proxied => Writes(Custom(v), "proxy")
<1> DEFINE a == <<"write-socket", "write-host">>
           b == If(v \in Proxied, "write-proxy")
<1>0. /\ "write-socket" \in Steps /\ "write-host" \in Steps /\ "write-proxy" \in Steps
      /\ Writing["socket"] = "write-socket" /\ Writing["host"] = "write-host"
      /\ Writing["proxy"] = "write-proxy"
  BY DEF Steps, Writing
<1>1. /\ Rank("write-socket") < Rank("write-host")
      /\ Rank("write-socket") < Rank("write-proxy")
      /\ Rank("write-host") < Rank("write-proxy")
  BY DEF Rank
<1>2. /\ a \in Seq(Steps) /\ InOrder(a)
      /\ \A s : Has(a, s) <=> s \in {"write-socket", "write-host"}
  BY <1>0, <1>1, TwoHas
<1>3. /\ b \in Seq(Steps) /\ InOrder(b)
      /\ \A s : Has(b, s) <=> v \in Proxied /\ s = "write-proxy"
  BY <1>0, IfHas
<1>4. Custom(v) = a \o b
  BY DEF Custom
<1> HIDE DEF a, b
<1>5. \A x, y \in Steps : Has(a, x) /\ Has(b, y) => Rank(x) < Rank(y)
  BY <1>1, <1>2, <1>3
<1>6. /\ a \o b \in Seq(Steps) /\ InOrder(a \o b)
      /\ \A s : Has(a \o b, s) <=> Has(a, s) \/ Has(b, s)
  BY <1>2, <1>3, <1>5, ConcatHas, ConcatInOrder
<1> QED
  BY <1>0, <1>2, <1>3, <1>4, <1>6 DEF CustomSet, Writes

\* An install writes all that its definition needs, has systemd read it, and
\* stops and starts what serves the container, in this order.
LEMMA InstallHas ==
  ASSUME NEW v
  PROVE  /\ Install(v) \in Seq(Steps) /\ InOrder(Install(v))
         /\ \A s : Has(Install(v), s) => s \in QuadletSet \cup CustomSet \cup LastSet
         /\ \A f \in Needed(v) : Writes(Install(v), f)
         /\ \A s \in LastSet : Has(Install(v), s)
         /\ modern => Has(Install(v), "quadlet-install")
<1> DEFINE a == Quadlet(v)
           b == Custom(v)
           bl == b \o Last
<1>0. /\ "write-socket" \in Steps /\ "write-host" \in Steps /\ "write-proxy" \in Steps
      /\ Rank("write-socket") < Rank("write-host")
  BY DEF Steps, Rank
<1>1. /\ \A x \in QuadletSet, y \in CustomSet : Rank(x) < Rank(y)
      /\ \A x \in QuadletSet, y \in LastSet : Rank(x) < Rank(y)
      /\ \A x \in CustomSet, y \in LastSet : Rank(x) < Rank(y)
  <2>1. /\ \A x \in QuadletSet : Rank(x) \in 7 .. 9
        /\ \A x \in CustomSet : Rank(x) \in 10 .. 12
        /\ \A x \in LastSet : Rank(x) \in 13 .. 18
    BY DEF Rank, QuadletSet, CustomSet, LastSet
  <2> QED
    BY <2>1
<1>2. /\ a \in Seq(Steps) /\ InOrder(a)
      /\ \A s : Has(a, s) => s \in QuadletSet
      /\ modern => Has(a, "quadlet-install")
      /\ Writes(a, "container")
      /\ v \notin Prebuilt => Writes(a, "build")
  BY QuadletHas
<1>3. /\ b \in Seq(Steps) /\ InOrder(b)
      /\ \A s : Has(b, s) => s \in CustomSet
      /\ Writes(b, "socket") /\ Writes(b, "host")
      /\ v \in Proxied => Writes(b, "proxy")
  BY CustomHas
<1>4. Install(v) = a \o bl
  <2>1. Install(v) = ((a \o <<"write-socket", "write-host">>)
                      \o If(v \in Proxied, "write-proxy")) \o Last
    BY DEF Install, Quadlet, Last
  <2>2. /\ <<"write-socket", "write-host">> \in Seq(Steps)
        /\ If(v \in Proxied, "write-proxy") \in Seq(Steps)
    BY <1>0, IfHas, TwoHas
  <2> DEFINE x == <<"write-socket", "write-host">>
             y == If(v \in Proxied, "write-proxy")
  <2>3. b = x \o y
    BY DEF Custom
  <2> HIDE DEF a, b, x, y
  <2>4. (a \o x) \o y = a \o b
    <3>1. x \in Seq(Steps) /\ y \in Seq(Steps)
      BY <2>2 DEF x, y
    <3> QED
      BY <1>2, <2>3, <3>1, ConcatAssociative
  <2>5. (a \o b) \o Last = a \o bl
    BY <1>2, <1>3, LastHas, ConcatAssociative
  <2> QED
    BY <2>1, <2>4, <2>5 DEF x, y
<1> HIDE DEF a, b
<1>5. /\ bl \in Seq(Steps) /\ InOrder(bl)
      /\ \A s : Has(bl, s) <=> Has(b, s) \/ Has(Last, s)
  <2>1. \A x, y \in Steps : Has(b, x) /\ Has(Last, y) => Rank(x) < Rank(y)
    BY <1>1, <1>3, LastHas
  <2> QED
    BY <1>3, <2>1, LastHas, ConcatHas, ConcatInOrder
<1> HIDE DEF bl
<1>6. /\ a \o bl \in Seq(Steps) /\ InOrder(a \o bl)
      /\ \A s : Has(a \o bl, s) <=> Has(a, s) \/ Has(bl, s)
  <2>1. \A x, y \in Steps : Has(a, x) /\ Has(bl, y) => Rank(x) < Rank(y)
    BY <1>1, <1>2, <1>3, <1>5, LastHas
  <2> QED
    BY <1>2, <1>5, <2>1, ConcatHas, ConcatInOrder
<1>7. ASSUME NEW f \in Needed(v) PROVE Writes(Install(v), f)
  <2>1. \/ f \in {"container", "socket", "host"} \/ (f = "build" /\ v \notin Prebuilt)
        \/ (f = "proxy" /\ v \in Proxied)
    BY <1>7 DEF Needed
  <2>2. Writes(a, f) \/ Writes(b, f)
    BY <1>2, <1>3, <2>1
  <2> QED
    BY <1>4, <1>5, <1>6, <2>2 DEF Writes
<1> QED
  BY <1>2, <1>3, <1>4, <1>5, <1>6, <1>7, LastHas

UninstallSet == {"quadlet-rm", "rm-build", "rm-container", "rm-socket", "final-reload"}

LEMMA UninstallHas ==
  /\ Uninstall \in Seq(Steps) /\ InOrder(Uninstall)
  /\ \A s : Has(Uninstall, s) => s \in UninstallSet
  /\ Has(Uninstall, IF modern THEN "quadlet-rm" ELSE "rm-container")
<1> DEFINE a == IF modern THEN <<"quadlet-rm">> ELSE <<"rm-build", "rm-container">>
           b == <<"rm-socket", "final-reload">>
<1>0. /\ "quadlet-rm" \in Steps /\ "rm-build" \in Steps /\ "rm-container" \in Steps
      /\ "rm-socket" \in Steps /\ "final-reload" \in Steps
  BY DEF Steps
<1>1. /\ Rank("rm-build") < Rank("rm-container")
      /\ Rank("rm-socket") < Rank("final-reload")
      /\ \A x \in {"quadlet-rm", "rm-build", "rm-container"} :
           Rank(x) < Rank("rm-socket") /\ Rank(x) < Rank("final-reload")
  BY DEF Rank
<1>2. /\ a \in Seq(Steps) /\ InOrder(a)
      /\ \A s : Has(a, s) => s \in {"quadlet-rm", "rm-build", "rm-container"}
      /\ Has(a, IF modern THEN "quadlet-rm" ELSE "rm-container")
  <2>1. CASE modern
    BY <1>0, <2>1, OneHas
  <2>2. CASE ~modern
    <3>1. a = <<"rm-build", "rm-container">> /\ Rank("rm-build") < Rank("rm-container")
      BY <1>1, <2>2
    <3> QED
      BY <1>0, <3>1, TwoHas
  <2> QED
    BY <2>1, <2>2
<1>3. /\ b \in Seq(Steps) /\ InOrder(b)
      /\ \A s : Has(b, s) <=> s \in {"rm-socket", "final-reload"}
  <2>1. Rank("rm-socket") < Rank("final-reload")
    BY <1>1
  <2> QED
    BY <1>0, <2>1, TwoHas
<1>4. Uninstall = a \o b
  BY DEF Uninstall
<1> HIDE DEF a, b
<1>5. \A x, y \in Steps : Has(a, x) /\ Has(b, y) => Rank(x) < Rank(y)
  BY <1>1, <1>2, <1>3
<1> QED
  BY <1>2, <1>3, <1>4, <1>5, ConcatHas, ConcatInOrder DEF UninstallSet

LEMMA AfterHas ==
  /\ AfterUninstall \in Seq(Steps) /\ InOrder(AfterUninstall)
  /\ \A s : Has(AfterUninstall, s) => s \in {"rm-f", "reset-failed", "rm-config"}
<1>1. AfterUninstall \in Seq(Steps) /\ Len(AfterUninstall) = 3
  BY DEF AfterUninstall, Steps
<1>2. /\ AfterUninstall[1] = "rm-f" /\ AfterUninstall[2] = "reset-failed"
      /\ AfterUninstall[3] = "rm-config"
  BY DEF AfterUninstall
<1>3. \A i : i \in 1 .. 3 <=> i = 1 \/ i = 2 \/ i = 3
  OBVIOUS
<1>4. /\ Rank(AfterUninstall[1]) = 6 /\ Rank(AfterUninstall[2]) = 14
      /\ Rank(AfterUninstall[3]) = 20
  BY <1>2 DEF Rank
<1>5. InOrder(AfterUninstall)
  <2> SUFFICES ASSUME NEW i \in 1 .. 3, NEW j \in 1 .. 3, i < j
               PROVE  Rank(AfterUninstall[i]) < Rank(AfterUninstall[j])
    BY <1>1 DEF InOrder
  <2>1. (i = 1 /\ j = 2) \/ (i = 1 /\ j = 3) \/ (i = 2 /\ j = 3)
    OBVIOUS
  <2> QED
    BY <1>4, <2>1
<1> QED
  BY <1>1, <1>2, <1>3, <1>5 DEF Has
-----------------------------------------------------------------------------
(* The steps.                                                              *)

\* The steps that come before others in every command.
LEMMA Order ==
  /\ \A s \in {"quadlet-install", "write-build", "write-container", "write-socket",
               "write-host", "write-proxy"} : ~(Rank("reload") < Rank(s))
  /\ ~(Rank("stop-host") < Rank("reload"))
  /\ ~(Rank("enable-socket") < Rank("stop-socket"))
  /\ ~(Rank("enable-socket") < Rank("reload"))
  /\ \A s \in LastSet : ~(Rank("start-host") < Rank(s))
  /\ \A s \in UninstallSet : ~(Rank("final-reload") < Rank(s))
BY DEF Rank, LastSet, UninstallSet

\* The step at the head is done with, and m is what has been missed.
Taken(s, m) == /\ todo # <<>> /\ Head(todo) = s
               /\ todo' = Tail(todo) /\ Carry(m) /\ modern' = modern

\* A step taken is taken off what is ahead.
LEMMA TakenTakes ==
  ASSUME IInv, NEW s, NEW m \in SUBSET Missable, Taken(s, m)
  PROVE  /\ todo' \in Seq(Steps) /\ InOrder(todo') /\ Apart(todo')
         /\ s \in Steps /\ Has(todo, s)
         /\ \A x : Has(todo, x) <=> x = s \/ Has(todo', x)
         /\ \A x : Has(todo', x) => Rank(s) < Rank(x) /\ ver' = ver /\ missed' = m
         /\ modern' = modern /\ cmd' \in Commands /\ ver' \in Versions \cup {0}
         /\ missed' \in SUBSET Missable
<1>1. /\ todo \in Seq(Steps) /\ todo # <<>> /\ InOrder(todo) /\ Apart(todo)
      /\ s = Head(todo) /\ todo' = Tail(todo) /\ Carry(m) /\ modern' = modern
  BY DEF IInv, TypeOK, Taken
<1>2. \A x : Has(todo', x) => ver' = ver /\ missed' = m
  BY <1>1, EmptyHas DEF Carry
<1>3. cmd' \in Commands /\ ver' \in Versions \cup {0} /\ missed' \in SUBSET Missable
  BY <1>1 DEF Carry, IInv, TypeOK, Commands
<1> QED
  BY <1>1, <1>2, <1>3, TailHas

LEMMA StepTakes ==
  ASSUME IInv, NEW s, Step(s)
  PROVE  /\ todo' \in Seq(Steps) /\ InOrder(todo') /\ Apart(todo')
         /\ s \in Steps /\ Has(todo, s)
         /\ \A x : Has(todo, x) <=> x = s \/ Has(todo', x)
         /\ \A x : Has(todo', x) => Rank(s) < Rank(x) /\ ver' = ver /\ missed' = missed
         /\ modern' = modern /\ cmd' \in Commands /\ ver' \in Versions \cup {0}
         /\ missed' \in SUBSET Missable /\ down' \in BOOLEAN
         /\ down' => /\ s \notin {"quadlet-install", "write-container"}
                     /\ down \/ s = "final-reload"
<1>1. missed \in SUBSET Missable /\ Taken(s, missed)
  BY DEF IInv, TypeOK, Step, Taken
<1>2. /\ down' \in BOOLEAN
      /\ down' => /\ s \notin {"quadlet-install", "write-container"}
                  /\ down \/ s = "final-reload"
  BY DEF IInv, TypeOK, Step
<1> QED
  BY <1>1, <1>2, TakenTakes

\* What a step has to keep of what is being installed and removed.
LEMMA StepKeeps ==
  ASSUME IInv, NEW s, Step(s),
         config' \in Versions \cup {0}, files' \in [Files -> Versions \cup {0}],
         loaded' \in [Files -> Versions \cup {0}], socket' \in BOOLEAN,
         failed' \in BOOLEAN, host' \in Versions \cup {0}, service' \in Versions \cup {0},
         Has(todo', "start-host") =>
           /\ \A f \in Needed(ver) : files'[f] = ver \/ Writes(todo', f)
           /\ Has(todo', "reload")
              \/ \A f \in Needed(ver) : files'[f] = ver /\ (Unread \/ loaded'[f] = ver)
           /\ Has(todo', "quadlet-install")
              \/ \A f \in ReadByPodman \cap Needed(ver) : files'[f] = ver /\ loaded'[f] = ver
           /\ Has(todo', "stop-host") \/ Unstopped \/ host' \in {0, ver}
           /\ Has(todo', "enable-socket") \/ Unheard \/ socket',
         Has(todo', "final-reload") =>
           /\ modern  => \/ Has(todo', "quadlet-rm")
                         \/ files'["container"] = 0 /\ loaded'["container"] = 0
           /\ ~modern => Has(todo', "rm-container") \/ files'["container"] = 0,
         down' => files'["container"] = 0 /\ loaded'["container"] = 0
  PROVE  IInv'
<1>1. TypeOK'
  BY StepTakes DEF IInv, TypeOK
<1>2. Installing'
  <2> SUFFICES ASSUME Has(todo', "start-host")
               PROVE  /\ ver' \in Versions
                      /\ \A f \in Needed(ver') : files'[f] = ver' \/ Writes(todo', f)
                      /\ \/ Has(todo', "reload")
                         \/ \A f \in Needed(ver') :
                              files'[f] = ver' /\ (Unread' \/ loaded'[f] = ver')
                      /\ \/ Has(todo', "quadlet-install")
                         \/ \A f \in ReadByPodman' \cap Needed(ver') :
                              files'[f] = ver' /\ loaded'[f] = ver'
                      /\ Has(todo', "reload") => Has(todo', "stop-host")
                      /\ Has(todo', "stop-host") \/ Unstopped' \/ host' \in {0, ver'}
                      /\ Has(todo', "stop-socket") => Has(todo', "enable-socket")
                      /\ Has(todo', "enable-socket") \/ Unheard' \/ socket'
    BY DEF Installing, Ahead
  <2>1. ver' = ver /\ missed' = missed /\ modern' = modern /\ Has(todo, "start-host")
    BY StepTakes
  <2>5. /\ Unread' = Unread /\ Unstopped' = Unstopped /\ Unheard' = Unheard
        /\ ReadByPodman' = ReadByPodman
    BY <2>1 DEF Unread, Unstopped, Unheard, ReadByPodman
  <2>2. /\ ver \in Versions
        /\ Has(todo, "reload") => Has(todo, "stop-host")
        /\ Has(todo, "stop-socket") => Has(todo, "enable-socket")
    BY <2>1 DEF IInv, Installing, Ahead
  <2>3. Has(todo', "reload") => Has(todo', "stop-host")
    BY <2>2, StepTakes, Order
  <2>4. Has(todo', "stop-socket") => Has(todo', "enable-socket")
    BY <2>2, StepTakes, Order
  <2> QED
    BY <2>1, <2>2, <2>3, <2>4, <2>5
<1>3. Uninstalling'
  BY StepTakes DEF Uninstalling, Ahead
<1>4. Removed'
  BY DEF Removed
<1> QED
  BY <1>1, <1>2, <1>3, <1>4, StepTakes DEF IInv

\* What is being installed, in terms of what is ahead.
LEMMA IsInstalling ==
  ASSUME IInv, NEW s, Step(s), Has(todo', "start-host")
  PROVE  /\ Has(todo, "start-host") /\ ver \in Versions
         /\ \A f \in Needed(ver) : files[f] = ver \/ Writes(todo, f)
         /\ Has(todo, "reload")
            \/ \A f \in Needed(ver) : files[f] = ver /\ (Unread \/ loaded[f] = ver)
         /\ Has(todo, "quadlet-install")
            \/ \A f \in ReadByPodman \cap Needed(ver) : files[f] = ver /\ loaded[f] = ver
         /\ Has(todo, "stop-host") \/ Unstopped \/ host \in {0, ver}
         /\ Has(todo, "stop-socket") => Has(todo, "enable-socket")
         /\ Has(todo, "enable-socket") \/ Unheard \/ socket
BY StepTakes DEF IInv, Installing, Ahead

LEMMA IsUninstalling ==
  ASSUME IInv, NEW s, Step(s), Has(todo', "final-reload")
  PROVE  /\ Has(todo, "final-reload")
         /\ modern  => \/ Has(todo, "quadlet-rm")
                       \/ files["container"] = 0 /\ loaded["container"] = 0
         /\ ~modern => Has(todo, "rm-container") \/ files["container"] = 0
BY StepTakes DEF IInv, Uninstalling, Ahead

LEMMA NeededFiles == \A v : Needed(v) \subseteq Files
BY DEF Needed, Files

\* Every file has a step of its own that writes it.
LEMMA WritingHas ==
  /\ \A f \in Files : Writing[f] \in {"write-build", "write-container", "write-socket",
                                    "write-host", "write-proxy"}
  /\ \A f, g \in Files : Writing[f] = Writing[g] => f = g
<1>1. /\ Writing["build"] = "write-build" /\ Writing["container"] = "write-container"
      /\ Writing["socket"] = "write-socket" /\ Writing["host"] = "write-host"
      /\ Writing["proxy"] = "write-proxy"
  BY DEF Writing
<1>2. \A f : f \in Files <=> f = "build" \/ f = "container" \/ f = "socket" \/ f = "host"
                           \/ f = "proxy"
  BY DEF Files
<1> QED
  BY <1>1, <1>2

\* What is written is as the definition has it.
LEMMA WriteStep ==
  ASSUME IInv, NEW f \in Files, Write(f)
  PROVE  IInv'
<1>0. /\ Step(Writing[f]) /\ files' = [files EXCEPT ![f] = ver]
      /\ config' = config /\ loaded' = loaded /\ socket' = socket /\ host' = host
      /\ service' = service /\ failed' = failed
  BY DEF Write, systemd
<1>1. Writing[f] \in Builds /\ \A g \in Files : Writing[g] = Writing[f] => g = f
  BY WritingHas DEF Builds
<1>2. ~Has(todo', "final-reload")
  BY <1>0, <1>1, StepTakes DEF IInv, Apart, Removals
<1>3. /\ Writing[f] \notin {"reload", "stop-host", "enable-socket", "quadlet-install"}
  BY WritingHas
<1>4. ASSUME Has(todo', "start-host")
      PROVE  /\ \A g \in Needed(ver) : files'[g] = ver \/ Writes(todo', g)
             /\ Has(todo', "reload")
                \/ \A g \in Needed(ver) : files'[g] = ver /\ (Unread \/ loaded'[g] = ver)
             /\ Has(todo', "quadlet-install")
                \/ \A g \in ReadByPodman \cap Needed(ver) : files'[g] = ver /\ loaded'[g] = ver
             /\ Has(todo', "stop-host") \/ Unstopped \/ host' \in {0, ver}
             /\ Has(todo', "enable-socket") \/ Unheard \/ socket'
  <2>1. ASSUME NEW g \in Needed(ver) PROVE files'[g] = ver \/ Writes(todo', g)
    <3>1. CASE g = f
      BY <1>0, <3>1 DEF IInv, TypeOK
    <3>2. CASE g # f
      <4>1. files'[g] = files[g] /\ Writing[g] # Writing[f] /\ g \in Files
        BY <1>0, <1>1, <3>2, NeededFiles DEF IInv, TypeOK
      <4> QED
        BY <1>0, <1>3, <1>4, <4>1, IsInstalling, StepTakes DEF Writes
    <3> QED
      BY <3>1, <3>2
  <2>2. \A g \in Needed(ver) : files[g] = ver => files'[g] = ver
    BY <1>0, NeededFiles DEF IInv, TypeOK
  <2> QED
    BY <1>0, <1>3, <1>4, <2>1, <2>2, IsInstalling, StepTakes
<1>5. files' \in [Files -> Versions \cup {0}]
  BY <1>0 DEF IInv, TypeOK
<1>6. ASSUME down' PROVE files'["container"] = 0 /\ loaded'["container"] = 0
  <2>1. down /\ Writing[f] # "write-container"
    BY <1>0, <1>1, <1>6, StepTakes DEF Removals, Builds
  <2>2. f # "container"
    BY <2>1 DEF Writing
  <2>3. files'["container"] = files["container"]
    BY <1>0, <2>2 DEF IInv, TypeOK, Files
  <2> QED
    BY <1>0, <2>1, <2>3 DEF IInv, Removed
<1> HIDE DEF Writes
<1> QED
  BY <1>0, <1>2, <1>4, <1>5, <1>6, StepKeeps DEF IInv, TypeOK

LEMMA QuadletInstallStep ==
  ASSUME IInv, QuadletInstall
  PROVE  IInv'
<1>0. /\ Step("quadlet-install")
      /\ files' = [files EXCEPT !["container"] = ver,
                                !["build"] = IF ver \in Prebuilt THEN @ ELSE ver]
      /\ loaded' = files'
      /\ config' = config /\ socket' = socket /\ host' = host
      /\ service' = service /\ failed' = failed
  BY DEF QuadletInstall
<1>2. ~Has(todo', "final-reload")
  BY <1>0, StepTakes DEF IInv, Apart, Removals, Builds
<1>3. /\ \A g \in Files : Writing[g] # "quadlet-install"
  BY WritingHas
<1>4. ASSUME Has(todo', "start-host")
      PROVE  /\ \A g \in Needed(ver) : files'[g] = ver \/ Writes(todo', g)
             /\ Has(todo', "reload")
                \/ \A g \in Needed(ver) : files'[g] = ver /\ (Unread \/ loaded'[g] = ver)
             /\ Has(todo', "quadlet-install")
                \/ \A g \in ReadByPodman \cap Needed(ver) : files'[g] = ver /\ loaded'[g] = ver
             /\ Has(todo', "stop-host") \/ Unstopped \/ host' \in {0, ver}
             /\ Has(todo', "enable-socket") \/ Unheard \/ socket'
  <2>1. ASSUME NEW g \in Needed(ver) PROVE files'[g] = ver \/ Writes(todo', g)
    <3>0. g \in Files
      BY NeededFiles
    <3>1. CASE g \in {"container", "build"}
      <4>1. g = "container" \/ (g = "build" /\ ver \notin Prebuilt)
        BY <3>1 DEF Needed
      <4> QED
        BY <1>0, <3>0, <4>1 DEF IInv, TypeOK
    <3>2. CASE g \notin {"container", "build"}
      <4>1. files'[g] = files[g]
        BY <1>0, <3>0, <3>2 DEF IInv, TypeOK
      <4> QED
        BY <1>0, <1>3, <1>4, <3>0, <3>2, <4>1, IsInstalling, StepTakes DEF Writes
    <3> QED
      BY <3>1, <3>2
  <2>2. \A g \in Needed(ver) : files[g] = ver => files'[g] = ver
    BY <1>0, NeededFiles DEF IInv, TypeOK
  <2> QED
    <3>1. Has(todo', "reload")
          \/ \A g \in Needed(ver) : files'[g] = ver /\ (Unread \/ loaded'[g] = ver)
      BY <1>0, <1>4, <2>2, IsInstalling, StepTakes
    <3>3. \A g \in ReadByPodman \cap Needed(ver) : files'[g] = ver /\ loaded'[g] = ver
      <4>1. ASSUME NEW g \in ReadByPodman \cap Needed(ver) PROVE files'[g] = ver
        <5>1. g \in {"container", "build"}
          BY <4>1 DEF ReadByPodman
        <5>2. g = "container" \/ (g = "build" /\ ver \notin Prebuilt)
          BY <4>1, <5>1 DEF Needed
        <5> QED
          BY <1>0, <5>2 DEF IInv, TypeOK, Files
      <4> QED
        BY <1>0, <4>1
    <3>2. /\ Has(todo', "stop-host") \/ Unstopped \/ host' \in {0, ver}
          /\ Has(todo', "enable-socket") \/ Unheard \/ socket'
      BY <1>0, <1>4, IsInstalling, StepTakes
    <3> QED
      BY <2>1, <3>1, <3>2, <3>3
<1>5. files' \in [Files -> Versions \cup {0}]
  BY <1>0 DEF IInv, TypeOK
<1>6. ~down'
  BY <1>0, StepTakes
<1> QED
  BY <1>0, <1>2, <1>4, <1>5, <1>6, StepKeeps DEF IInv, TypeOK

\* All is written when systemd reads it.
LEMMA ReloadStep ==
  ASSUME IInv, Reload
  PROVE  IInv'
<1>0. /\ Step("reload") /\ loaded' = files
      /\ config' = config /\ files' = files /\ socket' = socket /\ host' = host
      /\ service' = service /\ failed' = failed
  BY DEF Reload, disk
<1>1. \A f \in Files : ~Writes(todo', f)
  <2>1. \A f \in Files : Writing[f] \in {"quadlet-install", "write-build",
              "write-container", "write-socket", "write-host", "write-proxy"}
    BY WritingHas
  <2> QED
    BY <1>0, <2>1, StepTakes, Order DEF Writes
<1>2. ASSUME Has(todo', "start-host")
      PROVE  /\ \A g \in Needed(ver) : files'[g] = ver /\ loaded'[g] = ver
             /\ Has(todo', "stop-host") \/ Unstopped \/ host' \in {0, ver}
             /\ Has(todo', "enable-socket") \/ Unheard \/ socket'
  <2>1. \A f \in Files : Writes(todo, f) => Writes(todo', f)
    <3>1. \A f \in Files : Writing[f] # "reload"
      BY WritingHas
    <3> QED
      BY <1>0, <3>1, StepTakes DEF Writes
  <2>2. \A g \in Needed(ver) : files[g] = ver
    BY <1>0, <1>1, <1>2, <2>1, IsInstalling, NeededFiles
  <2>3. /\ Has(todo', "stop-host") \/ Unstopped \/ host' \in {0, ver}
        /\ Has(todo', "enable-socket") \/ Unheard \/ socket'
    BY <1>0, <1>2, IsInstalling, StepTakes
  <2> QED
    BY <1>0, <2>2, <2>3
<1>3. Has(todo', "final-reload") =>
        /\ modern  => \/ Has(todo', "quadlet-rm")
                      \/ files'["container"] = 0 /\ loaded'["container"] = 0
        /\ ~modern => Has(todo', "rm-container") \/ files'["container"] = 0
  BY <1>0, IsUninstalling, StepTakes
<1>4. down' => files'["container"] = 0 /\ loaded'["container"] = 0
  BY <1>0, StepTakes DEF IInv, Removed
<1> QED
  BY <1>0, <1>2, <1>3, <1>4, StepKeeps DEF IInv, TypeOK

\* The steps that neither write nor read units.
LEMMA OtherStep ==
  ASSUME IInv, NEW s, Step(s), files' = files, loaded' = loaded,
         s \notin {"reload", "quadlet-install", "quadlet-rm", "rm-container", "final-reload"},
         \A f \in Files : s # Writing[f],
         config' \in Versions \cup {0}, socket' \in BOOLEAN,
         failed' \in BOOLEAN, host' \in Versions \cup {0}, service' \in Versions \cup {0},
         Has(todo', "start-host") =>
           /\ Has(todo', "stop-host") \/ Unstopped \/ host' \in {0, ver}
           /\ Has(todo', "enable-socket") \/ Unheard \/ socket'
  PROVE  IInv'
<1>1. \A f \in Files : Writes(todo, f) => Writes(todo', f)
  BY StepTakes DEF Writes
<1>2. Has(todo', "start-host") =>
        /\ \A f \in Needed(ver) : files'[f] = ver \/ Writes(todo', f)
        /\ Has(todo', "reload")
           \/ \A f \in Needed(ver) : files'[f] = ver /\ (Unread \/ loaded'[f] = ver)
        /\ Has(todo', "quadlet-install")
           \/ \A f \in ReadByPodman \cap Needed(ver) : files'[f] = ver /\ loaded'[f] = ver
  BY <1>1, IsInstalling, StepTakes, NeededFiles
<1>3. Has(todo', "final-reload") =>
        /\ modern  => \/ Has(todo', "quadlet-rm")
                      \/ files'["container"] = 0 /\ loaded'["container"] = 0
        /\ ~modern => Has(todo', "rm-container") \/ files'["container"] = 0
  BY IsUninstalling, StepTakes
<1>4. down' => files'["container"] = 0 /\ loaded'["container"] = 0
  BY StepTakes DEF IInv, Removed
<1> QED
  BY <1>2, <1>3, <1>4, StepKeeps DEF IInv, TypeOK

LEMMA RemovingHas ==
  /\ \A f \in {"build", "container", "socket"} : Removing[f] \in Removals \ {"quadlet-rm"}
  /\ Removing["container"] = "rm-container"
  /\ \A f \in {"build", "socket"} : Removing[f] # "rm-container"
BY DEF Removing, Removals

\* A removal has nothing to install.
LEMMA RemovalStep ==
  ASSUME IInv, NEW s \in Removals, Step(s),
         config' = config, files' \in [Files -> Versions \cup {0}],
         loaded' \in [Files -> Versions \cup {0}],
         socket' = socket, failed' = failed, host' = host, service' = service,
         \/ files'["container"] = 0 /\ s # "quadlet-rm"
         \/ files'["container"] = files["container"] /\ s \notin {"quadlet-rm", "rm-container"}
         \/ files'["container"] = 0 /\ loaded'["container"] = 0,
         loaded' \in {loaded, files'},
         s = "final-reload" => loaded' = files'
  PROVE  IInv'
<1>1. ~Has(todo', "start-host")
  BY StepTakes DEF IInv, Apart, Builds
<1>2. Has(todo', "final-reload") =>
        /\ modern  => \/ Has(todo', "quadlet-rm")
                      \/ files'["container"] = 0 /\ loaded'["container"] = 0
        /\ ~modern => Has(todo', "rm-container") \/ files'["container"] = 0
  BY IsUninstalling, StepTakes
<1>3. down' => files'["container"] = 0 /\ loaded'["container"] = 0
  <2>1. s = "final-reload" => files["container"] = 0
    BY StepTakes, Order DEF IInv, Uninstalling, Ahead, UninstallSet
  <2> QED
    BY <2>1, StepTakes DEF IInv, Removed
<1> QED
  BY <1>1, <1>2, <1>3, StepKeeps DEF IInv, TypeOK

\* Of the steps that a removal is made of.
LEMMA UninstallStep ==
  ASSUME IInv,
         \/ QuadletRm \/ FinalReload \/ \E f \in {"build", "container", "socket"} : Remove(f)
  PROVE  IInv'
<1>1. CASE QuadletRm
  <2>1. /\ Step("quadlet-rm") /\ loaded' = files'
        /\ files' = [files EXCEPT !["container"] = 0, !["build"] = 0]
        /\ config' = config /\ socket' = socket /\ host' = host
        /\ service' = service /\ failed' = failed
    BY <1>1 DEF QuadletRm
  <2>2. files' \in [Files -> Versions \cup {0}] /\ files'["container"] = 0
    BY <2>1 DEF IInv, TypeOK, Files
  <2>3. "quadlet-rm" \in Removals
    BY DEF Removals
  <2> QED
    BY <2>1, <2>2, <2>3, RemovalStep
<1>2. CASE FinalReload
  <2>1. /\ Step("final-reload") /\ loaded' = files /\ config' = config /\ files' = files
        /\ socket' = socket /\ host' = host /\ service' = service /\ failed' = failed
    BY <1>2 DEF FinalReload, disk
  <2>2. "final-reload" \in Removals /\ "final-reload" \notin {"quadlet-rm", "rm-container"}
    BY DEF Removals
  <2>3. files \in [Files -> Versions \cup {0}]
    BY DEF IInv, TypeOK
  <2> QED
    BY <2>1, <2>2, <2>3, RemovalStep
<1>3. ASSUME NEW f \in {"build", "container", "socket"}, Remove(f)
      PROVE  IInv'
  <2>1. /\ Step(Removing[f]) /\ files' = [files EXCEPT ![f] = 0]
        /\ config' = config /\ loaded' = loaded /\ socket' = socket /\ host' = host
        /\ service' = service /\ failed' = failed
    BY <1>3 DEF Remove, systemd
  <2>2. files' \in [Files -> Versions \cup {0}]
    BY <2>1 DEF IInv, TypeOK, Files
  <2>3. \/ files'["container"] = 0
        \/ /\ files'["container"] = files["container"]
           /\ Removing[f] \notin {"quadlet-rm", "rm-container"}
    <3>1. CASE f = "container"
      BY <2>1, <3>1 DEF IInv, TypeOK, Files
    <3>2. CASE f # "container"
      <4>1. files'["container"] = files["container"]
        BY <2>1, <3>2 DEF IInv, TypeOK, Files
      <4> QED
        BY <3>2, <4>1, RemovingHas
    <3> QED
      BY <3>1, <3>2
  <2>4. /\ loaded \in [Files -> Versions \cup {0}] /\ Removing[f] \in Removals
        /\ Removing[f] \notin {"quadlet-rm", "final-reload"}
    BY RemovingHas DEF IInv, TypeOK, Removing
  <2> QED
    BY <2>1, <2>2, <2>3, <2>4, RemovalStep
<1> QED
  BY <1>1, <1>2, <1>3

\* What listens and what runs is what has been read.
LEMMA ServeStep ==
  ASSUME IInv,
         ResetFailed \/ StopSocket \/ StopHost \/ EnableSocket \/ StartHost
         \/ EnsureRunning \/ ForceRemove \/ RemoveConfig
  PROVE  IInv'
<1>0. \A f \in Files : Writing[f] \notin {"reset-failed", "stop-socket", "stop-host",
        "enable-socket", "start-host", "ensure-running", "rm-f", "rm-config"}
  BY WritingHas
<1>1. TypeOK
  BY DEF IInv
<1>2. CASE ResetFailed
  <2>1. /\ Step("reset-failed") /\ failed' = FALSE /\ config' = config /\ files' = files
        /\ loaded' = loaded /\ socket' = socket /\ host' = host /\ service' = service
    BY <1>2 DEF ResetFailed, disk
  <2>2. Has(todo', "start-host") =>
          /\ Has(todo', "stop-host") \/ Unstopped \/ host' \in {0, ver}
          /\ Has(todo', "enable-socket") \/ Unheard \/ socket'
    BY <2>1, IsInstalling, StepTakes
  <2> QED
    BY <1>0, <1>1, <2>1, <2>2, OtherStep DEF TypeOK
<1>3. CASE StopSocket
  <2>1. /\ Step("stop-socket") /\ failed' = failed /\ config' = config /\ files' = files
        /\ loaded' = loaded /\ socket' = FALSE /\ host' = host /\ service' = 0
    BY <1>3 DEF StopSocket, disk
  <2>2. Has(todo', "start-host") =>
          /\ Has(todo', "stop-host") \/ Unstopped \/ host' \in {0, ver}
          /\ Has(todo', "enable-socket") \/ Unheard \/ socket'
    BY <2>1, IsInstalling, StepTakes
  <2> QED
    BY <1>0, <1>1, <2>1, <2>2, OtherStep DEF TypeOK
<1>4. CASE StopHost
  <2>1. /\ Step("stop-host") /\ failed' = failed /\ config' = config /\ files' = files
        /\ loaded' = loaded /\ socket' = socket /\ host' = 0 /\ service' = service
    BY <1>4 DEF StopHost, disk
  <2>2. Has(todo', "start-host") =>
          /\ Has(todo', "stop-host") \/ Unstopped \/ host' \in {0, ver}
          /\ Has(todo', "enable-socket") \/ Unheard \/ socket'
    BY <2>1, IsInstalling, StepTakes
  <2> QED
    BY <1>0, <1>1, <2>1, <2>2, OtherStep DEF TypeOK
<1>5. CASE EnableSocket
  <2>1. /\ Step("enable-socket") /\ failed' = failed /\ config' = config /\ files' = files
        /\ loaded' = loaded /\ socket' = (socket \/ CanListen) /\ host' = host
        /\ service' = service
    BY <1>5 DEF EnableSocket, disk
  <2>2. Has(todo', "start-host") => Unheard \/ CanListen
    <3> SUFFICES ASSUME Has(todo', "start-host"), ~Unheard PROVE CanListen
      OBVIOUS
    <3>1. ~Has(todo, "reload") /\ ~Unread
      BY <2>1, StepTakes, Order DEF Unread, Unheard
    <3>2. ver # 0 /\ \A f \in Needed(ver) : loaded[f] = ver
      BY <2>1, <3>1, IsInstalling, VersionsAssumption
    <3> QED
      BY <3>2 DEF CanListen, Needed
  <2>3. Has(todo', "start-host") =>
          /\ Has(todo', "stop-host") \/ Unstopped \/ host' \in {0, ver}
          /\ Has(todo', "enable-socket") \/ Unheard \/ socket'
    BY <2>1, <2>2, IsInstalling, StepTakes
  <2>4. socket' \in BOOLEAN
    BY <1>1, <2>1 DEF TypeOK, CanListen
  <2> QED
    BY <1>0, <1>1, <2>1, <2>3, <2>4, OtherStep DEF TypeOK
<1>6. CASE StartHost
  <2>1. /\ Step("start-host") /\ failed' = failed /\ config' = config /\ files' = files
        /\ loaded' = loaded /\ socket' = socket /\ service' = service
        /\ host' = IF host = 0 THEN loaded["host"] ELSE host
    BY <1>6 DEF StartHost, disk
  <2>2. ~Has(todo', "start-host")
    BY <2>1, StepTakes, Order DEF LastSet
  <2>3. host' \in Versions \cup {0}
    BY <1>1, <2>1 DEF TypeOK, Files
  <2> QED
    BY <1>0, <1>1, <2>1, <2>2, <2>3, OtherStep DEF TypeOK
<1>7. CASE EnsureRunning
  <2>1. /\ Step("ensure-running") /\ config' = config /\ files' = files
        /\ loaded' = loaded /\ host' = host /\ (socket' = socket \/ socket')
        /\ failed' \in {failed, Startable, FALSE}
        /\ service' \in {service, loaded["container"]}
    BY <1>7 DEF EnsureRunning, disk
  <2>2. failed' \in BOOLEAN /\ service' \in Versions \cup {0}
    BY <1>1, <2>1 DEF TypeOK, Startable, Files
  <2>4. socket' \in BOOLEAN
    BY <1>1, <1>7 DEF TypeOK, EnsureRunning
  <2>3. Has(todo', "start-host") =>
          /\ Has(todo', "stop-host") \/ Unstopped \/ host' \in {0, ver}
          /\ Has(todo', "enable-socket") \/ Unheard \/ socket'
    BY <2>1, IsInstalling, StepTakes
  <2> QED
    BY <1>0, <1>1, <2>1, <2>2, <2>3, <2>4, OtherStep DEF TypeOK
<1>8. CASE ForceRemove
  <2>1. /\ Step("rm-f") /\ failed' \in BOOLEAN /\ config' = config /\ files' = files
        /\ loaded' = loaded /\ socket' = socket /\ host' = host /\ service' = 0
    BY <1>1, <1>8 DEF ForceRemove, disk, TypeOK
  <2>2. Has(todo', "start-host") =>
          /\ Has(todo', "stop-host") \/ Unstopped \/ host' \in {0, ver}
          /\ Has(todo', "enable-socket") \/ Unheard \/ socket'
    BY <2>1, IsInstalling, StepTakes
  <2> QED
    BY <1>0, <1>1, <2>1, <2>2, OtherStep DEF TypeOK
<1>9. CASE RemoveConfig
  <2>1. /\ Step("rm-config") /\ failed' = failed /\ config' = 0 /\ files' = files
        /\ loaded' = loaded /\ socket' = socket /\ host' = host /\ service' = service
    BY <1>9 DEF RemoveConfig, systemd
  <2>2. Has(todo', "start-host") =>
          /\ Has(todo', "stop-host") \/ Unstopped \/ host' \in {0, ver}
          /\ Has(todo', "enable-socket") \/ Unheard \/ socket'
    BY <2>1, IsInstalling, StepTakes
  <2> QED
    BY <1>0, <1>1, <2>1, <2>2, OtherStep DEF TypeOK
<1> QED
  BY <1>2, <1>3, <1>4, <1>5, <1>6, <1>7, <1>8, <1>9

\* A call that fails changes nothing but what has been missed; what it should
\* have done is not ahead any more.
LEMMA DroppedStep ==
  ASSUME IInv, NEW s \in Ignored, Dropped(s)
  PROVE  IInv'
<1> DEFINE m == missed \cup ({s} \cap Missable)
<1>1. /\ m \in SUBSET Missable /\ Taken(s, m)
      /\ UNCHANGED <<modern, config, files, loaded, socket, host, service, failed>>
      /\ down' = (down \/ (modern /\ s = "final-reload"))
  BY DEF Dropped, Taken, disk, systemd, IInv, TypeOK
<1> HIDE DEF m
<1>2. /\ todo' \in Seq(Steps) /\ InOrder(todo') /\ Apart(todo')
      /\ s \in Steps /\ Has(todo, s)
      /\ \A x : Has(todo, x) <=> x = s \/ Has(todo', x)
      /\ \A x : Has(todo', x) => Rank(s) < Rank(x) /\ ver' = ver /\ missed' = m
      /\ cmd' \in Commands /\ ver' \in Versions \cup {0} /\ missed' \in SUBSET Missable
  BY <1>1, TakenTakes
<1>3. TypeOK'
  BY <1>1, <1>2 DEF IInv, TypeOK
<1>4. /\ \A f \in Files : s # Writing[f]
      /\ s \notin {"quadlet-install", "quadlet-rm", "rm-container"}
  BY WritingHas DEF Ignored
<1>5. Installing'
  <2> SUFFICES ASSUME Has(todo', "start-host")
               PROVE  /\ ver \in Versions
                      /\ \A f \in Needed(ver) : files[f] = ver \/ Writes(todo', f)
                      /\ Has(todo', "reload")
                         \/ \A f \in Needed(ver) :
                              files[f] = ver /\ (Unread' \/ loaded[f] = ver)
                      /\ Has(todo', "quadlet-install")
                         \/ \A f \in ReadByPodman \cap Needed(ver) :
                              files[f] = ver /\ loaded[f] = ver
                      /\ Has(todo', "reload") => Has(todo', "stop-host")
                      /\ Has(todo', "stop-host") \/ Unstopped' \/ host \in {0, ver}
                      /\ Has(todo', "stop-socket") => Has(todo', "enable-socket")
                      /\ Has(todo', "enable-socket") \/ Unheard' \/ socket
    BY <1>1, <1>2 DEF Installing, Ahead, ReadByPodman
  <2>1. /\ ver \in Versions
        /\ \A f \in Needed(ver) : files[f] = ver \/ Writes(todo, f)
        /\ Has(todo, "reload")
           \/ \A f \in Needed(ver) : files[f] = ver /\ (Unread \/ loaded[f] = ver)
        /\ Has(todo, "quadlet-install")
           \/ \A f \in ReadByPodman \cap Needed(ver) : files[f] = ver /\ loaded[f] = ver
        /\ Has(todo, "reload") => Has(todo, "stop-host")
        /\ Has(todo, "stop-host") \/ Unstopped \/ host \in {0, ver}
        /\ Has(todo, "stop-socket") => Has(todo, "enable-socket")
        /\ Has(todo, "enable-socket") \/ Unheard \/ socket
    BY <1>2 DEF IInv, Installing, Ahead
  <2>2. missed' = m /\ missed \subseteq m /\ (s \in Missable => s \in m)
    BY <1>2 DEF m
  <2>3. /\ Unread => Unread'
        /\ Unstopped => Unstopped'
        /\ Unheard => Unheard'
        /\ s = "reload" => Unread'
        /\ s = "stop-host" => Unstopped'
        /\ s = "enable-socket" => Unheard'
    BY <2>2 DEF Unread, Unstopped, Unheard, Missable
  <2>4. \A f \in Files : Writes(todo, f) => Writes(todo', f)
    BY <1>2, <1>4 DEF Writes
  <2>5. \A f \in Needed(ver) : files[f] = ver \/ Writes(todo', f)
    BY <2>1, <2>4, NeededFiles
  <2>6. ASSUME s = "reload" PROVE \A f \in Needed(ver) : files[f] = ver
    <3>1. \A f \in Files : ~Writes(todo', f)
      <4>1. \A f \in Files : Writing[f] \in {"quadlet-install", "write-build",
              "write-container", "write-socket", "write-host", "write-proxy"}
        BY WritingHas
      <4> QED
        BY <1>2, <2>6, <4>1, Order DEF Writes
    <3> QED
      BY <2>5, <3>1, NeededFiles
  <2>7. /\ Has(todo', "reload") => Has(todo', "stop-host")
        /\ Has(todo', "stop-socket") => Has(todo', "enable-socket")
    BY <1>2, <2>1, Order
  <2>8. Has(todo', "reload")
        \/ \A f \in Needed(ver) : files[f] = ver /\ (Unread' \/ loaded[f] = ver)
    <3>1. CASE s = "reload"
      BY <2>3, <2>6, <3>1
    <3>2. CASE s # "reload"
      <4>1. Has(todo, "reload") <=> Has(todo', "reload")
        BY <1>2, <3>2
      <4> QED
        BY <2>1, <2>3, <4>1 DEF Unread
    <3> QED
      BY <3>1, <3>2
  <2>9. Has(todo', "quadlet-install")
        \/ \A f \in ReadByPodman \cap Needed(ver) : files[f] = ver /\ loaded[f] = ver
    BY <1>2, <1>4, <2>1
  <2>10. /\ Has(todo', "stop-host") \/ Unstopped' \/ host \in {0, ver}
         /\ Has(todo', "enable-socket") \/ Unheard' \/ socket
    <3>1. /\ Has(todo, "stop-host") => s = "stop-host" \/ Has(todo', "stop-host")
          /\ Has(todo, "enable-socket") => s = "enable-socket" \/ Has(todo', "enable-socket")
      BY <1>2
    <3> QED
      BY <2>1, <2>3, <3>1 DEF Unstopped, Unheard
  <2> QED
    BY <2>1, <2>5, <2>7, <2>8, <2>9, <2>10
<1>6. Uninstalling'
  BY <1>1, <1>2, <1>4 DEF IInv, Uninstalling, Ahead
<1>7. Removed'
  <2>1. modern /\ s = "final-reload" => files["container"] = 0 /\ loaded["container"] = 0
    BY <1>2, Order DEF IInv, Uninstalling, Ahead, UninstallSet
  <2> QED
    BY <1>1, <2>1 DEF IInv, Removed
<1> QED
  BY <1>2, <1>3, <1>5, <1>6, <1>7 DEF IInv

\* A command begins with all of its steps ahead.
LEMMA BeginStep ==
  ASSUME IInv, NEW c \in Commands, NEW v \in Versions \cup {0}, NEW steps \in Seq(Steps),
         Begin(c, v, steps), InOrder(steps), Apart(steps),
         Has(steps, "start-host") =>
           /\ v \in Versions /\ \A f \in Needed(v) : Writes(steps, f)
           /\ \A s \in LastSet : Has(steps, s)
           /\ modern => Has(steps, "quadlet-install"),
         Has(steps, "final-reload") =>
           Has(steps, IF modern THEN "quadlet-rm" ELSE "rm-container")
  PROVE  IInv'
<1>1. /\ cmd' = c /\ ver' = v /\ todo' = steps
      /\ UNCHANGED <<modern, config, files, loaded, socket, host, service, failed>>
      /\ UNCHANGED <<missed, down>>
  BY DEF Begin, disk, systemd, history
<1>2. TypeOK'
  BY <1>1 DEF IInv, TypeOK
<1>3. Installing'
  BY <1>1 DEF Installing, Ahead, LastSet, ReadByPodman
<1>4. Uninstalling'
  BY <1>1 DEF Uninstalling, Ahead
<1>5. Removed'
  BY <1>1 DEF IInv, Removed
<1> QED
  BY <1>1, <1>2, <1>3, <1>4, <1>5 DEF IInv

LEMMA InstallBegins ==
  ASSUME NEW v \in Versions
  PROVE  /\ Install(v) \in Seq(Steps) /\ InOrder(Install(v)) /\ Apart(Install(v))
         /\ \A f \in Needed(v) : Writes(Install(v), f)
         /\ \A s \in LastSet : Has(Install(v), s)
         /\ modern => Has(Install(v), "quadlet-install")
         /\ ~Has(Install(v), "final-reload") /\ ~Has(Install(v), "ensure-running")
<1>1. \A s \in QuadletSet \cup CustomSet \cup LastSet : s \notin Removals \cup {"ensure-running"}
  BY DEF QuadletSet, CustomSet, LastSet, Removals
<1>2. "final-reload" \in Removals
  BY DEF Removals
<1> QED
  BY <1>1, <1>2, InstallHas DEF Apart

LEMMA EnableStep ==
  ASSUME IInv, Enable
  PROVE  IInv'
<1>1. config \in Versions /\ "enable" \in Commands
  BY DEF Enable, IInv, TypeOK, Commands
<1> QED
  BY <1>1, InstallBegins, BeginStep DEF Enable

LEMMA StartStep ==
  ASSUME IInv, Start
  PROVE  IInv'
<1> DEFINE a == IF files["container"] = 0 THEN Install(config) ELSE <<>>
           b == <<"ensure-running">>
<1>0. config \in Versions /\ "start" \in Commands /\ Begin("start", config, a \o b)
  BY DEF Start, IInv, TypeOK, Commands
<1>1. /\ a \in Seq(Steps) /\ InOrder(a)
      /\ \A s : Has(a, s) => s \in QuadletSet \cup CustomSet \cup LastSet
      /\ Has(a, "start-host") => /\ \A f \in Needed(config) : Writes(a, f)
                                 /\ \A s \in LastSet : Has(a, s)
                                 /\ modern => Has(a, "quadlet-install")
  BY InstallHas, EmptyHas
<1>2. /\ b \in Seq(Steps) /\ InOrder(b) /\ \A s : Has(b, s) <=> s = "ensure-running"
  BY OneHas DEF Steps
<1> HIDE DEF a, b
<1>3. \A x, y \in Steps : Has(a, x) /\ Has(b, y) => Rank(x) < Rank(y)
  <2>1. \A x \in QuadletSet \cup CustomSet \cup LastSet : Rank(x) < Rank("ensure-running")
    BY DEF QuadletSet, CustomSet, LastSet, Rank
  <2> QED
    BY <1>1, <1>2, <2>1
<1>4. /\ a \o b \in Seq(Steps) /\ InOrder(a \o b)
      /\ \A s : Has(a \o b, s) <=> Has(a, s) \/ Has(b, s)
  BY <1>1, <1>2, <1>3, ConcatHas, ConcatInOrder
<1>5. \A s \in Removals : ~Has(a \o b, s)
  <2>1. \A s \in Removals :
          s \notin QuadletSet \cup CustomSet \cup LastSet \cup {"ensure-running"}
    BY DEF QuadletSet, CustomSet, LastSet, Removals
  <2> QED
    BY <1>1, <1>2, <1>4, <2>1
<1>6. Apart(a \o b) /\ ~Has(a \o b, "final-reload")
  BY <1>5 DEF Apart, Removals
<1>7. Has(a \o b, "start-host") => /\ \A f \in Needed(config) : Writes(a \o b, f)
                                   /\ \A s \in LastSet : Has(a \o b, s)
                                   /\ modern => Has(a \o b, "quadlet-install")
  BY <1>1, <1>2, <1>4 DEF Writes
<1> QED
  BY <1>0, <1>4, <1>6, <1>7, BeginStep

LEMMA DisableStep ==
  ASSUME IInv, Disable
  PROVE  IInv'
<1>1. Apart(Uninstall) /\ ~Has(Uninstall, "start-host")
  BY UninstallHas DEF UninstallSet, Builds, Apart
<1>2. "disable" \in Commands
  BY DEF Commands
<1> QED
  BY <1>1, <1>2, UninstallHas, BeginStep DEF Disable

LEMMA RemoveStaleStep ==
  ASSUME IInv, RemoveStale
  PROVE  IInv'
<1> DEFINE a == Uninstall
           b == AfterUninstall
<1>1. /\ a \in Seq(Steps) /\ InOrder(a) /\ \A s : Has(a, s) => s \in UninstallSet
      /\ Has(a, IF modern THEN "quadlet-rm" ELSE "rm-container")
  BY UninstallHas
<1>2. /\ b \in Seq(Steps) /\ InOrder(b)
      /\ \A s : Has(b, s) => s \in {"rm-f", "reset-failed", "rm-config"}
  BY AfterHas
<1>3. "stale" \in Commands /\ Begin("stale", 0, a \o b)
  BY DEF RemoveStale, Commands
<1> HIDE DEF a, b
<1>4. \A x, y \in Steps : Has(a, x) /\ Has(b, y) => Rank(x) < Rank(y)
  <2>1. \A x \in UninstallSet, y \in {"rm-f", "reset-failed", "rm-config"} : Rank(x) < Rank(y)
    BY DEF UninstallSet, Rank
  <2> QED
    BY <1>1, <1>2, <2>1
<1>5. /\ a \o b \in Seq(Steps) /\ InOrder(a \o b)
      /\ \A s : Has(a \o b, s) <=> Has(a, s) \/ Has(b, s)
  BY <1>1, <1>2, <1>4, ConcatHas, ConcatInOrder
<1>6. \A s \in Builds : ~Has(a \o b, s)
  <2>1. \A s \in Builds : s \notin UninstallSet \cup {"rm-f", "reset-failed", "rm-config"}
    BY DEF UninstallSet, Builds
  <2> QED
    BY <1>1, <1>2, <1>5, <2>1
<1>7. Apart(a \o b) /\ ~Has(a \o b, "start-host")
  BY <1>6 DEF Apart, Builds
<1> QED
  BY <1>1, <1>3, <1>5, <1>7, BeginStep

\* A command that is cut short leaves nothing ahead that needs what it has done.
LEMMA CutShortStep ==
  ASSUME IInv, Interrupt \/ UninstallFails
  PROVE  IInv'
<1>1. /\ UNCHANGED <<modern, config, files, loaded, socket, host, service, failed>>
      /\ todo' \in Seq(Steps) /\ InOrder(todo')
      /\ \A s : Has(todo', s) => s \in {"rm-f", "reset-failed", "rm-config"}
      /\ cmd' \in Commands /\ ver' \in Versions \cup {0}
      /\ missed' \in SUBSET Missable /\ down' = down
  <2>1. CASE Interrupt
    BY <2>1, EmptyHas DEF Interrupt, Carry, disk, systemd, IInv, TypeOK, Commands
  <2>2. CASE UninstallFails
    BY <2>2, AfterHas DEF UninstallFails, disk, systemd, history, IInv, TypeOK
  <2> QED
    BY <2>1, <2>2
<1>2. ~Has(todo', "start-host") /\ ~Has(todo', "final-reload") /\ Apart(todo')
  BY <1>1 DEF Apart, Removals
<1>3. TypeOK'
  BY <1>1 DEF IInv, TypeOK
<1> QED
  BY <1>1, <1>2, <1>3 DEF IInv, Installing, Uninstalling, Removed, Ahead

\* What goes on around a command.
LEMMA AroundStep ==
  ASSUME IInv, UNCHANGED <<modern, files, cmd, ver, todo, missed, down>>,
         config' \in Versions \cup {0}, loaded' \in {loaded, files}, socket' \in BOOLEAN,
         socket => socket', failed' \in BOOLEAN, service' \in Versions \cup {0},
         host' \in {host, 0, loaded["host"]}
  PROVE  IInv'
<1>1. TypeOK'
  BY DEF IInv, TypeOK, Files
<1>2. Installing'
  <2> SUFFICES ASSUME Has(todo, "start-host")
               PROVE  /\ Has(todo, "reload")
                         \/ \A f \in Needed(ver) :
                              files[f] = ver /\ (Unread \/ loaded'[f] = ver)
                      /\ Has(todo, "quadlet-install")
                         \/ \A f \in ReadByPodman \cap Needed(ver) :
                              files[f] = ver /\ loaded'[f] = ver
                      /\ Has(todo, "stop-host") \/ Unstopped \/ host' \in {0, ver}
                      /\ Has(todo, "enable-socket") \/ Unheard \/ socket'
    BY DEF IInv, Installing, Ahead, Unread, Unstopped, Unheard, ReadByPodman
  <2>1. /\ Has(todo, "reload")
           \/ \A f \in Needed(ver) : files[f] = ver /\ (Unread \/ loaded[f] = ver)
        /\ Has(todo, "quadlet-install")
           \/ \A f \in ReadByPodman \cap Needed(ver) : files[f] = ver /\ loaded[f] = ver
        /\ Has(todo, "reload") => Has(todo, "stop-host")
        /\ Has(todo, "stop-host") \/ Unstopped \/ host \in {0, ver}
        /\ Has(todo, "enable-socket") \/ Unheard \/ socket
    BY DEF IInv, Installing, Ahead
  <2>2. "host" \in Needed(ver) /\ (Unread => Unstopped)
    BY DEF Needed, Unread, Unstopped
  <2>3. Has(todo, "stop-host") \/ Unstopped \/ host' \in {0, ver}
    BY <2>1, <2>2
  <2> QED
    BY <2>1, <2>3
<1>3. Uninstalling'
  BY DEF IInv, Uninstalling, Ahead
<1>4. Removed'
  BY DEF IInv, Removed
<1> QED
  BY <1>1, <1>2, <1>3, <1>4 DEF IInv

-----------------------------------------------------------------------------
LEMMA InitInvariant == Init => IInv
<1> SUFFICES ASSUME Init PROVE IInv
  OBVIOUS
<1>0. /\ modern \in BOOLEAN /\ config \in Versions /\ files = NoUnits /\ loaded = NoUnits
      /\ ~socket /\ socket \in BOOLEAN /\ host = 0 /\ service = 0 /\ failed \in BOOLEAN
      /\ cmd = "none" /\ ver = 0 /\ missed = {} /\ ~down /\ down \in BOOLEAN
  BY DEF Init
<1>2. todo = <<>>
  BY DEF Init
<1>3. NoUnits \in [Files -> Versions \cup {0}] /\ "none" \in Commands /\ <<>> \in Seq(Steps)
  BY DEF NoUnits, Commands
<1>1. TypeOK
  BY <1>0, <1>2, <1>3 DEF TypeOK
<1>4. Apart(todo) /\ Installing /\ Uninstalling
  BY <1>2, EmptyHas DEF Apart, Installing, Uninstalling, Ahead
<1>5. Removed
  BY <1>0 DEF Removed
<1> QED
  BY <1>1, <1>2, <1>4, <1>5, EmptyHas DEF IInv

LEMMA StepInvariant == IInv /\ [Next]_vars => IInv'
<1> SUFFICES ASSUME IInv, [Next]_vars PROVE IInv'
  OBVIOUS
<1>0. TypeOK
  BY DEF IInv
<1>1. CASE Commander
  BY <1>1, EnableStep, StartStep, DisableStep, RemoveStaleStep, CutShortStep DEF Commander
<1>2. CASE QuadletInstall \/ Reload \/ \E f \in Files : Write(f)
  BY <1>2, QuadletInstallStep, ReloadStep, WriteStep
<1>3. CASE ResetFailed \/ StopSocket \/ StopHost \/ EnableSocket \/ StartHost
           \/ EnsureRunning \/ ForceRemove \/ RemoveConfig
  BY <1>3, ServeStep
<1>4. CASE QuadletRm \/ FinalReload \/ \E f \in {"build", "container", "socket"} : Remove(f)
  BY <1>4, UninstallStep
<1>11. CASE \E s \in Ignored : Dropped(s)
  BY <1>11, DroppedStep
<1>5. CASE \E v \in Versions \cup {0} : EditConfig(v)
  BY <1>0, <1>5, AroundStep DEF EditConfig, systemd, command, history, TypeOK
<1>6. CASE OtherReload
  BY <1>0, <1>6, AroundStep DEF OtherReload, disk, command, history, TypeOK
<1>7. CASE ServiceEnds
  <2>1. /\ UNCHANGED <<modern, config, files, loaded, host, cmd, ver, todo, missed, down>>
        /\ service' \in {0, loaded["container"]} /\ failed' \in BOOLEAN
    BY <1>7 DEF ServiceEnds, disk, command, history
  <2>3. socket' \in BOOLEAN /\ (socket => socket')
    <3>1. socket' = socket \/ socket' = TRUE
      BY <1>7 DEF ServiceEnds
    <3>2. socket \in BOOLEAN
      BY <1>0 DEF TypeOK
    <3>3. CASE socket' = TRUE
      BY <3>3
    <3>4. CASE socket' = socket
      <4>1. socket' \in BOOLEAN
        BY <3>2, <3>4
      <4>2. socket => socket'
        BY <3>4, Zenon
      <4> QED
        BY <4>1, <4>2
    <3> QED
      BY <3>1, <3>3, <3>4
  <2>2. service' \in Versions \cup {0}
    BY <1>0, <2>1 DEF TypeOK, Files
  <2> QED
    BY <1>0, <2>1, <2>2, <2>3, AroundStep DEF TypeOK
<1>8. CASE HostCrashes
  BY <1>0, <1>8, AroundStep DEF HostCrashes, disk, command, history, TypeOK
<1>9. CASE HostActivated
  BY <1>0, <1>9, AroundStep DEF HostActivated, disk, command, history, TypeOK
<1>10. CASE UNCHANGED vars
  BY <1>0, <1>10, AroundStep DEF vars, disk, systemd, command, history, TypeOK
<1> QED
  BY <1>1, <1>2, <1>3, <1>4, <1>5, <1>6, <1>7, <1>8, <1>9, <1>10, <1>11 DEF Next

LEMMA Invariance == Spec => []IInv
BY InitInvariant, StepInvariant, PTL DEF Spec

-----------------------------------------------------------------------------
(* The results.                                                            *)

\* The last call of an install has all the others behind it.
LEMMA EndsAlone ==
  ASSUME IInv, InstallEnds
  PROVE  /\ Has(todo, "start-host")
         /\ \A s \in {"reload", "quadlet-install", "stop-host", "enable-socket"} : ~Has(todo, s)
<1> DEFINE m == missed \cup ({"start-host"} \cap Missable)
<1>1. missed \in SUBSET Missable /\ m \in SUBSET Missable
  BY DEF IInv, TypeOK
<1>2. Taken("start-host", missed) \/ Taken("start-host", m)
  BY DEF InstallEnds, StartHost, Step, Dropped, Taken
<1> HIDE DEF m
<1>3. /\ Has(todo, "start-host")
      /\ \A x : Has(todo, x) => x = "start-host" \/ Rank("start-host") < Rank(x)
  BY <1>1, <1>2, TakenTakes
<1>4. \A s \in {"reload", "quadlet-install", "stop-host", "enable-socket"} :
        ~(Rank("start-host") < Rank(s))
  BY DEF Rank
<1> QED
  BY <1>3, <1>4

\* Units, versions and steps are what they are taken for, whatever commands are
\* given, cut short and repeated (quadlet_install.rs, main.rs).
THEOREM TypeCorrect == Spec => []TypeOK
<1>1. IInv => TypeOK
  BY DEF IInv
<1> QED
  BY <1>1, Invariance, PTL

\* install: when it is through with its last call, every unit of the definition
\* that was loaded at the beginning is on disk, and is what systemd has read if
\* the reload did not fail unseen, as podman's own are in any case; whichever
\* other calls failed (quadlet_install.rs:25-98).
THEOREM InstallCorrect == Spec => InstallConverges
<1>1. IInv /\ [Next]_vars =>
        [InstallEnds =>
           \A f \in Needed(ver) :
             /\ files'[f] = ver
             /\ "reload" \notin missed \/ f \in ReadByPodman => loaded'[f] = ver]_vars
  <2> SUFFICES ASSUME IInv, InstallEnds, NEW f \in Needed(ver)
               PROVE  /\ files'[f] = ver
                      /\ "reload" \notin missed \/ f \in ReadByPodman => loaded'[f] = ver
    OBVIOUS
  <2>1. Has(todo, "start-host") /\ ~Has(todo, "reload") /\ ~Has(todo, "quadlet-install")
    BY EndsAlone
  <2>2. files' = files /\ loaded' = loaded
    BY DEF InstallEnds, StartHost, Dropped, disk, systemd
  <2> QED
    BY <2>1, <2>2 DEF IInv, Installing, Ahead, Unread
<1> QED
  BY <1>1, Invariance, PTL DEF Spec, InstallConverges

\* install: then also the socket listens and no other definition's host server
\* is behind it, unless the very calls that see to it failed unseen.
THEOREM ServeCorrect == Spec => InstallServes
<1>1. IInv /\ [Next]_vars =>
        [InstallEnds =>
           /\ missed \cap {"reload", "enable-socket"} = {} => socket'
           /\ missed \cap {"reload", "stop-host"} = {} =>
                host' \in (IF StartHost THEN {ver} ELSE {0, ver})]_vars
  <2> SUFFICES ASSUME IInv, InstallEnds
               PROVE  /\ ~Unheard => socket'
                      /\ ~Unstopped => host' \in (IF StartHost THEN {ver} ELSE {0, ver})
    BY DEF Unheard, Unstopped
  <2>1. /\ Has(todo, "start-host") /\ ~Has(todo, "reload") /\ ~Has(todo, "stop-host")
        /\ ~Has(todo, "enable-socket")
    BY EndsAlone
  <2>2. /\ socket' = socket
        /\ StartHost => host' = IF host = 0 THEN loaded["host"] ELSE host
        /\ ~StartHost => host' = host
    BY DEF InstallEnds, StartHost, Dropped, systemd
  <2>3. /\ \A f \in Needed(ver) : Unread \/ loaded[f] = ver
        /\ Unstopped \/ host \in {0, ver}
        /\ Unheard \/ socket
    BY <2>1 DEF IInv, Installing, Ahead
  <2>4. "host" \in Needed(ver) /\ (Unread => Unstopped)
    BY DEF Needed, Unread, Unstopped
  <2> QED
    BY <2>2, <2>3, <2>4
<1> QED
  BY <1>1, Invariance, PTL DEF Spec, InstallServes

\* uninstall: once a removal has run to its end, systemd has no unit to start
\* the container from until it is installed anew, whichever calls failed on the
\* way and whatever is read again since.
THEOREM DisableCorrect == Spec => []DisableStaysDown
<1>1. IInv => DisableStaysDown
  BY DEF IInv, Removed, DisableStaysDown
<1> QED
  BY <1>1, Invariance, PTL
=============================================================================
