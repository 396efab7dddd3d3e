--------------------------- MODULE BuildLockProofs ---------------------------
(***************************************************************************)
(* BuildLock for any set of definitions and any number of commands at      *)
(* work on the container at the same time.                                 *)
(***************************************************************************)
EXTENDS BuildLock, TLAPS

USE DEF None, Torn, Pulled

\* What a command in its making of an image relies on, as long as it has not
\* been upset.
Making ==
  \A p \in Commands :
    /\ own[p] /\ pc[p] = "build" => file \in {None, sum[p].of}
    /\ own[p] /\ pc[p] = "tag" => got[p] = sum[p].of
    /\ own[p] /\ pc[p] \in Tagged /\ sum[p].of \in Versions => image = sum[p].of

\* What a command has loaded: a definition, until it has pulled a reference.
Loaded ==
  \A p \in Commands :
    /\ pc[p] \in {"check", "prepare", "build", "tag"} => sum[p].of \in Versions
    /\ pc[p] = "mkdir" => sum[p].of = Pulled

IInv == TypeOK /\ Making /\ Loaded /\ LockMeansImage

-----------------------------------------------------------------------------
\* The state the commands begin in is well typed.
LEMMA InitType == Init => TypeOK
<1> SUFFICES ASSUME Init PROVE TypeOK
  OBVIOUS
<1>1. sum \in [Commands -> [of : Versions \cup {None, Pulled}, labels : BOOLEAN]]
  BY DEF Init, Sum
<1>2. lock \in [of : Versions \cup {None, Torn, Pulled}, labels : BOOLEAN]
  BY DEF Init, Sum
<1> QED
  BY <1>1, <1>2 DEF Init, TypeOK, Pc

\* A process that ends, or that goes on, stays well typed.
LEMMA ReturnType ==
  ASSUME TypeOK, NEW p \in Commands, Return(p)
  PROVE  /\ pc' \in [Commands -> Pc]
         /\ sum' \in [Commands -> [of : Versions \cup {None, Pulled}, labels : BOOLEAN]]
         /\ \A c \in Commands : pc'[c] = "tag" => pc[c] = "tag" /\ c # p
BY DEF Return, Sum, TypeOK, Pc

LEMMA GotoType ==
  ASSUME TypeOK, NEW p \in Commands, NEW l \in Pc \ {"tag"}, Goto(p, l)
  PROVE  /\ pc' \in [Commands -> Pc]
         /\ sum' \in [Commands -> [of : Versions \cup {None, Pulled}, labels : BOOLEAN]]
         /\ \A c \in Commands : pc'[c] = "tag" => pc[c] = "tag" /\ c # p
BY DEF Goto, TypeOK, Pc

LEMMA UpsetType ==
  ASSUME TypeOK, NEW S, NEW spared, Upset(S, spared)
  PROVE  /\ own' \in [Commands -> BOOLEAN]
         /\ \A c \in Commands : own'[c] => own[c] /\ (pc[c] \in S => c \in spared)
BY DEF Upset, TypeOK

\* Every step keeps the types, whatever number of commands is at work.
LEMMA TypeStep == TypeOK /\ Loaded /\ [Next]_vars => TypeOK'
<1> SUFFICES ASSUME TypeOK, Loaded, [Next]_vars PROVE TypeOK'
  OBVIOUS
<1>1. ASSUME NEW p \in Commands, CommandStep(p) PROVE TypeOK'
  <2>1. ASSUME NEW l \in Pc \ {"tag"}, NEW b \in BOOLEAN, Load(p, b, l)
        PROVE  TypeOK'
    BY <2>1 DEF Load, Sum, disk, TypeOK
  <2>2. CASE Build(p)
    <3>1. (image \in Labelled) \in BOOLEAN
      OBVIOUS
    <3> QED
      BY <2>1, <2>2, <3>1 DEF Build, Pc
  <2>3. CASE Start(p)
    BY <2>1, <2>3 DEF Start, Pc
  <2>4. CASE Pull(p)
    BY <2>1, <2>4 DEF Pull, Pc
  <2>5. CASE Check(p)
    BY <2>5, ReturnType, GotoType DEF Check, disk, history, TypeOK, Pc
  <2>6. CASE Prepare(p)
    <3>1. CASE sum[p].of \in Plain
      <4>1. sum[p].of \in Versions
        BY <3>1, VersionsAssumption
      <4>2. got' = [got EXCEPT ![p] = sum[p].of] /\ pc' = [pc EXCEPT ![p] = "tag"]
            /\ UNCHANGED <<def, snapshot, dir, file, lock, image, sum, own, sealed>>
        BY <2>6, <3>1 DEF Prepare, Goto
      <4>3. sum[p].of # None
        BY <4>1, VersionsAssumption
      <4> QED
        BY <4>1, <4>2, <4>3 DEF TypeOK, Pc
    <3>2. CASE sum[p].of \notin Plain
      <4>1. /\ dir' = TRUE /\ file' = sum[p].of /\ Goto(p, "build")
            /\ Upset(Reading, Alike(p))
            /\ UNCHANGED <<def, snapshot, lock, image, got, sealed>>
        BY <2>6, <3>2 DEF Prepare
      <4>2. pc[p] = "prepare"
        BY <2>6 DEF Prepare
      <4> QED
        <5>1. own' \in [Commands -> BOOLEAN]
          BY <4>1, UpsetType
        <5>2. pc' = [pc EXCEPT ![p] = "build"] /\ sum' = sum
          BY <4>1 DEF Goto
        <5>3. sum[p].of \in Versions
          BY <4>2 DEF Loaded
        <5> QED
          BY <4>1, <5>1, <5>2, <5>3 DEF TypeOK, Pc
    <3> QED
      BY <3>1, <3>2
  <2>7. CASE PodmanReads(p)
    <3>1. CASE file = None
      BY <2>7, <3>1, ReturnType DEF PodmanReads, disk, history, TypeOK
    <3>2. CASE file # None
      BY <2>7, <3>2 DEF PodmanReads, Goto, disk, history, TypeOK, Pc
    <3> QED
      BY <3>1, <3>2
  <2>8. CASE PodmanTags(p)
    BY <2>8, GotoType, UpsetType DEF PodmanTags, disk, TypeOK, Pc
  <2>9. CASE Digest(p)
    BY <2>9, ReturnType, GotoType DEF Digest, disk, history, TypeOK, Pc
  <2>10. CASE LockCreate(p)
    <3>1. [of |-> Torn, labels |-> FALSE]
            \in [of : Versions \cup {None, Torn, Pulled}, labels : BOOLEAN]
      OBVIOUS
    <3> QED
      BY <2>10, <3>1, ReturnType, GotoType DEF LockCreate, Sum, TypeOK, Pc
  <2>11. CASE LockWrite(p)
    BY <2>11, ReturnType DEF LockWrite, TypeOK
  <2>12. CASE Fails(p)
    BY <2>12, ReturnType DEF Fails, disk, history, TypeOK
  <2>13. CASE PullTags(p)
    BY <2>13, UpsetType, VersionsAssumption DEF PullTags, Sum, disk, TypeOK, Pc
  <2>14. CASE PullMakesDir(p)
    BY <2>14, GotoType DEF PullMakesDir, history, TypeOK, Pc
  <2>15. CASE Restore(p)
    BY <2>1, <2>15 DEF Restore, Pc
  <2>16. CASE Retag(p)
    BY <2>16, ReturnType, UpsetType DEF Retag, disk, TypeOK
  <2> QED
    BY <1>1, <2>2, <2>3, <2>4, <2>5, <2>6, <2>7, <2>8, <2>9, <2>10, <2>11,
       <2>12, <2>13, <2>14, <2>15, <2>16 DEF CommandStep
<1>2. ASSUME NEW v \in Versions, Edit(v) PROVE TypeOK'
  BY <1>2 DEF Edit, disk, process, history, TypeOK
<1>3. CASE RemoveImage
  BY <1>3, UpsetType DEF RemoveImage, disk, process, TypeOK
<1>4. CASE ClearContext
  BY <1>4 DEF ClearContext, Sum, process, TypeOK
<1>5. CASE Snapshot
  BY <1>5 DEF Snapshot, disk, process, history, TypeOK
<1>6. CASE UNCHANGED vars
  BY <1>6 DEF vars, disk, process, history, TypeOK
<1> QED
  BY <1>1, <1>2, <1>3, <1>4, <1>5, <1>6 DEF Next

-----------------------------------------------------------------------------
\* What the process that takes a step does to itself.
LEMMA ReturnOnly ==
  ASSUME TypeOK, NEW p \in Commands, Return(p)
  PROVE  /\ pc'[p] = "idle"
         /\ \A c \in Commands \ {p} : pc'[c] = pc[c] /\ sum'[c] = sum[c]
BY DEF Return, TypeOK

LEMMA GotoOnly ==
  ASSUME TypeOK, NEW p \in Commands, NEW l, Goto(p, l)
  PROVE  /\ pc'[p] = l /\ sum' = sum
         /\ \A c \in Commands \ {p} : pc'[c] = pc[c]
BY DEF Goto, TypeOK

\* No step, by a command alone or among others, failed, interrupted or run to
\* its end, leaves the lock of one definition over the image of another while
\* both are as an undisturbed command left them.
LEMMA LockStep ==
  ASSUME IInv, [Next]_vars
  PROVE  Making' /\ Loaded' /\ LockMeansImage'
<1> USE DEF IInv
<1>1. ASSUME NEW p \in Commands, CommandStep(p)
      PROVE  Making' /\ Loaded' /\ LockMeansImage'
  <2>1. ASSUME NEW l \in {"check", "prepare", "pull", "retag"}, NEW b \in BOOLEAN,
               Load(p, b, l)
        PROVE  Making' /\ Loaded' /\ LockMeansImage'
    BY <2>1 DEF Load, Sum, disk, Making, Loaded, Tagged, LockMeansImage, TypeOK
  <2>2. CASE Build(p)
    <3>1. (image \in Labelled) \in BOOLEAN
      OBVIOUS
    <3> QED
      BY <2>1, <2>2, <3>1 DEF Build
  <2>3. CASE Start(p)
    BY <2>1, <2>3 DEF Start
  <2>4. CASE Pull(p)
    BY <2>1, <2>4 DEF Pull
  <2>5. CASE Check(p)
    <3>1. UNCHANGED <<def, snapshot, dir, file, lock, image, got, own, sealed>>
      BY <2>5 DEF Check, disk, history
    <3>2. CASE Return(p)
      BY <3>1, <3>2, ReturnOnly DEF Making, Loaded, Tagged, LockMeansImage
    <3>3. CASE Goto(p, "prepare")
      BY <2>5, <3>1, <3>3, GotoOnly DEF Check, Making, Loaded, Tagged, LockMeansImage
    <3> QED
      BY <2>5, <3>2, <3>3 DEF Check
  <2>6. CASE Prepare(p)
    <3>0. pc[p] = "prepare" /\ sum[p].of \in Versions
      BY <2>6 DEF Prepare, Loaded
    <3>1. CASE sum[p].of \in Plain
      <4>1. /\ got' = [got EXCEPT ![p] = sum[p].of] /\ Goto(p, "tag")
            /\ UNCHANGED <<def, snapshot, dir, file, lock, image, own, sealed>>
        BY <2>6, <3>1 DEF Prepare
      <4> QED
        BY <3>0, <4>1, GotoOnly DEF Making, Loaded, Tagged, LockMeansImage, TypeOK
    <3>2. CASE sum[p].of \notin Plain
      <4>1. /\ file' = sum[p].of /\ Goto(p, "build") /\ Upset(Reading, Alike(p))
            /\ UNCHANGED <<def, snapshot, lock, image, got, sealed>>
        BY <2>6, <3>2 DEF Prepare
      <4>2. \A c \in Commands :
               own'[c] => own[c] /\ (pc[c] = "build" => sum[c].of = sum[p].of)
        BY <4>1, UpsetType DEF Reading, Alike
      <4> QED
        BY <3>0, <4>1, <4>2, GotoOnly DEF Making, Loaded, Tagged, LockMeansImage
    <3> QED
      BY <3>1, <3>2
  <2>7. CASE PodmanReads(p)
    <3>1. /\ pc[p] = "build" /\ got' = [got EXCEPT ![p] = file]
          /\ UNCHANGED <<def, snapshot, dir, file, lock, image, own, sealed>>
      BY <2>7 DEF PodmanReads, disk, history
    <3>2. CASE file = None /\ Return(p)
      BY <3>1, <3>2, ReturnOnly DEF Making, Loaded, Tagged, LockMeansImage, TypeOK
    <3>3. CASE file # None /\ Goto(p, "tag")
      BY <3>1, <3>3, GotoOnly DEF Making, Loaded, Tagged, LockMeansImage, TypeOK
    <3> QED
      BY <2>7, <3>2, <3>3 DEF PodmanReads
  <2>8. CASE PodmanTags(p)
    <3>1. /\ pc[p] = "tag" /\ image' = got[p] /\ Goto(p, "digest")
          /\ got' = [got EXCEPT ![p] = None]
          /\ sealed' = (sealed /\ own[p] /\ lock.of = sum[p].of)
          /\ UNCHANGED <<def, snapshot, dir, file, lock>>
      BY <2>8 DEF PodmanTags, disk
    <3>2. \A c \in Commands :
             own'[c] => own[c] /\ (pc[c] \in Tagged => own[p] /\ sum[c].of = sum[p].of)
      BY <2>8, UpsetType DEF PodmanTags, Alike
    <3>3. own[p] => image' = sum[p].of
      BY <3>1 DEF Making
    <3>4. Making' /\ Loaded'
      BY <3>1, <3>2, <3>3, GotoOnly DEF Making, Loaded, Tagged, TypeOK
    <3> QED
      BY <3>1, <3>3, <3>4 DEF LockMeansImage
  <2>9. CASE Digest(p)
    <3>1. /\ pc[p] = "digest"
          /\ UNCHANGED <<def, snapshot, dir, file, lock, image, got, own, sealed>>
      BY <2>9 DEF Digest, disk, history
    <3>2. CASE Return(p)
      BY <3>1, <3>2, ReturnOnly DEF Making, Loaded, Tagged, LockMeansImage
    <3>3. CASE Goto(p, "create")
      BY <3>1, <3>3, GotoOnly DEF Making, Loaded, Tagged, LockMeansImage
    <3> QED
      BY <2>9, <3>2, <3>3 DEF Digest
  <2>10. CASE LockCreate(p)
    <3>1. pc[p] = "create" /\ UNCHANGED <<def, snapshot, dir, file, image, got, own>>
      BY <2>10 DEF LockCreate
    <3>2. CASE Return(p) /\ UNCHANGED <<lock, sealed>>
      BY <3>1, <3>2, ReturnOnly DEF Making, Loaded, Tagged, LockMeansImage
    <3>3. CASE Goto(p, "write") /\ sealed' = FALSE
      BY <3>1, <3>3, GotoOnly DEF Making, Loaded, Tagged, LockMeansImage
    <3> QED
      BY <2>10, <3>2, <3>3 DEF LockCreate
  <2>11. CASE LockWrite(p)
    <3>1. /\ pc[p] = "write" /\ lock' = sum[p] /\ sealed' = own[p] /\ Return(p)
          /\ UNCHANGED <<def, snapshot, dir, file, image, got, own>>
      BY <2>11 DEF LockWrite
    <3> QED
      BY <3>1, ReturnOnly DEF Making, Loaded, Tagged, LockMeansImage
  <2>12. CASE Fails(p)
    <3>1. /\ Return(p) /\ got' = [got EXCEPT ![p] = None]
          /\ UNCHANGED <<def, snapshot, dir, file, lock, image, own, sealed>>
      BY <2>12 DEF Fails, disk, history
    <3> QED
      BY <3>1, ReturnOnly DEF Making, Loaded, Tagged, LockMeansImage, TypeOK
  <2>13. CASE PullTags(p)
    <3>1. /\ pc[p] = "pull" /\ sealed' = FALSE /\ pc' = [pc EXCEPT ![p] = "mkdir"]
          /\ sum' = [sum EXCEPT ![p] = Sum(Pulled, FALSE)]
          /\ UNCHANGED <<def, snapshot, dir, file, lock, got>>
      BY <2>13 DEF PullTags, disk
    <3>2. \A c \in Commands : own'[c] => own[c] /\ pc[c] \notin Tagged
      BY <2>13, UpsetType DEF PullTags
    <3> QED
      BY <3>1, <3>2 DEF Sum, Making, Loaded, Tagged, LockMeansImage, TypeOK
  <2>14. CASE PullMakesDir(p)
    <3>1. /\ pc[p] = "mkdir" /\ Goto(p, "digest") /\ sum[p].of = Pulled
          /\ UNCHANGED <<def, snapshot, file, lock, image, got, own, sealed>>
      BY <2>14 DEF PullMakesDir, history, Loaded
    <3> QED
      BY <3>1, GotoOnly, VersionsAssumption DEF Making, Loaded, Tagged, LockMeansImage
  <2>15. CASE Restore(p)
    BY <2>1, <2>15 DEF Restore
  <2>16. CASE Retag(p)
    <3>1. Return(p) /\ sealed' = FALSE
          /\ UNCHANGED <<def, snapshot, dir, file, lock, got>>
      BY <2>16 DEF Retag, disk
    <3>2. \A c \in Commands : own'[c] => own[c] /\ pc[c] \notin Tagged
      BY <2>16, UpsetType DEF Retag
    <3> QED
      BY <3>1, <3>2, ReturnOnly DEF Making, Loaded, Tagged, LockMeansImage
  <2> QED
    BY <1>1, <2>2, <2>3, <2>4, <2>5, <2>6, <2>7, <2>8, <2>9, <2>10, <2>11,
       <2>12, <2>13, <2>14, <2>15, <2>16 DEF CommandStep
<1>2. ASSUME NEW v \in Versions, Edit(v)
      PROVE  Making' /\ Loaded' /\ LockMeansImage'
  BY <1>2 DEF Edit, disk, process, history, Making, Loaded, LockMeansImage
<1>3. CASE RemoveImage
  <2>1. \A c \in Commands : own'[c] => own[c] /\ pc[c] \notin Tagged
    BY <1>3, UpsetType DEF RemoveImage
  <2> QED
    BY <1>3, <2>1 DEF RemoveImage, disk, process, Making, Loaded, LockMeansImage
<1>4. CASE ClearContext
  BY <1>4 DEF ClearContext, process, Making, Loaded, LockMeansImage
<1>5. CASE Snapshot
  BY <1>5 DEF Snapshot, disk, process, history, Making, Loaded, LockMeansImage
<1>6. CASE UNCHANGED vars
  BY <1>6 DEF vars, disk, process, history, Making, Loaded, LockMeansImage
<1> QED
  BY <1>1, <1>2, <1>3, <1>4, <1>5, <1>6 DEF Next

LEMMA InitIInv == Init => IInv
<1> SUFFICES ASSUME Init PROVE Making /\ Loaded /\ LockMeansImage
  BY InitType DEF IInv
<1> QED
  BY DEF Init, Making, Loaded, Tagged, LockMeansImage

LEMMA Invariance == Spec => []IInv
<1>1. Init => IInv
  BY InitIInv
<1>2. IInv /\ [Next]_vars => IInv'
  BY TypeStep, LockStep DEF IInv
<1> QED
  BY <1>1, <1>2, PTL DEF Spec

-----------------------------------------------------------------------------
\* Type correctness, for any number of concurrent commands.
THEOREM TypeCorrect == Spec => []TypeOK
<1> QED
  BY Invariance, PTL DEF IInv

\* A lock that stands as an undisturbed command wrote it names the definition
\* the image was made from, after any history of edits, failures, interruptions
\* and other commands.
THEOREM LockCorrect == Spec => []LockMeansImage
<1> QED
  BY Invariance, PTL DEF IInv

\* A build that is skipped over such a lock leaves the image of the definition
\* it loaded.
THEOREM SkipCorrect == Spec => SkipIsTrue
<1>1. IInv /\ [Next]_vars =>
        [\A p \in Commands :
           Check(p) /\ Skips(p) /\ sealed => image = sum[p].of]_vars
  <2> SUFFICES ASSUME IInv, NEW p \in Commands, Check(p), Skips(p), sealed
               PROVE  image = sum[p].of
    OBVIOUS
  <2>1. lock = sum[p] /\ sum[p].of \in Versions
    BY DEF Check, Skips, IInv, Loaded
  <2> QED
    BY <2>1 DEF IInv, LockMeansImage
<1> QED
  BY <1>1, Invariance, PTL DEF Spec, SkipIsTrue
=============================================================================
