------------------------------ MODULE BuildLock ------------------------------
(***************************************************************************)
(* When podbox builds a container's image, and when it believes it need    *)
(* not.  `podbox build`, `update`, `start`, `create`, `pull` and `restore` *)
(* of one container share its build context (the Containerfile), its image *)
(* tag and its lock file, which holds the checksum of the definition the   *)
(* image was built from.  Every command can fail or be interrupted between *)
(* any two of its steps, the user edits the definition meanwhile and       *)
(* removes the image behind podbox's back, and nothing keeps two commands  *)
(* apart.                                                                  *)
(*                                                                         *)
(* A definition is abstracted to its version; an image to the version it   *)
(* is an image of; a checksum to the version and whether defaults from the *)
(* image's labels had been put into it before it was computed.             *)
(***************************************************************************)
CONSTANTS
  Versions,   \* versions of the definition
  Plain,      \* those of a prebuilt image that is used as it is
  Layered,    \* those of a prebuilt image with packages built on top
  Labelled,   \* those whose image has labels that change the definition
  Commands    \* podbox processes

None   == "none"
Torn   == "torn"      \* a lock file created, with its content not yet written
Pulled == "pulled"    \* the checksum of an image reference, and its image

ASSUME VersionsAssumption ==
  /\ Plain \subseteq Versions /\ Layered \subseteq Versions
  /\ Labelled \subseteq Versions
  /\ Plain \cap Layered = {}
  /\ Versions \cap {None, Torn, Pulled} = {}

VARIABLES
  def,      \* the definition in the configuration file
  dir,      \* does the build context directory exist?
  file,     \* the definition its Containerfile was generated from
  lock,     \* the lock file
  image,    \* what the local tag stands for
  snapshot, \* what the last snapshot was taken of
  pc,       \* where each command is
  sum,      \* the checksum it will write: of the definition it loaded, or of
            \* the reference it pulled
  got,      \* the definition podman is making the image of for it
  \* history, read by properties only
  own,      \* has no command of another definition written the Containerfile
            \* before podman read it for this one, or touched the tag since?
  sealed    \* has such a command written the lock, with nothing but builds of
            \* the same definition touching lock or tag since?

disk    == <<dir, file, lock>>
process == <<pc, sum, got>>
history == <<own, sealed>>
vars    == <<def, disk, image, snapshot, process, history>>

Prebuilt == Plain \cup Layered
Sum(v, l) == [of |-> v, labels |-> l]

Pc == {"idle", "check", "prepare", "build", "tag", "pull", "mkdir", "digest",
       "create", "write", "retag"}

TypeOK ==
  /\ def \in Versions
  /\ dir \in BOOLEAN
  /\ file \in Versions \cup {None}
  /\ lock \in [of : Versions \cup {None, Torn, Pulled}, labels : BOOLEAN]
  /\ image \in Versions \cup {None, Pulled}
  /\ snapshot \in Versions \cup {None, Pulled}
  /\ pc \in [Commands -> Pc]
  /\ sum \in [Commands -> [of : Versions \cup {None, Pulled}, labels : BOOLEAN]]
  /\ got \in [Commands -> Versions \cup {None}]
  /\ own \in [Commands -> BOOLEAN] /\ sealed \in BOOLEAN
  /\ \A p \in Commands : pc[p] = "tag" => got[p] # None

Init ==
  /\ def \in Versions
  /\ dir = FALSE /\ file = None /\ lock = Sum(None, FALSE) /\ image = None
  /\ snapshot = None
  /\ pc = [p \in Commands |-> "idle"]
  /\ sum = [p \in Commands |-> Sum(None, FALSE)]
  /\ got = [p \in Commands |-> None]
  /\ own = [p \in Commands |-> TRUE] /\ sealed = FALSE

Goto(p, l) == pc' = [pc EXCEPT ![p] = l] /\ UNCHANGED sum

\* The process ends, and with it what it had loaded.
Return(p) ==
  /\ pc' = [pc EXCEPT ![p] = "idle"]
  /\ sum' = [sum EXCEPT ![p] = Sum(None, FALSE)]

\* The commands that make the image of the same definition as p, which has not
\* been upset itself.
Alike(p) == {c \in Commands : own[p] /\ sum[c].of = sum[p].of}

\* The commands at S come to harm, unless they are among the ones spared.
Upset(S, spared) ==
  own' = [c \in Commands |-> own[c] /\ (pc[c] \in S => c \in spared)]

Reading == {"build"}                       \* podman has yet to read the context
Tagged  == {"digest", "create", "write"}   \* the tag is set, the lock is not

-----------------------------------------------------------------------------
(* The commands begin.                                                     *)

\* The definition is loaded, and serialized again for the checksum.
Load(p, labels, l) ==
  /\ pc[p] = "idle"
  /\ pc' = [pc EXCEPT ![p] = l]
  /\ sum' = [sum EXCEPT ![p] = Sum(def, labels)]
  /\ own' = [own EXCEPT ![p] = TRUE]
  /\ UNCHANGED <<def, snapshot, disk, image, got, sealed>>

\* `podbox build`, `build --rebuild` and `update`: the definition gets the
\* defaults of the image's labels if there is an image.  With --rebuild the
\* lock is not read.
Build(p) == \E l \in {"check", "prepare"} : Load(p, image \in Labelled, l)

\* `podbox start` and `create` build only when there is no image; the rest of
\* them is in QuadletUnits.
Start(p) == image = None /\ Load(p, FALSE, "check")

Pull(p) == Load(p, FALSE, "pull")

-----------------------------------------------------------------------------
(* build::run.                                                             *)

\* Mutated: a prebuilt image is skipped whenever it is present.
SkipsPresent(p) == /\ lock.of # None
                   /\ IF sum[p].of \in Prebuilt THEN image # None
                                                ELSE lock = sum[p]

\* The lock has the checksum; for a prebuilt image podman is asked as well.
Skips(p) == lock = sum[p] /\ (sum[p].of \in Prebuilt => image # None)

\* A lock file that does not parse is an error.
Check(p) ==
  /\ pc[p] = "check"
  /\ IF lock.of = Torn \/ Skips(p) THEN Return(p) ELSE Goto(p, "prepare")
  /\ UNCHANGED <<def, snapshot, disk, image, got, history>>

\* The context is written; a plain prebuilt image is pulled and has none.
Prepare(p) ==
  /\ pc[p] = "prepare"
  /\ IF sum[p].of \in Plain
       THEN /\ got' = [got EXCEPT ![p] = sum[p].of]
            /\ Goto(p, "tag")
            /\ UNCHANGED <<dir, file, own>>
       ELSE /\ dir' = TRUE
            /\ file' = sum[p].of
            /\ Goto(p, "build")
            /\ Upset(Reading, Alike(p))
            /\ UNCHANGED got
  /\ UNCHANGED <<def, snapshot, lock, image, sealed>>

\* Mutated: a context without a Containerfile goes unnoticed.
PodmanReadsAnyway(p) ==
  /\ pc[p] = "build"
  /\ got' = [got EXCEPT ![p] = file]
  /\ Goto(p, "tag")
  /\ UNCHANGED <<def, snapshot, disk, image, history>>

\* `podman build` reads the context, and tags the image when it is done.
PodmanReads(p) ==
  /\ pc[p] = "build"
  /\ IF file = None THEN Return(p) ELSE Goto(p, "tag")
  /\ got' = [got EXCEPT ![p] = file]
  /\ UNCHANGED <<def, snapshot, disk, image, history>>

PodmanTags(p) ==
  /\ pc[p] = "tag"
  /\ image' = got[p]
  /\ got' = [got EXCEPT ![p] = None]
  /\ Upset(Tagged, Alike(p))
  /\ sealed' = (sealed /\ own[p] /\ lock.of = sum[p].of)
  /\ Goto(p, "digest")
  /\ UNCHANGED <<def, snapshot, disk>>

\* image_digest inspects the tag.
Digest(p) ==
  /\ pc[p] = "digest"
  /\ IF image = None THEN Return(p) ELSE Goto(p, "create")
  /\ UNCHANGED <<def, snapshot, disk, image, got, history>>

\* lock::write creates the file, which needs the directory ...
LockCreate(p) ==
  /\ pc[p] = "create"
  /\ IF dir THEN lock' = Sum(Torn, FALSE) /\ sealed' = FALSE /\ Goto(p, "write")
            ELSE Return(p) /\ UNCHANGED <<lock, sealed>>
  /\ UNCHANGED <<def, snapshot, dir, file, image, got, own>>

\* Mutated: the definition is loaded again for the lock.
LockWriteReloaded(p) ==
  /\ pc[p] = "write"
  /\ lock' = IF sum[p].of = Pulled THEN sum[p] ELSE Sum(def, FALSE)
  /\ sealed' = own[p]
  /\ Return(p)
  /\ UNCHANGED <<def, snapshot, dir, file, image, got, own>>

\* ... and then writes it.
LockWrite(p) ==
  /\ pc[p] = "write"
  /\ lock' = sum[p]
  /\ sealed' = own[p]
  /\ Return(p)
  /\ UNCHANGED <<def, snapshot, dir, file, image, got, own>>

\* podman or the file system fails, or the user interrupts the command.
Fails(p) ==
  /\ pc[p] # "idle"
  /\ Return(p)
  /\ got' = [got EXCEPT ![p] = None]
  /\ UNCHANGED <<def, snapshot, disk, image, history>>

-----------------------------------------------------------------------------
(* run_pull: the image of the reference is tagged as it is, and the lock   *)
(* written with the checksum of the reference.                             *)

PullTags(p) ==
  /\ pc[p] = "pull"
  /\ image' = IF sum[p].of \in Plain THEN sum[p].of ELSE Pulled
  /\ Upset(Tagged, {}) /\ sealed' = FALSE
  /\ pc' = [pc EXCEPT ![p] = "mkdir"]
  /\ sum' = [sum EXCEPT ![p] = Sum(Pulled, FALSE)]
  /\ UNCHANGED <<def, snapshot, disk, got>>

PullMakesDir(p) ==
  /\ pc[p] = "mkdir"
  /\ dir' = TRUE
  /\ Goto(p, "digest")
  /\ UNCHANGED <<def, snapshot, file, lock, image, got, history>>

-----------------------------------------------------------------------------
(* Snapshots.                                                              *)

\* `podbox snapshot` commits the container.  (That of a container older than the
\* tag might as well have been taken before the tag was set.)
Snapshot == /\ image # None
            /\ snapshot' = image
            /\ UNCHANGED <<def, disk, image, process, history>>

\* run_restore: with a snapshot there, the container is stopped ...
Restore(p) == snapshot # None /\ Load(p, FALSE, "retag")

\* ... and the snapshot gets the image's tag.  The lock is left as it is.
Retag(p) ==
  /\ pc[p] = "retag"
  /\ image' = snapshot
  /\ Upset(Tagged, {}) /\ sealed' = FALSE
  /\ Return(p)
  /\ UNCHANGED <<def, snapshot, disk, got>>

-----------------------------------------------------------------------------
(* The surroundings.                                                       *)

Edit(v) == /\ v # def /\ def' = v
           /\ UNCHANGED <<snapshot, disk, image, process, history>>

\* `podman rmi`, or a prune.
RemoveImage == /\ image # None
               /\ image' = None /\ Upset(Tagged, {}) /\ sealed' = FALSE
               /\ UNCHANGED <<def, snapshot, disk, process>>

\* The build context is cleared, as the troubleshooting page advises (never
\* while a lock is being written into it: a bound of the model).
ClearContext == /\ dir /\ \A p \in Commands : pc[p] # "write"
                /\ dir' = FALSE /\ file' = None /\ lock' = Sum(None, FALSE)
                /\ sealed' = FALSE
                /\ UNCHANGED <<def, snapshot, image, process, own>>

CommandStep(p) == Build(p) \/ Start(p) \/ Pull(p) \/ Check(p) \/ Prepare(p)
                  \/ PodmanReads(p) \/ PodmanTags(p) \/ Digest(p)
                  \/ LockCreate(p) \/ LockWrite(p) \/ Fails(p)
                  \/ PullTags(p) \/ PullMakesDir(p) \/ Restore(p) \/ Retag(p)

Next == \/ \E p \in Commands : CommandStep(p)
        \/ \E v \in Versions : Edit(v)
        \/ Snapshot \/ RemoveImage \/ ClearContext

Spec == Init /\ [][Next]_vars

-----------------------------------------------------------------------------
(* Properties, of any number of commands at a time.                        *)

\* Whatever was edited, reverted, interrupted, failed, pulled, cleared and
\* built again: a lock that stands as its command wrote it is over the image
\* of the definition whose checksum it has, provided that nobody building
\* another definition wrote the Containerfile between that command's writing
\* it and podman's reading it, and that no pull, restore, removal or build of
\* another definition has touched the tag since.  So builds of one definition
\* do each other no harm, however their steps mix; those of two can, in these
\* two windows and nowhere else.
LockMeansImage == sealed /\ lock.of \in Versions => image = lock.of

\* A build that is skipped has left the user the image of the definition as it
\* is now, unless the tag was set or removed after the lock was last written,
\* or the lock was written by a command that was upset as above.
SkipIsTrue ==
  [][\A p \in Commands :
       Check(p) /\ Skips(p) /\ sealed => image = sum[p].of]_vars
=============================================================================
