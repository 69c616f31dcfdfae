------------------------ MODULE LinuxExt4ImageDriver ------------------------
(***************************************************************************)
(* The driver of ext4 image files.  Every mutation is an invocation of the *)
(* native helper; a driver operation is a program of them, run under the   *)
(* locks of its image and mount path.  What the host and the image keep is *)
(* held twice: live, as a reader sees it, and kept, as a loss of power     *)
(* leaves it at least.                                                     *)
(***************************************************************************)
EXTENDS ProviderOperations

CONSTANT MaxTree  \* bound: versions of the content of one root
ASSUME ImageDriverAssumption == MaxTree \in Nat \ {0}

VARIABLE disk  \* disk[s]: image file, mount directory, loops, mount, content

\* Roots by path: the writable data root, and the destinations of restores.
DataRoot == 1
Roots == 1 .. MaxEpoch
Absent == 0  \* content of a root that does not exist; 1 is an empty one

Nothing == [image |-> "none", dir |-> FALSE, control |-> FALSE,
            tree |-> [r \in Roots |-> Absent]]
NoDisk == [live |-> Nothing, kept |-> Nothing, loops |-> 0, mounted |-> FALSE]

-----------------------------------------------------------------------------
\* Observations.
openImageAuthority(d) == d.live.image # "none"
openDirectoryAuthority(d) == d.live.dir
readMountEvidence(d) == d.mounted
\* find-loop: more than one loop of an image is ambiguous.
loopsForImage(d) == d.loops
observeMount(d) == /\ readMountEvidence(d) /\ openImageAuthority(d)
                   /\ loopsForImage(d) = 1
observeAttachmentRoot(d, r) == observeMount(d) /\ d.live.tree[r] # Absent

\* The content of the file system, as far as syncfs makes it durable.
syncfs(d) == [d EXCEPT !.kept.control = d.live.control,
                       !.kept.tree = d.live.tree]

-----------------------------------------------------------------------------
\* Helper invocations: the disks a successful one may leave, none if it has to
\* refuse.
createImage(d) ==
    IF openImageAuthority(d) THEN {}
    ELSE {[d EXCEPT !.live.image = "blank", !.kept.image = "blank"]}
formatExt4(d) ==
    IF d.live.image = "none" THEN {}
    ELSE {[d EXCEPT !.live.image = "ext4", !.kept.image = "ext4"]}
createMountPath(d) ==
    IF d.live.dir THEN {}
    ELSE {[d EXCEPT !.live.dir = TRUE, !.kept.dir = TRUE]}
attachLoop(d) ==
    IF openImageAuthority(d) THEN {[d EXCEPT !.loops = @ + 1]} ELSE {}
mountExt4(d) ==
    IF d.live.image = "ext4" /\ openDirectoryAuthority(d) /\ ~d.mounted
       /\ d.loops # 0
    THEN {[d EXCEPT !.mounted = TRUE]} ELSE {}

\* Without an expected identity the control file is created or adopted, with
\* one it is only verified; it is synced either way.
ensurePublicationRoot(d, expected) ==
    IF observeMount(d) /\ (expected => d.live.control)
    THEN {[d EXCEPT !.live.control = TRUE, !.kept.control = TRUE]} ELSE {}

\* The root must be empty; only a new one is synced.
ensureAttachmentRoot(d, r) ==
    IF ~observeMount(d) THEN {}
    ELSE CASE d.live.tree[r] = Absent ->
                {[d EXCEPT !.live.tree[r] = 1, !.kept.tree[r] = 1]}
           [] d.live.tree[r] = 1 -> {d}
           [] OTHER -> {}

syncFilesystem(d) == IF observeMount(d) THEN {syncfs(d)} ELSE {}
unmountExt4(d) ==
    IF observeMount(d) THEN {[syncfs(d) EXCEPT !.mounted = FALSE]} ELSE {}
detachLoop(d) ==
    IF ~d.mounted /\ openImageAuthority(d) /\ d.loops = 1
    THEN {[d EXCEPT !.loops = 0]} ELSE {}
removeImage(d) ==
    IF openImageAuthority(d) /\ d.loops = 0
    THEN {[d EXCEPT !.live.image = "none", !.kept.image = "none"]} ELSE {}
removeDirectory(d) ==
    IF openDirectoryAuthority(d) /\ ~d.mounted
    THEN {[d EXCEPT !.live.dir = FALSE, !.kept.dir = FALSE]} ELSE {}

invokeFdOperation(d, f) ==
    CASE f.name = "create-image"     -> createImage(d)
      [] f.name = "format-ext4"      -> formatExt4(d)
      [] f.name = "create-directory" -> createMountPath(d)
      [] f.name = "attach-loop"      -> attachLoop(d)
      [] f.name = "mount-ext4"       -> mountExt4(d)
      [] f.name = "publication-root" -> ensurePublicationRoot(d, f.arg = 1)
      [] f.name = "attachment-root"  -> ensureAttachmentRoot(d, f.arg)
      [] f.name = "syncfs"           -> syncFilesystem(d)
      [] f.name = "unmount-ext4"     -> unmountExt4(d)
      [] f.name = "detach-loop"      -> detachLoop(d)
      [] f.name = "remove-file"      -> removeImage(d)
      [] f.name = "remove-directory" -> removeDirectory(d)
      [] f.name = "find-loop"        -> IF loopsForImage(d) <= 1 THEN {d} ELSE {}
      [] f.name = "observe-mount"    -> IF observeMount(d) THEN {d} ELSE {}
      [] f.name = "observe-root"     -> IF observeAttachmentRoot(d, f.arg)
                                        THEN {d} ELSE {}

\* What an invocation may leave that fails, is cut off or is not answered:
\* nothing, its effect unsynced, or its effect.
Partly(d, f) ==
    {d} \cup invokeFdOperation(d, f)
        \cup {[e EXCEPT !.kept = d.kept] : e \in invokeFdOperation(d, f)}

-----------------------------------------------------------------------------
\* Driver operations.
Fd(name) == [name |-> name, arg |-> 0]
FdOn(name, arg) == [name |-> name, arg |-> arg]

provision ==
    <<Fd("create-image"), Fd("format-ext4"), Fd("create-directory"),
      Fd("attach-loop"), Fd("mount-ext4"), Fd("observe-mount"),
      FdOn("publication-root", 0)>>

\* Mutant: the loop that an earlier namespace left is not looked for.
remountAfresh(d) ==
    <<Fd("attach-loop"), Fd("mount-ext4"), Fd("observe-mount"),
      FdOn("publication-root", 1)>>

\* A loop that is still associated with the image is used again.
remount(d) ==
    <<Fd("find-loop")>>
        \o (IF loopsForImage(d) = 0 THEN <<Fd("attach-loop")>> ELSE <<>>)
        \o <<Fd("mount-ext4"), Fd("observe-mount"), FdOn("publication-root", 1)>>

quiesceUnmounted(d) ==
    IF loopsForImage(d) = 0 THEN <<>> ELSE <<Fd("detach-loop")>>
quiesceMounted == <<Fd("syncfs"), Fd("unmount-ext4"), Fd("detach-loop")>>
quiesce(d) ==
    IF readMountEvidence(d) THEN quiesceMounted ELSE quiesceUnmounted(d)
destroy(d) == quiesce(d) \o <<Fd("remove-file"), Fd("remove-directory")>>

-----------------------------------------------------------------------------
\* The end of the mount namespace: the kernel writes the file systems back and
\* keeps the loops.
NamespaceGone(d) == [syncfs(d) EXCEPT !.mounted = FALSE]

\* A loss of power: what was not synced may be there or not.
Survivors(d) ==
    {[image |-> i, dir |-> b, control |-> c, tree |-> t] :
        i \in {d.live.image, d.kept.image}, b \in {d.live.dir, d.kept.dir},
        c \in {d.live.control, d.kept.control},
        t \in {t \in [Roots -> 0 .. MaxTree] :
                 \A r \in Roots : t[r] \in {d.live.tree[r], d.kept.tree[r]}}}
AfterPowerLoss(d) ==
    {[live |-> k, kept |-> k, loops |-> 0, mounted |-> FALSE] :
        k \in Survivors(d)}
=============================================================================
