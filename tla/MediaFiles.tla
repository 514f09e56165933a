------------------------------ MODULE MediaFiles ------------------------------
(***************************************************************************)
(* The media filesystem as the executors of apply_execution.py,            *)
(* apply_validation.py and rollback_execution.py see it.  A moving member  *)
(* of the contract has an approved source path and an approved destination *)
(* path; what lies at a path is nothing, the approved file (its            *)
(* fingerprint matches the plan), or anything else.                        *)
(***************************************************************************)
EXTENDS Naturals, Sequences, FiniteSets

CONSTANTS
  Members,  \* the moving members of the contract
  Dirs,     \* the directories the approved destinations lie in
  Parent    \* the directory of each member's destination

ASSUME ParentAssumption == Parent \in [Members -> Dirs]

VARIABLES
  src,      \* what lies at each member's approved source path
  dst,      \* what lies at each member's approved destination path
  dir       \* what lies at each destination directory's path

files == <<src, dst, dir>>

\* "media" is a regular file for which _fingerprint_matches holds; a changed
\* file, a link or a directory in its place is "foreign".
Contents == {"absent", "media", "foreign"}

FilesTypeOK ==
  /\ src \in [Members -> Contents]
  /\ dst \in [Members -> Contents]
  /\ dir \in [Dirs -> {"missing", "directory", "link"}]
  /\ \A m \in Members : dir[Parent[m]] = "missing" => dst[m] = "absent"

\* The plan was checked against the library, and nothing has moved yet.
FilesInit ==
  /\ src = [m \in Members |-> "media"]
  /\ dst = [m \in Members |-> "absent"]
  /\ dir \in [Dirs -> {"missing", "directory"}]

-------------------------------------------------------------------------------
(* Reads. *)

\* _safe_existing_path of the destination: every parent a real directory.
SafeParent(m) == dir[Parent[m]] = "directory"

\* _verify_destination, and rollback's member state "pending".
Organized(m) == SafeParent(m) /\ src[m] = "absent" /\ dst[m] = "media"

\* _verify_source, and rollback's member state "restored".
Restored(m) == SafeParent(m) /\ src[m] = "media" /\ dst[m] = "absent"

\* revalidate_apply_member: a missing destination parent is acceptable, a
\* link in the chain is not.
Revalidates(m) ==
  /\ src[m] = "media"
  /\ dst[m] = "absent"
  /\ dir[Parent[m]] # "link"

-------------------------------------------------------------------------------
(* Writes. *)

\* current.mkdir() of _ensure_parent_directories.
MakeDir(d) ==
  /\ dir[d] = "missing"
  /\ dir' = [dir EXCEPT ![d] = "directory"]
  /\ UNCHANGED <<src, dst>>

\* _atomic_rename_no_replace(source, destination): whatever is at the source
\* path now moves, but only onto a path that is free.
CanMoveOut(m) == src[m] # "absent" /\ dst[m] = "absent" /\ dir[Parent[m]] # "missing"

\* Mutant: the file is copied instead.
CopyOut(m) ==
  /\ CanMoveOut(m)
  /\ dst' = [dst EXCEPT ![m] = src[m]]
  /\ UNCHANGED <<src, dir>>

MoveOut(m) ==
  /\ CanMoveOut(m)
  /\ src' = [src EXCEPT ![m] = "absent"]
  /\ dst' = [dst EXCEPT ![m] = src[m]]
  /\ UNCHANGED dir

\* Mutant: os.replace.
CanReplaceSource(m) == dst[m] # "absent"

\* _atomic_rename_no_replace(destination, source).
CanMoveBack(m) == dst[m] # "absent" /\ src[m] = "absent"

\* Mutant: the file is copied instead.
CopyBack(m) ==
  /\ CanMoveBack(m)
  /\ src' = [src EXCEPT ![m] = dst[m]]
  /\ UNCHANGED <<dst, dir>>

MoveBack(m) ==
  /\ CanMoveBack(m)
  /\ src' = [src EXCEPT ![m] = dst[m]]
  /\ dst' = [dst EXCEPT ![m] = "absent"]
  /\ UNCHANGED dir

\* Another program changes what lies at one path.
Meddle ==
  \/ \E m \in Members, c \in Contents :
       /\ src' = [src EXCEPT ![m] = c]
       /\ UNCHANGED <<dst, dir>>
  \/ \E m \in Members, c \in Contents :
       /\ dir[Parent[m]] # "missing"
       /\ dst' = [dst EXCEPT ![m] = c]
       /\ UNCHANGED <<src, dir>>
  \/ \E d \in Dirs, k \in {"directory", "link"} :
       /\ dir' = [dir EXCEPT ![d] = k]
       /\ UNCHANGED <<src, dst>>

-------------------------------------------------------------------------------
(* What properties say about files. *)

\* The approved file exists once, at one of its two approved paths.
OneCopy(m) ==
  \/ src[m] = "media" /\ dst[m] = "absent"
  \/ src[m] = "absent" /\ dst[m] = "media"

\* A step that only renames, and never onto an occupied path.
OnlyRenames ==
  \A m \in Members :
    \/ src'[m] = src[m] /\ dst'[m] = dst[m]
    \/ src[m] = "absent" /\ dst'[m] = "absent" /\ src'[m] = dst[m]
    \/ dst[m] = "absent" /\ src'[m] = "absent" /\ dst'[m] = src[m]
===============================================================================
