--------------------------- MODULE VersionedStore ---------------------------
(***************************************************************************)
(* What a registry promises to its readers, whatever it stores: the        *)
(* content it holds and a version number move together.  Every write that  *)
(* changes the content gives it the next version, nothing else touches     *)
(* either, and closing the store empties it for good under a version no    *)
(* reader has seen.  The gateway decides whether to rebuild itself by      *)
(* comparing digests that contain this version and nothing of a disabled   *)
(* entry, so a content change without a new version would go unnoticed.    *)
(***************************************************************************)
EXTENDS Integers

CONSTANT Empty          \* the content of a store nothing was written to

VARIABLES content, version, closed

vars == <<content, version, closed>>

Init ==
  /\ content = Empty
  /\ version = 0
  /\ closed = FALSE

\* The content changes and its version is the next one.
Write ==
  /\ ~closed
  /\ content' # content
  /\ version' = version + 1
  /\ UNCHANGED closed

\* The store is closed: empty from here on, under a version of its own.
Close ==
  /\ ~closed
  /\ closed' = TRUE
  /\ content' = Empty
  /\ version' > version

Next == Write \/ Close

Spec == Init /\ [][Next]_vars
=============================================================================
