----------------------------- MODULE UpdateLog -----------------------------
(***************************************************************************)
(* What the persistence layer promises about the history of one document,  *)
(* whatever the interleaving of requests and jobs: versions are handed out *)
(* one at a time, an update enters the log under the version it was        *)
(* written at and is never rewritten, and compaction removes only a prefix *)
(* that leaves the Keep most recent versions alone.                        *)
(*                                                                         *)
(* DocStore implements this specification; its README section says how.    *)
(***************************************************************************)
EXTENDS Naturals

CONSTANTS Update,   \* the CRDT operations clients can produce
          Keep      \* DOC_UPDATE_KEEP: the versions compaction may not touch

VARIABLES version,  \* documents.version
          log       \* the docupdates collection

Entry == [seq : Nat, delta : SUBSET Update]

LogInit == version = 0 /\ log = {}

(* A write: the next version is taken and logged in one transaction.       *)
Append(delta) ==
  /\ version' = version + 1
  /\ log' = log \cup {[seq |-> version + 1, delta |-> delta]}

(* A manual snapshot takes a version and logs nothing.                     *)
Skip == version' = version + 1 /\ UNCHANGED log

(* Compaction: a prefix of the log goes, the last Keep versions stay.      *)
Prune(upTo) ==
  /\ upTo + Keep <= version
  /\ log' = {e \in log : e.seq > upTo}
  /\ UNCHANGED version

LogNext == \/ \E delta \in SUBSET Update : Append(delta)
           \/ Skip
           \/ \E upTo \in 0..version : Prune(upTo)

LogSpec == LogInit /\ [][LogNext]_<<version, log>>
=============================================================================
