-------------------------------- MODULE RaftLog --------------------------------
(***************************************************************************)
(* The raft log over the key-value storage: one key per entry, one key for *)
(* the last index, a transaction around the two writes of Append and of    *)
(* Remove, and a copy of the last index in memory.  Every write is a step  *)
(* of its own; any of them may fail, and the process may end anywhere.     *)
(*                                                                         *)
(* Storage is taken at the word of storage.go: a transaction's changes are *)
(* seen at once by Get, are persisted together by Commit, and are undone   *)
(* together by Rollback or by the end of the process.                      *)
(***************************************************************************)
EXTENDS RaftData

VARIABLES
  disk,       \* the keys that would be read after a restart
  view,       \* the keys Get sees: as on disk, outside of a transaction
  lastIndex,  \* log.lastIndex, in memory
  entry,      \* the argument of Append
  pc          \* where the operation in progress stands

logVars == <<disk, view, lastIndex, entry, pc>>

\* no key at all: New takes a missing last index for -1
NoKeys == [at |-> << >>, last |-> -1]

LogInit ==
  /\ disk = NoKeys /\ view = NoKeys
  /\ lastIndex = -1
  /\ entry = NoOpEntry(0)
  /\ pc = "idle"

\* the keys "/raft/log/index=...", with one set or deleted
SetKey(at, i, e) == [k \in DOMAIN at \union {i} |-> IF k = i THEN e ELSE at[k]]
DeleteKey(at, i) == [k \in DOMAIN at \ {i} |-> at[k]]

-----------------------------------------------------------------------------
(* Append *)

BeginAppend(e) ==
  /\ pc = "idle"
  /\ pc' = "setEntry" /\ entry' = e
  /\ UNCHANGED <<disk, view, lastIndex>>

SetEntry ==
  /\ pc = "setEntry"
  /\ view' = [view EXCEPT !.at = SetKey(@, lastIndex + 1, entry)]
  /\ lastIndex' = lastIndex + 1
  /\ pc' = "setLastIndex"
  /\ UNCHANGED <<disk, entry>>

SetLastIndex ==
  /\ pc = "setLastIndex"
  /\ view' = [view EXCEPT !.last = lastIndex]
  /\ pc' = "commit"
  /\ UNCHANGED <<disk, lastIndex, entry>>

-----------------------------------------------------------------------------
(* Remove; on an empty log it panics, and no caller gets that far. *)

BeginRemove ==
  /\ pc = "idle" /\ lastIndex # -1
  /\ pc' = "deleteEntry"
  /\ UNCHANGED <<disk, view, lastIndex, entry>>

DeleteEntry ==
  /\ pc = "deleteEntry"
  /\ view' = [view EXCEPT !.at = DeleteKey(@, lastIndex)]
  /\ pc' = "lowerLastIndex"
  /\ UNCHANGED <<disk, lastIndex, entry>>

\* Mutant of LowerLastIndex: counted down by both the write and the counter.
LowerLastIndex_Twice ==
  /\ pc = "lowerLastIndex"
  /\ lastIndex' = lastIndex - 2
  /\ view' = [view EXCEPT !.last = lastIndex - 1]
  /\ pc' = "commit"
  /\ UNCHANGED <<disk, entry>>

LowerLastIndex ==
  /\ pc = "lowerLastIndex"
  /\ view' = [view EXCEPT !.last = lastIndex - 1]
  /\ lastIndex' = lastIndex - 1
  /\ pc' = "commit"
  /\ UNCHANGED <<disk, entry>>

-----------------------------------------------------------------------------
(* The end of a transaction, and of the process. *)

Commit ==
  /\ pc = "commit"
  /\ disk' = view
  /\ pc' = "idle"
  /\ UNCHANGED <<view, lastIndex, entry>>

\* A write returns an error: the deferred function rolls back.  Append has
\* counted lastIndex up by then if it was the second write.
AppendFails ==
  /\ pc \in {"setEntry", "setLastIndex"}
  /\ view' = disk
  /\ pc' = "appendFailed"
  /\ UNCHANGED <<disk, lastIndex, entry>>

\* Mutant of RemoveFails: lastIndex was counted down before the writes.
RemoveFails_CountedDown ==
  /\ pc \in {"deleteEntry", "lowerLastIndex"}
  /\ view' = disk
  /\ pc' = "removeFailed"
  /\ lastIndex' = lastIndex - 1
  /\ UNCHANGED <<disk, entry>>

RemoveFails ==
  /\ pc \in {"deleteEntry", "lowerLastIndex"}
  /\ view' = disk
  /\ pc' = "removeFailed"
  /\ UNCHANGED <<disk, lastIndex, entry>>

\* The caller goes on after a failed Remove (the webapp).
IgnoreError ==
  /\ pc = "removeFailed"
  /\ pc' = "idle"
  /\ UNCHANGED <<disk, view, lastIndex, entry>>

\* The process ends: killed, or by the panic of a caller that was told of an
\* error (the executor).
End ==
  /\ pc # "down"
  /\ view' = disk
  /\ pc' = "down"
  /\ UNCHANGED <<disk, lastIndex, entry>>

\* New, in the next process
Recover ==
  /\ pc = "down"
  /\ lastIndex' = disk.last
  /\ pc' = "idle"
  /\ UNCHANGED <<disk, view, entry>>

\* the steps of an operation that has begun
Proceed == SetEntry \/ SetLastIndex \/ DeleteEntry \/ LowerLastIndex \/ Commit

LogNext ==
  \/ \E e \in LogEntry : BeginAppend(e)
  \/ BeginRemove
  \/ Proceed
  \/ AppendFails \/ RemoveFails \/ IgnoreError
  \/ End \/ Recover

LogSpec == LogInit /\ [][LogNext]_logVars

-----------------------------------------------------------------------------
(* What holds of it. *)

\* the log that would be recovered
Entries == [k \in 1 .. disk.last + 1 |-> disk.at[k - 1]]

\* what a process, or the disk, holds under the keys of the log
IsKeys(keys) ==
  /\ keys = [at |-> keys.at, last |-> keys.last]
  /\ keys.last \in Nat \union {-1}
  /\ keys.at \in [DOMAIN keys.at -> LogEntry]
  /\ DOMAIN keys.at \subseteq Nat

\* The variables hold keys, indices and entries (raftlog.go:21-24).
LogTypeOK ==
  /\ IsKeys(disk) /\ IsKeys(view)
  /\ lastIndex \in Nat \union {-1}
  /\ entry \in LogEntry
  /\ pc \in {"idle", "setEntry", "setLastIndex", "deleteEntry", "lowerLastIndex", "commit",
             "appendFailed", "removeFailed", "down"}

\* Between two operations the last index in memory is the one on disk, and the
\* entries on disk are those from 0 to it, without a gap: also after an error
\* that the webapp ignores (webapp.go:339), although Append counts lastIndex up
\* before its last write (raftlog.go:97) and Remove after it (raftlog.go:169).
LastIndexAgrees ==
  pc = "idle" =>
    /\ lastIndex = disk.last
    /\ DOMAIN disk.at = 0 .. disk.last

Durable == INSTANCE DurableLog WITH entries <- Entries

\* The log on disk changes by whole entries at its end, whatever fails and
\* wherever the process ends (the transactions of raftlog.go:74-104 and 144-171).
DurableSpec == Durable!Spec

=============================================================================
