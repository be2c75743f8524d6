------------------------------- MODULE DurableLog -------------------------------
(***************************************************************************)
(* What a raft log promises to its node: a sequence of entries that is     *)
(* there after every restart and changes at its end only, by one entry at  *)
(* a time, each time entirely or not at all (the interface RaftLog of      *)
(* iface.go, and raftlog.Append and Remove).                               *)
(***************************************************************************)
EXTENDS RaftData

VARIABLE entries

Init == entries = << >>

\* a new last entry
AppendEntry ==
  /\ Len(entries') = Len(entries) + 1
  /\ entries'[Len(entries')] \in LogEntry
  /\ entries' = Append(entries, entries'[Len(entries')])

\* the last entry is gone
RemoveEntry ==
  /\ entries # << >>
  /\ entries' = EntriesFrom(entries, 0, LastIndex(entries) - 1)

Next == AppendEntry \/ RemoveEntry

Spec == Init /\ [][Next]_entries

=============================================================================
