-------------------------------- MODULE RaftData --------------------------------
(***************************************************************************)
(* The values a simpleraft node stores and sends: addresses, log entries,  *)
(* clusters, the messages of the two RPCs, and the read operations of the  *)
(* log (raftlog) and of the peer list (status).                            *)
(*                                                                         *)
(* A Go log index i counts from 0 and LastIndex() is -1 for an empty log;  *)
(* entry i is log[i + 1] of the TLA+ sequence.  A list of addresses is a   *)
(* multiset (address -> multiplicity): its order never matters to the      *)
(* protocol, its length and its duplicates do.                             *)
(***************************************************************************)
EXTENDS Integers, Sequences, FiniteSets

CONSTANTS
  Server,      \* addresses at which a raft node can be running
  None,        \* the empty address "", also an entry without a command
  Command      \* client commands (opaque JSON to the protocol)

ASSUME NoneAssumption == None \notin Server

Address == Server \union {None}

-----------------------------------------------------------------------------
(* Clusters: lists of addresses up to order. *)

Cluster == [Address -> Nat]

NoPeers == [a \in Address |-> 0]

ClusterOf(members) == [a \in Address |-> IF a \in members THEN 1 ELSE 0]

\* append(cluster, a)
PlusAddress(cluster, a) == [cluster EXCEPT ![a] = @ + 1]

\* Mutant of WithoutAddress: the address is not filtered out.
WithoutAddress_Keeps(cluster, a) == cluster

\* the addresses other than a, as filtered by the rule handlers
WithoutAddress(cluster, a) == [cluster EXCEPT ![a] = 0]

\* len(PeerAddresses()): the number of occurrences <<address, k-th time>>
Size(cluster) == Cardinality(UNION {{a} \X (1 .. cluster[a]) : a \in Address})

-----------------------------------------------------------------------------
(* Log entries.  Result is not represented: the protocol never reads it. *)

ClusterChangeKinds == {"addServer", "removeServer"}

ClusterChangeCommand ==
  [oldIndex : Int, oldTerm : Int, oldCluster : Cluster, newCluster : Cluster]

LogEntry ==
       [term : Nat, kind : {"noOp"}, body : {None}]
  \cup [term : Nat, kind : {"stateMachineCommand"}, body : Command]
  \cup [term : Nat, kind : ClusterChangeKinds, body : ClusterChangeCommand]

NoOpEntry(t) == [term |-> t, kind |-> "noOp", body |-> None]

CommandEntry(t, c) == [term |-> t, kind |-> "stateMachineCommand", body |-> c]

\* Both AddServer and RemoveServer append an entry of kind EntryAddServer.
ChangeEntry(t, record) == [term |-> t, kind |-> "addServer", body |-> record]

IsClusterChange(entry) == entry.kind \in ClusterChangeKinds

IsCommand(entry) == entry.kind = "stateMachineCommand"

\* What json.Unmarshal leaves in the record: an entry that is no cluster
\* change has none of its fields, so the zero record remains.
RecordOf(entry) ==
  IF IsClusterChange(entry) THEN entry.body
  ELSE [oldIndex |-> 0, oldTerm |-> 0, oldCluster |-> NoPeers, newCluster |-> NoPeers]

-----------------------------------------------------------------------------
(* Reading the log. *)

LastIndex(l) == Len(l) - 1

HasEntry(l, i) == i + 1 \in DOMAIN l

EntryAt(l, i) == l[i + 1]

\* term of the entry at i, -1 where log.Get returns nil
TermAt(l, i) == IF HasEntry(l, i) THEN EntryAt(l, i).term ELSE -1

\* the entries with indices i .. j
EntriesFrom(l, i, j) == SubSeq(l, i + 1, j + 1)

\* is a log that ends in (lastTerm, lastIndex) at least as updated as l ?
AsUpdatedAs(lastTerm, lastIndex, l) ==
  \/ l = << >>
  \/ lastTerm > TermAt(l, LastIndex(l))
  \/ lastTerm = TermAt(l, LastIndex(l)) /\ lastIndex >= LastIndex(l)

\* Follow the records of the cluster changes that fall after prev, back to
\* the configuration before them.
RewindStep(l, prev, c) ==
  IF c.index > prev /\ HasEntry(l, c.index)
  THEN LET record == RecordOf(EntryAt(l, c.index))
       IN [index |-> record.oldIndex, term |-> record.oldTerm, cluster |-> record.oldCluster]
  ELSE c

Rewind(l, prev, c) ==
  LET chain[k \in Nat] == IF k = 0 THEN c ELSE RewindStep(l, prev, chain[k - 1])
  IN chain[Len(l) + 1]

-----------------------------------------------------------------------------
(***************************************************************************)
(* Messages.  A request travels over one HTTP POST; its reply comes back   *)
(* on the same connection, so it needs the process that is waiting for it. *)
(* Three fields are not on the wire: `from' of an AppendEntries (the       *)
(* connection's other end; LeaderAddress is never read), `inc' (which      *)
(* process of the sender waits: its number of restarts) and `asked' of a   *)
(* reply (the term of the request it answers).  `from' of a vote is the    *)
(* Address of the reply, which no handler reads.                           *)
(***************************************************************************)
AppendEntriesRequest ==
  [from : Server, to : Server, inc : Nat, term : Nat,
   prevLogIndex : Nat \union {-1}, prevLogTerm : Nat \union {-1},
   entries : Seq(LogEntry), leaderCommitIndex : Nat \union {-1}]

RequestVoteRequest ==
  [from : Server, to : Server, inc : Nat, term : Nat,
   lastLogIndex : Nat \union {-1}, lastLogTerm : Nat \union {-1}]

AppendEntriesReply ==
  [to : Server, inc : Nat, asked : Nat,
   address : Server, success : BOOLEAN, term : Nat]

RequestVoteReply ==
  [from : Server, to : Server, inc : Nat, asked : Nat, voteGranted : BOOLEAN, term : Nat]

=============================================================================
