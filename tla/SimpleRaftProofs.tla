---------------------------- MODULE SimpleRaftProofs ----------------------------
(***************************************************************************)
(* Theorems about SimpleRaft: every variable keeps its type, terms do not  *)
(* decrease, and logs stay ordered by term, for any number of nodes, any   *)
(* bounds and all faults.                                                  *)
(***************************************************************************)
EXTENDS SimpleRaft, RaftDataProofs

-----------------------------------------------------------------------------
(* Bags. *)

LEMMA BagAddDomain ==
  ASSUME NEW bag, NEW x
  PROVE  DOMAIN BagAdd(bag, x) \subseteq DOMAIN bag \union {x}
BY DEF BagAdd, (+), SetToBag

LEMMA BagRemoveDomain ==
  ASSUME NEW bag, NEW x
  PROVE  DOMAIN BagRemove(bag, x) \subseteq DOMAIN bag
BY DEF BagRemove, (-), SetToBag

LEMMA ToPeersDomain ==
  ASSUME NEW bag, NEW n, NEW requests
  PROVE  DOMAIN ToPeers(bag, n, requests) = DOMAIN bag \union requests
BY DEF ToPeers, (+)

LEMMA ReplyToDomain ==
  ASSUME NEW request, NEW bag, NEW reply
  PROVE  DOMAIN ReplyTo(request, bag, reply) \subseteq DOMAIN bag \union {reply}
BY BagAddDomain DEF ReplyTo

-----------------------------------------------------------------------------
(* What the handlers share. *)

\* the variables of the parts of TypeOK that a follower's handler touches
USE DEF electionVars, clusterVars, progressVars, commitVars, processVars, historyVars,
        voteMsgs, appendMsgs

LEMMA AppendRequestFields ==
  ASSUME AppendTypeOK, NEW m \in DOMAIN aeRequests
  PROVE  /\ m.from \in Server /\ m.to \in Server /\ m.inc \in Nat /\ m.term \in Nat
         /\ m.prevLogIndex \in Nat \union {-1} /\ m.prevLogTerm \in Nat \union {-1}
         /\ m.entries \in Seq(LogEntry) /\ m.leaderCommitIndex \in Nat \union {-1}
BY DEF AppendTypeOK, AppendEntriesRequest

LEMMA VoteRequestFields ==
  ASSUME VoteTypeOK, NEW m \in DOMAIN rvRequests
  PROVE  /\ m.from \in Server /\ m.to \in Server /\ m.inc \in Nat /\ m.term \in Nat
BY DEF VoteTypeOK, RequestVoteRequest

LEMMA ReplyAppendEntriesType ==
  ASSUME AppendTypeOK, NEW n \in Server, NEW m \in DOMAIN aeRequests,
         NEW success \in BOOLEAN, NEW t \in Nat, ReplyAppendEntries(n, m, success, t)
  PROVE  AppendTypeOK'
<1> DEFINE reply == [to |-> m.from, inc |-> m.inc, asked |-> m.term,
                     address |-> n, success |-> success, term |-> t]
<1>1. reply \in AppendEntriesReply
  BY AppendRequestFields DEF AppendEntriesReply
<1>2. DOMAIN aeReplies' \subseteq DOMAIN aeReplies \union {reply}
  BY ReplyToDomain DEF ReplyAppendEntries
<1>3. DOMAIN aeRequests' \subseteq DOMAIN aeRequests
  BY BagRemoveDomain DEF ReplyAppendEntries
<1> QED
  BY <1>1, <1>2, <1>3 DEF AppendTypeOK

LEMMA ReplyRequestVoteType ==
  ASSUME VoteTypeOK, NEW m \in DOMAIN rvRequests,
         NEW granted \in BOOLEAN, NEW t \in Nat, ReplyRequestVote(m, granted, t)
  PROVE  VoteTypeOK'
<1> DEFINE reply == [from |-> m.to, to |-> m.from, inc |-> m.inc, asked |-> m.term,
                     voteGranted |-> granted, term |-> t]
<1>1. reply \in RequestVoteReply
  BY VoteRequestFields DEF RequestVoteReply
<1>2. DOMAIN rvReplies' \subseteq DOMAIN rvReplies \union {reply}
  BY ReplyToDomain DEF ReplyRequestVote
<1>3. DOMAIN rvRequests' \subseteq DOMAIN rvRequests
  BY BagRemoveDomain DEF ReplyRequestVote
<1> QED
  BY <1>1, <1>2, <1>3 DEF VoteTypeOK

LEMMA KeepTypes ==
  ASSUME NEW cluster, NEW next \in [Address -> Int], NEW match \in [Address -> Nat \union {-1}]
  PROVE  /\ KeepNextIndex(next, cluster) \in [Address -> Int]
         /\ KeepMatchIndex(match, cluster) \in [Address -> Nat \union {-1}]
BY DEF KeepNextIndex, KeepMatchIndex

LEMMA SetPeersType ==
  ASSUME ClusterTypeOK, NEW n \in Server, NEW cluster \in Cluster, SetPeers(n, cluster)
  PROVE  /\ peers' \in [Server -> Cluster]
         /\ nextIndex' \in [Server -> [Address -> Int]]
         /\ matchIndex' \in [Server -> [Address -> Nat \union {-1}]]
BY KeepTypes DEF SetPeers, ClusterTypeOK

LEMMA FollowerOnStateChangedType ==
  ASSUME ElectionTypeOK, NEW n \in Server, EnterFollower(n)
  PROVE  /\ state' \in [Server -> Role]
         /\ voteCount' \in [Server -> Nat]
         /\ FollowerOnStateChanged(n) => votedFor' \in [Server -> Address]
BY DEF ElectionTypeOK, EnterFollower, FollowerOnStateChanged, Role, Address

-----------------------------------------------------------------------------
(* The follower's AppendEntries handler. *)

LEMMA ConfigurationsType ==
  ASSUME ClusterTypeOK, LogTypeOK, NEW n \in Server, NEW c \in Configurations(n)
  PROVE  c.index \in Int /\ c.term \in Int /\ c.cluster \in Cluster
<1>1. CASE c = CurrentConfiguration(n)
  BY <1>1, ClusterOperators DEF CurrentConfiguration, ClusterTypeOK, Address
<1>2. CASE c # CurrentConfiguration(n)
  <2>1. PICK k \in DOMAIN log[n] :
          c = [index |-> RecordOf(log[n][k]).oldIndex, term |-> RecordOf(log[n][k]).oldTerm,
               cluster |-> RecordOf(log[n][k]).oldCluster]
    BY <1>2 DEF Configurations
  <2>2. log[n][k] \in LogEntry
    BY ElementOfSeq, LenProperties DEF LogTypeOK
  <2>3. RecordOf(log[n][k]) \in ClusterChangeCommand
    BY <2>2, EntryFields
  <2> QED
    BY <2>1, <2>3 DEF ClusterChangeCommand
<1> QED
  BY <1>1, <1>2

LEMMA ConfigureFromEntriesType ==
  ASSUME ClusterTypeOK, LogTypeOK, AppendTypeOK, NEW n \in Server,
         NEW m \in DOMAIN aeRequests, ConfigureFromEntries(n, m)
  PROVE  ClusterTypeOK'
<1>1. PICK rewound \in Configurations(n) : ConfigureFrom(n, m, rewound)
  BY DEF ConfigureFromEntries
<1>2. rewound.index \in Int /\ rewound.term \in Int /\ rewound.cluster \in Cluster
  BY ConfigurationsType
<1> DEFINE changes == {k \in DOMAIN m.entries : IsClusterChange(m.entries[k])}
           deleted == m.entries # << >> /\ clusterChange[n].index > m.prevLogIndex
           older == WithoutAddress(rewound.cluster, n)
           next == IF deleted THEN KeepNextIndex(nextIndex[n], older) ELSE nextIndex[n]
           match == IF deleted THEN KeepMatchIndex(matchIndex[n], older) ELSE matchIndex[n]
<1>3. older \in Cluster
  BY <1>2, ClusterOperators DEF Address
<1>4. CASE changes = {} /\ ~deleted
  BY <1>1, <1>4 DEF ConfigureFrom, ClusterTypeOK
<1>5. CASE changes = {} /\ deleted
  <2>1. /\ clusterChange' = [clusterChange EXCEPT ![n] =
             [index |-> rewound.index, term |-> rewound.term]]
        /\ SetPeers(n, older)
    BY <1>1, <1>5 DEF ConfigureFrom
  <2> QED
    BY <1>2, <1>3, <2>1, SetPeersType DEF ClusterTypeOK
<1>6. CASE changes # {}
  <2>1. PICK k \in changes :
          /\ clusterChange' = [clusterChange EXCEPT ![n] =
               [index |-> IndexOfEntry(m, k), term |-> m.entries[k].term]]
          /\ peers' = [peers EXCEPT ![n] = WithoutAddress(RecordOf(m.entries[k]).newCluster, n)]
          /\ nextIndex' = [nextIndex EXCEPT ![n] =
               KeepNextIndex(next, WithoutAddress(RecordOf(m.entries[k]).newCluster, n))]
          /\ matchIndex' = [matchIndex EXCEPT ![n] =
               KeepMatchIndex(match, WithoutAddress(RecordOf(m.entries[k]).newCluster, n))]
    BY <1>1, <1>6 DEF ConfigureFrom
  <2>2. m.entries[k] \in LogEntry /\ k \in Nat /\ m.prevLogIndex \in Int
    BY AppendRequestFields, LenProperties, ElementOfSeq
  <2>3. m.entries[k].term \in Nat /\ RecordOf(m.entries[k]).newCluster \in Cluster
    BY <2>2, EntryFields DEF ClusterChangeCommand
  <2>4. WithoutAddress(RecordOf(m.entries[k]).newCluster, n) \in Cluster
    BY <2>3, ClusterOperators DEF Address
  <2>5. next \in [Address -> Int] /\ match \in [Address -> Nat \union {-1}]
    BY KeepTypes DEF ClusterTypeOK
  <2>6. IndexOfEntry(m, k) \in Int
    BY <2>2 DEF IndexOfEntry
  <2> DEFINE newer == WithoutAddress(RecordOf(m.entries[k]).newCluster, n)
  <2>7. KeepNextIndex(next, newer) \in [Address -> Int]
    BY <2>5, KeepTypes
  <2>8. KeepMatchIndex(match, newer) \in [Address -> Nat \union {-1}]
    BY <2>5, KeepTypes
  <2> HIDE DEF next, match
  <2>9. peers' \in [Server -> Cluster]
    BY <2>1, <2>4 DEF ClusterTypeOK
  <2>10. clusterChange' \in [Server -> [index : Int, term : Int]]
    BY <2>1, <2>3, <2>6 DEF ClusterTypeOK
  <2>11. nextIndex' \in [Server -> [Address -> Int]]
    BY <2>1, <2>7 DEF ClusterTypeOK
  <2>12. matchIndex' \in [Server -> [Address -> Nat \union {-1}]]
    BY <2>1, <2>8 DEF ClusterTypeOK
  <2> QED
    BY <2>9, <2>10, <2>11, <2>12 DEF ClusterTypeOK
<1> QED
  BY <1>4, <1>5, <1>6

LEMMA AppendEntriesToLogEffect ==
  ASSUME LogTypeOK, AppendTypeOK, NEW n \in Server, NEW m \in DOMAIN aeRequests,
         Matches(n, m), AppendEntriesToLog(n, m)
  PROVE  /\ log' \in [Server -> Seq(LogEntry)]
         /\ \A s \in Server \ {n} : log'[s] = log[s]
         /\ m.entries = << >> => log' = log
         /\ m.entries # << >> =>
              /\ Len(log'[n]) = m.prevLogIndex + 1 + Len(m.entries)
              /\ \A k \in 1 .. m.prevLogIndex + 1 : log'[n][k] = log[n][k]
              /\ \A k \in 1 .. Len(m.entries) : log'[n][m.prevLogIndex + 1 + k] = m.entries[k]
         /\ m.prevLogIndex + Len(m.entries) <= LastIndex(log'[n])
         /\ m.prevLogIndex <= LastIndex(log[n])
<1> DEFINE kept == EntriesFrom(log[n], 0, m.prevLogIndex)
<1>1. log[n] \in Seq(LogEntry)
  BY DEF LogTypeOK
<1>2. m.prevLogIndex \in Nat \union {-1} /\ m.entries \in Seq(LogEntry)
  BY AppendRequestFields
<1>3. m.prevLogIndex <= LastIndex(log[n])
  BY <1>1, <1>2, TermAtType DEF Matches
<1>4. kept \in Seq(LogEntry) /\ Len(kept) = m.prevLogIndex + 1
      /\ \A k \in 1 .. Len(kept) : kept[k] = log[n][k]
  BY <1>1, <1>2, <1>3, EntriesFromType
<1>5. CASE m.entries = << >>
  BY <1>1, <1>2, <1>3, <1>5 DEF AppendEntriesToLog, LogTypeOK
<1>6. CASE m.entries # << >>
  <2> DEFINE whole == kept \o m.entries
  <2>1. log' = [log EXCEPT ![n] = whole]
    BY <1>6 DEF AppendEntriesToLog
  <2> HIDE DEF kept
  <2>2. /\ whole \in Seq(LogEntry)
        /\ Len(whole) = Len(kept) + Len(m.entries)
        /\ \A k \in 1 .. Len(kept) + Len(m.entries) :
              whole[k] = IF k <= Len(kept) THEN kept[k] ELSE m.entries[k - Len(kept)]
    BY <1>2, <1>4, ConcatProperties
  <2> HIDE DEF whole
  <2>3. Len(m.entries) \in Nat
    BY <1>2, LenProperties
  <2>4. log'[n] = whole /\ log' \in [Server -> Seq(LogEntry)]
    BY <2>1, <2>2 DEF LogTypeOK
  <2>5. ASSUME NEW k \in 1 .. m.prevLogIndex + 1
        PROVE  log'[n][k] = log[n][k]
    <3>1. k \in 1 .. Len(kept) /\ k \in 1 .. Len(kept) + Len(m.entries) /\ k <= Len(kept)
      BY <1>2, <1>4, <2>3
    <3> QED
      BY <1>4, <2>2, <2>4, <3>1
  <2>6. \A k \in 1 .. Len(m.entries) : log'[n][m.prevLogIndex + 1 + k] = m.entries[k]
    <3> DEFINE i(k) == m.prevLogIndex + 1 + k
    <3>1. ASSUME NEW k \in 1 .. Len(m.entries)
          PROVE  i(k) \in 1 .. Len(kept) + Len(m.entries) /\ ~(i(k) <= Len(kept)) /\ i(k) - Len(kept) = k
      BY <1>2, <1>4, <2>3
    <3> HIDE DEF i
    <3>2. ASSUME NEW k \in 1 .. Len(m.entries)
          PROVE  whole[i(k)] = m.entries[k]
      BY <2>2, <3>1
    <3> QED
      BY <2>4, <3>2 DEF i
  <2>7. Len(log'[n]) = m.prevLogIndex + 1 + Len(m.entries)
    BY <1>4, <2>2, <2>4
  <2>8. \A s \in Server \ {n} : log'[s] = log[s]
    BY <2>1 DEF LogTypeOK
  <2>9. m.prevLogIndex + Len(m.entries) <= LastIndex(log'[n])
    BY <1>2, <2>3, <2>7 DEF LastIndex
  <2> QED
    BY <1>3, <1>6, <2>4, <2>5, <2>6, <2>7, <2>8, <2>9
<1> QED
  BY <1>5, <1>6

LEMMA CommitFromLeaderType ==
  ASSUME LogTypeOK, AppendTypeOK, NEW n \in Server, NEW m \in DOMAIN aeRequests,
         Matches(n, m), ~ApplyFails(n, m), AppendEntriesToLog(n, m), CommitFromLeader(n, m)
  PROVE  LogTypeOK'
<1>1. /\ log' \in [Server -> Seq(LogEntry)]
      /\ m.prevLogIndex + Len(m.entries) <= LastIndex(log'[n])
  BY AppendEntriesToLogEffect
<1>2. /\ m.leaderCommitIndex \in Nat \union {-1}
      /\ m.prevLogIndex \in Nat \union {-1}
      /\ Len(m.entries) \in Nat
  BY AppendRequestFields, LenProperties
<1>3. CASE m.leaderCommitIndex > commitIndex[n]
  <2> DEFINE part == EntriesFrom(log'[n], commitIndex[n] + 1, m.leaderCommitIndex - 1)
  <2>1. commitIndex[n] \in Nat \union {-1} /\ LastIndex(log'[n]) \in Int /\ log'[n] \in Seq(LogEntry)
    BY <1>1, LenProperties DEF LogTypeOK, LastIndex
  <2>2. part \in Seq(LogEntry)
    <3>1. CASE m.leaderCommitIndex - 1 > commitIndex[n]
      <4>1. m.leaderCommitIndex - 1 <= LastIndex(log'[n])
        BY <1>1, <1>2, <2>1, <3>1 DEF ApplyFails
      <4> QED
        BY <1>2, <2>1, <4>1, EntriesFromType
    <3>2. CASE ~(m.leaderCommitIndex - 1 > commitIndex[n])
      <4>1. m.leaderCommitIndex - 1 + 1 < commitIndex[n] + 1 + 1
        BY <1>2, <2>1, <3>2
      <4> QED
        BY <1>2, <2>1, <4>1, SubSeqEmpty, EmptySeq DEF EntriesFrom
    <3> QED
      BY <3>1, <3>2
  <2> HIDE DEF part
  <2>3. applied[n] \o part \in Seq(LogEntry)
    BY <2>2, ConcatProperties DEF LogTypeOK
  <2>4. applied' = [applied EXCEPT ![n] = applied[n] \o part] /\ lastApplied' = lastApplied
    BY <1>3 DEF CommitFromLeader, part
  <2>5. Lower(m.leaderCommitIndex, m.prevLogIndex + Len(m.entries)) \in Nat \union {-1}
    BY <1>2 DEF Lower
  <2>6. commitIndex' \in [Server -> Nat \union {-1}]
    BY <1>3, <2>5 DEF CommitFromLeader, LogTypeOK
  <2> QED
    BY <1>1, <2>3, <2>4, <2>6 DEF LogTypeOK
<1>4. CASE ~(m.leaderCommitIndex > commitIndex[n])
  BY <1>1, <1>4 DEF CommitFromLeader, LogTypeOK
<1> QED
  BY <1>3, <1>4

\* The parts of TypeOK apart from the election's, which differ by role.
OthersTypeOK ==
  /\ ClusterTypeOK /\ LogTypeOK /\ ProcessTypeOK /\ VoteTypeOK /\ AppendTypeOK
  /\ HistoryTypeOK

LEMMA FollowerOnAppendEntriesType ==
  ASSUME TypeOK, NEW m \in DOMAIN aeRequests, NEW cur \in Nat,
         \/ FollowerOnAppendEntries(m.to, m, cur)
         \/ FollowerOnAppendEntriesPanics(m.to, m, cur)
  PROVE  currentTerm' \in [Server -> Nat] /\ OthersTypeOK'
<1> DEFINE n == m.to
<1>0. n \in Server /\ m.term \in Nat
  BY AppendRequestFields DEF TypeOK
<1> HIDE DEF n
<1>1. CASE FollowerOnAppendEntries(n, m, cur)
  <2>1. currentTerm' \in [Server -> Nat]
    BY <1>0, <1>1 DEF FollowerOnAppendEntries, Higher, TypeOK, ElectionTypeOK
  <2>2. ProcessTypeOK' /\ VoteTypeOK' /\ HistoryTypeOK'
    BY <1>0, <1>1 DEF FollowerOnAppendEntries, TypeOK, ProcessTypeOK, VoteTypeOK, HistoryTypeOK
  <2>3. AppendTypeOK'
    BY <1>0, <1>1, ReplyAppendEntriesType DEF FollowerOnAppendEntries, TypeOK
  <2>4. ClusterTypeOK' /\ LogTypeOK'
    <3>1. CASE UNCHANGED <<log, clusterVars, progressVars, commitVars>>
      BY <3>1 DEF TypeOK, ClusterTypeOK, LogTypeOK
    <3>2. CASE /\ ~ApplyFails(n, m) /\ Matches(n, m) /\ AppendEntriesToLog(n, m)
               /\ ConfigureFromEntries(n, m) /\ CommitFromLeader(n, m)
      BY <1>0, <3>2, ConfigureFromEntriesType, CommitFromLeaderType DEF TypeOK
    <3> QED
      BY <1>1, <3>1, <3>2, Zenon DEF FollowerOnAppendEntries
  <2> QED
    BY <2>1, <2>2, <2>3, <2>4 DEF OthersTypeOK
<1>2. CASE FollowerOnAppendEntriesPanics(n, m, cur)
  <2>1. currentTerm' \in [Server -> Nat]
    BY <1>0, <1>2 DEF FollowerOnAppendEntriesPanics, TypeOK, ElectionTypeOK
  <2>2. ProcessTypeOK'
    BY <1>0, <1>2 DEF FollowerOnAppendEntriesPanics, Panic, TypeOK, ProcessTypeOK
  <2>3. VoteTypeOK' /\ HistoryTypeOK' /\ ClusterTypeOK' /\ LogTypeOK'
    BY <1>2 DEF FollowerOnAppendEntriesPanics, TypeOK, VoteTypeOK, HistoryTypeOK,
                ClusterTypeOK, LogTypeOK
  <2>4. AppendTypeOK'
    BY <1>2, BagRemoveDomain DEF FollowerOnAppendEntriesPanics, TypeOK, AppendTypeOK
  <2> QED
    BY <2>1, <2>2, <2>3, <2>4 DEF OthersTypeOK
<1> QED
  BY <1>1, <1>2 DEF n

-----------------------------------------------------------------------------
(* Type correctness, handler by handler. *)

LEMMA ForwardAppendEntriesType ==
  ASSUME TypeOK, NEW m \in DOMAIN aeRequests, ForwardAppendEntries(m)
  PROVE  TypeOK'
<1> DEFINE n == m.to
<1>0. n \in Server /\ m.term \in Nat /\ currentTerm[n] \in Nat
  BY AppendRequestFields DEF TypeOK, ElectionTypeOK
<1>1. ASSUME NEW cur \in Nat,
             \/ FollowerOnAppendEntries(n, m, cur)
             \/ FollowerOnAppendEntriesPanics(n, m, cur),
             FollowerOnStateChanged(n) \/ UNCHANGED electionVars
      PROVE  TypeOK'
  <2>1. currentTerm' \in [Server -> Nat] /\ OthersTypeOK'
    BY <1>1, FollowerOnAppendEntriesType
  <2>2. /\ state' \in [Server -> Role]
        /\ voteCount' \in [Server -> Nat]
        /\ votedFor' \in [Server -> Address]
    <3>1. CASE FollowerOnStateChanged(n)
      BY <1>0, <3>1, FollowerOnStateChangedType DEF TypeOK, FollowerOnStateChanged
    <3>2. CASE UNCHANGED electionVars
      BY <3>2 DEF TypeOK, ElectionTypeOK
    <3> QED
      BY <1>1, <3>1, <3>2
  <2> QED
    BY <2>1, <2>2 DEF TypeOK, ElectionTypeOK, OthersTypeOK
<1>2. CASE state[n] = "follower"
  BY <1>0, <1>1, <1>2 DEF ForwardAppendEntries
<1>3. CASE state[n] = "candidate" /\ CandidateOnAppendEntries(n, m)
  <2>1. CASE /\ FollowerOnStateChanged(n)
             /\ \/ FollowerOnAppendEntries(n, m, m.term)
                \/ FollowerOnAppendEntriesPanics(n, m, m.term)
    BY <1>0, <1>1, <2>1
  <2>2. CASE /\ ReplyAppendEntries(n, m, FALSE, currentTerm[n])
             /\ UNCHANGED <<electionVars, currentTerm, clusterVars, progressVars, commitVars,
                            heard, log, processVars, voteMsgs, historyVars>>
    <3>1. AppendTypeOK'
      BY <1>0, <2>2, ReplyAppendEntriesType DEF TypeOK
    <3> QED
      BY <2>2, <3>1 DEF TypeOK, ElectionTypeOK, ClusterTypeOK, LogTypeOK, ProcessTypeOK,
                        VoteTypeOK, HistoryTypeOK
  <2> QED
    BY <1>3, <2>1, <2>2 DEF CandidateOnAppendEntries
<1>4. CASE state[n] = "leader" /\ LeaderOnAppendEntries(n, m)
  <2>1. CASE /\ FollowerOnStateChanged(n)
             /\ \/ FollowerOnAppendEntries(n, m, currentTerm[n])
                \/ FollowerOnAppendEntriesPanics(n, m, currentTerm[n])
    BY <1>0, <1>1, <2>1
  <2>2. CASE /\ aeRequests' = BagRemove(aeRequests, m)
             /\ UNCHANGED <<electionVars, currentTerm, clusterVars, progressVars, commitVars,
                            heard, log, processVars, voteMsgs, aeReplies, historyVars>>
    <3>1. AppendTypeOK'
      BY <2>2, BagRemoveDomain DEF TypeOK, AppendTypeOK
    <3> QED
      BY <2>2, <3>1 DEF TypeOK, ElectionTypeOK, ClusterTypeOK, LogTypeOK, ProcessTypeOK,
                        VoteTypeOK, HistoryTypeOK
  <2> QED
    BY <1>4, <2>1, <2>2 DEF LeaderOnAppendEntries
<1> QED
  BY <1>2, <1>3, <1>4 DEF ForwardAppendEntries

LEMMA FollowerOnRequestVoteType ==
  ASSUME TypeOK, NEW m \in DOMAIN rvRequests, NEW cur \in Nat, NEW voted \in Address,
         FollowerOnRequestVote(m.to, m, cur, voted)
  PROVE  /\ currentTerm' \in [Server -> Nat]
         /\ votedFor' \in [Server -> Address]
         /\ OthersTypeOK'
<1> DEFINE n == m.to
           granted == Grants(n, m, cur, voted)
<1>0. n \in Server /\ m.from \in Address /\ m.term \in Nat
  BY VoteRequestFields DEF TypeOK, Address
<1>1. granted \in BOOLEAN
  BY DEF Grants
<1> HIDE DEF n, granted
<1>2. /\ currentTerm' = [currentTerm EXCEPT ![n] = IF heard[n] THEN cur ELSE Higher(m.term, cur)]
      /\ votedFor' = [votedFor EXCEPT ![n] = IF granted THEN m.from ELSE voted]
      /\ ReplyRequestVote(m, granted, cur)
      /\ UNCHANGED <<log, clusterVars, progressVars, commitVars, heard, processVars,
                     appendMsgs, historyVars>>
  BY DEF FollowerOnRequestVote, n, granted
<1>3. currentTerm' \in [Server -> Nat] /\ votedFor' \in [Server -> Address]
  BY <1>0, <1>2 DEF Higher, TypeOK, ElectionTypeOK
<1>4. VoteTypeOK'
  BY <1>1, <1>2, ReplyRequestVoteType DEF TypeOK
<1> QED
  BY <1>2, <1>3, <1>4 DEF OthersTypeOK, TypeOK, ClusterTypeOK, LogTypeOK, ProcessTypeOK,
                          AppendTypeOK, HistoryTypeOK

LEMMA ForwardRequestVoteType ==
  ASSUME TypeOK, NEW m \in DOMAIN rvRequests, ForwardRequestVote(m)
  PROVE  TypeOK'
<1> DEFINE n == m.to
<1>0. n \in Server /\ m.term \in Nat /\ currentTerm[n] \in Nat /\ votedFor[n] \in Address
      /\ None \in Address
  BY VoteRequestFields DEF TypeOK, ElectionTypeOK, Address
<1>1. ASSUME NEW cur \in Nat, NEW voted \in Address, FollowerOnRequestVote(n, m, cur, voted),
             EnterFollower(n) \/ UNCHANGED <<state, voteCount>>
      PROVE  TypeOK'
  <2>1. /\ currentTerm' \in [Server -> Nat]
        /\ votedFor' \in [Server -> Address]
        /\ OthersTypeOK'
    BY <1>1, FollowerOnRequestVoteType
  <2>2. state' \in [Server -> Role] /\ voteCount' \in [Server -> Nat]
    BY <1>0, <1>1 DEF EnterFollower, Role, TypeOK, ElectionTypeOK
  <2> QED
    BY <2>1, <2>2 DEF TypeOK, ElectionTypeOK, OthersTypeOK
<1>2. ASSUME ReplyRequestVote(m, FALSE, currentTerm[n]),
             UNCHANGED <<electionVars, currentTerm, clusterVars, progressVars, commitVars, heard,
                         log, processVars, appendMsgs, historyVars>>
      PROVE  TypeOK'
  <2>1. VoteTypeOK'
    BY <1>0, <1>2, ReplyRequestVoteType DEF TypeOK
  <2> QED
    BY <1>2, <2>1 DEF TypeOK, ElectionTypeOK, ClusterTypeOK, LogTypeOK, ProcessTypeOK,
                      AppendTypeOK, HistoryTypeOK
<1>3. CASE state[n] = "follower"
  BY <1>0, <1>1, <1>3 DEF ForwardRequestVote
<1>4. CASE state[n] = "candidate" /\ CandidateOnRequestVote(n, m)
  BY <1>0, <1>1, <1>2, <1>4 DEF CandidateOnRequestVote
<1>5. CASE state[n] = "leader" /\ LeaderOnRequestVote(n, m)
  BY <1>0, <1>1, <1>2, <1>5 DEF LeaderOnRequestVote
<1> QED
  BY <1>3, <1>4, <1>5 DEF ForwardRequestVote

LEMMA AppendEntriesToType ==
  ASSUME ElectionTypeOK, LogTypeOK, ProcessTypeOK, NEW n \in Server, NEW a \in Server,
         NEW from \in Nat, NEW prevTerm \in Nat \union {-1}
  PROVE  /\ AppendEntriesTo(n, a, from, prevTerm) \in AppendEntriesRequest
         /\ \A k \in 1 .. Len(AppendEntriesTo(n, a, from, prevTerm).entries) :
              /\ from + k \in DOMAIN log[n]
              /\ AppendEntriesTo(n, a, from, prevTerm).entries[k] = log[n][from + k]
         /\ AppendEntriesTo(n, a, from, prevTerm).term = currentTerm[n]
         /\ AppendEntriesTo(n, a, from, prevTerm).prevLogIndex = from - 1
         /\ AppendEntriesTo(n, a, from, prevTerm).prevLogTerm = prevTerm
<1> DEFINE part == EntriesFrom(log[n], from, LastIndex(log[n]))
<1>1. log[n] \in Seq(LogEntry) /\ Len(log[n]) \in Nat /\ DOMAIN log[n] = 1 .. Len(log[n])
  BY LenProperties DEF LogTypeOK
<1>2. LastIndex(log[n]) \in Int /\ LastIndex(log[n]) <= LastIndex(log[n])
  BY <1>1 DEF LastIndex
<1>3. /\ part \in Seq(LogEntry)
      /\ Len(part) = IF from <= LastIndex(log[n]) THEN LastIndex(log[n]) - from + 1 ELSE 0
      /\ \A k \in 1 .. Len(part) : part[k] = log[n][from + k]
  BY <1>1, <1>2, EntriesFromType
<1> HIDE DEF part
<1>4. \A k \in 1 .. Len(part) : from + k \in DOMAIN log[n]
  BY <1>1, <1>2, <1>3 DEF LastIndex
<1>5. AppendEntriesTo(n, a, from, prevTerm) =
        [from |-> n, to |-> a, inc |-> crashes[n], term |-> currentTerm[n],
         prevLogIndex |-> from - 1, prevLogTerm |-> prevTerm,
         entries |-> part, leaderCommitIndex |-> commitIndex[n]]
  BY DEF AppendEntriesTo, part
<1>6. from - 1 \in Nat \union {-1}
  OBVIOUS
<1>7. crashes[n] \in Nat /\ currentTerm[n] \in Nat /\ commitIndex[n] \in Nat \union {-1}
  BY DEF ProcessTypeOK, ElectionTypeOK, LogTypeOK
<1>8. AppendEntriesTo(n, a, from, prevTerm) \in AppendEntriesRequest
  BY <1>3, <1>5, <1>6, <1>7 DEF AppendEntriesRequest
<1> QED
  BY <1>3, <1>4, <1>5, <1>8

LEMMA HeartbeatType ==
  ASSUME ElectionTypeOK, LogTypeOK, ProcessTypeOK, NEW n \in Server, NEW a \in Server
  PROVE  /\ Heartbeat(n, a) \in AppendEntriesRequest
         /\ Heartbeat(n, a).entries = << >>
<1>1. LastIndex(log[n]) + 1 \in Nat /\ currentTerm[n] \in Nat
  BY LenProperties DEF LogTypeOK, ElectionTypeOK, LastIndex
<1>2. Heartbeat(n, a) \in AppendEntriesRequest
  BY <1>1, AppendEntriesToType DEF Heartbeat
<1>3. LastIndex(log[n]) + 1 < LastIndex(log[n]) + 1 + 1
  BY <1>1
<1>4. Heartbeat(n, a).entries = SubSeq(log[n], LastIndex(log[n]) + 1 + 1, LastIndex(log[n]) + 1)
  BY DEF Heartbeat, AppendEntriesTo, EntriesFrom
<1> QED
  BY <1>1, <1>2, <1>3, <1>4, SubSeqEmpty

LEMMA TickRequestType ==
  ASSUME ElectionTypeOK, ClusterTypeOK, LogTypeOK, ProcessTypeOK, NEW n \in Server,
         NEW a \in Recipients(n), ~TickFails(n)
  PROVE  TickRequest(n, a) \in AppendEntriesRequest
<1>1. a \in Server /\ nextIndex[n][a] \in Int
  BY DEF Recipients, ClusterTypeOK, Address
<1>2. nextIndex[n][a] \in Nat
  BY <1>1 DEF Recipients, TickFails, Address
<1>3. TermAt(log[n], nextIndex[n][a] - 1) \in Nat \union {-1}
  BY <1>1, TermAtType DEF LogTypeOK
<1> QED
  BY <1>1, <1>2, <1>3, AppendEntriesToType, HeartbeatType DEF TickRequest

LEMMA ApplyUpToType ==
  ASSUME LogTypeOK, NEW n \in Server, NEW commit \in Nat \union {-1}, ApplyUpTo(n, commit)
  PROVE  /\ lastApplied' \in [Server -> Nat \union {-1}]
         /\ applied' \in [Server -> Seq(LogEntry)]
<1>1. CASE lastApplied[n] >= commit
  BY <1>1 DEF ApplyUpTo, LogTypeOK
<1>2. CASE ~(lastApplied[n] >= commit)
  <2> DEFINE last == LastIndex(log[n])
             part == EntriesFrom(log[n], lastApplied[n] + 1, Lower(commit, last))
  <2>1. lastApplied[n] \in Nat \union {-1} /\ last \in Nat \union {-1}
    BY LenProperties DEF LogTypeOK, LastIndex
  <2>2. lastApplied' = [lastApplied EXCEPT ![n] = Lower(commit, Higher(lastApplied[n], last) + 1)]
        /\ applied' = [applied EXCEPT ![n] = applied[n] \o part]
    BY <1>2 DEF ApplyUpTo
  <2>3. part \in Seq(LogEntry)
    <3>1. Lower(commit, last) \in Int /\ Lower(commit, last) <= last /\ lastApplied[n] + 1 \in Nat
      BY <2>1 DEF Lower
    <3> QED
      BY <3>1, EntriesFromType DEF LogTypeOK
  <2> HIDE DEF part
  <2>4. applied[n] \o part \in Seq(LogEntry)
    BY <2>3, ConcatProperties DEF LogTypeOK
  <2>5. Lower(commit, Higher(lastApplied[n], last) + 1) \in Nat \union {-1}
    BY <2>1 DEF Lower, Higher
  <2> QED
    BY <2>2, <2>4, <2>5 DEF LogTypeOK
<1> QED
  BY <1>1, <1>2

LEMMA ForwardAppendEntriesReplyType ==
  ASSUME TypeOK, NEW r \in DOMAIN aeReplies, ForwardAppendEntriesReply(r)
  PROVE  TypeOK'
<1> DEFINE n == r.to
<1>0. n \in Server /\ r.term \in Nat /\ r.address \in Address
  BY DEF TypeOK, AppendTypeOK, AppendEntriesReply, Address
<1>1. DOMAIN aeReplies' \subseteq DOMAIN aeReplies
  BY BagRemoveDomain DEF ForwardAppendEntriesReply
<1> HIDE DEF n
<1>2. CASE UNCHANGED <<electionVars, currentTerm, clusterVars, progressVars, commitVars,
                       heard, log, processVars, voteMsgs, aeRequests, historyVars>>
  BY <1>1, <1>2 DEF TypeOK, ElectionTypeOK, ClusterTypeOK, LogTypeOK, ProcessTypeOK,
                    VoteTypeOK, AppendTypeOK, HistoryTypeOK
<1>3. CASE LeaderOnAppendEntriesReply(n, r)
  <2>1. ProcessTypeOK' /\ VoteTypeOK' /\ AppendTypeOK' /\ HistoryTypeOK'
    BY <1>1, <1>3 DEF LeaderOnAppendEntriesReply, TypeOK, ProcessTypeOK, VoteTypeOK,
                      AppendTypeOK, HistoryTypeOK
  <2>2. UNCHANGED <<peers, clusterChange, log>>
    BY <1>3 DEF LeaderOnAppendEntriesReply
  <2>3. CASE /\ currentTerm' = [currentTerm EXCEPT ![n] = r.term]
             /\ FollowerOnStateChanged(n)
             /\ UNCHANGED <<progressVars, commitVars>>
    <3>1. ElectionTypeOK'
      BY <1>0, <2>3, FollowerOnStateChangedType DEF TypeOK, ElectionTypeOK, FollowerOnStateChanged
    <3> QED
      BY <2>1, <2>2, <2>3, <3>1 DEF TypeOK, ClusterTypeOK, LogTypeOK
  <2>4. CASE /\ nextIndex' = [nextIndex EXCEPT ![n][r.address] = @ - 1]
             /\ UNCHANGED <<electionVars, currentTerm, matchIndex, commitVars>>
    <3>1. nextIndex' \in [Server -> [Address -> Int]]
      BY <1>0, <2>4 DEF TypeOK, ClusterTypeOK
    <3> QED
      BY <2>1, <2>2, <2>4, <3>1 DEF TypeOK, ElectionTypeOK, ClusterTypeOK, LogTypeOK
  <2>5. CASE /\ nextIndex' = [nextIndex EXCEPT ![n][r.address] = LastIndex(log[n]) + 1]
             /\ matchIndex' = [matchIndex EXCEPT ![n][r.address] = LastIndex(log[n])]
             /\ AdvanceCommit(n, r.address)
             /\ UNCHANGED <<electionVars, currentTerm>>
    <3>1. LastIndex(log[n]) \in Nat \union {-1} /\ commitIndex[n] \in Nat \union {-1}
      BY <1>0, LenProperties DEF TypeOK, LogTypeOK, LastIndex
    <3>2. ClusterTypeOK'
      BY <1>0, <2>2, <2>5, <3>1 DEF TypeOK, ClusterTypeOK
    <3>3. PICK commit \in Nat \union {-1} :
            commitIndex' = [commitIndex EXCEPT ![n] = commit] /\ ApplyUpTo(n, commit)
      <4>1. CASE commitIndex' = commitIndex /\ ApplyUpTo(n, commitIndex[n])
        BY <1>0, <3>1, <4>1 DEF TypeOK, LogTypeOK
      <4>2. ASSUME NEW i \in (commitIndex[n] + 1) .. LastIndex(log[n]),
                   commitIndex' = [commitIndex EXCEPT ![n] = i], ApplyUpTo(n, i)
            PROVE  \E commit \in Nat \union {-1} :
                     commitIndex' = [commitIndex EXCEPT ![n] = commit] /\ ApplyUpTo(n, commit)
        <5>1. i \in Nat
          BY <3>1
        <5> QED
          BY <4>2, <5>1
      <4> QED
        BY <2>5, <4>1, <4>2 DEF AdvanceCommit
    <3>4. LogTypeOK'
      BY <1>0, <2>2, <3>3, ApplyUpToType DEF TypeOK, LogTypeOK
    <3> QED
      BY <2>1, <2>5, <3>2, <3>4 DEF TypeOK, ElectionTypeOK
  <2> QED
    BY <1>3, <2>3, <2>4, <2>5 DEF LeaderOnAppendEntriesReply
<1> QED
  BY <1>2, <1>3 DEF ForwardAppendEntriesReply, n

LEMMA LeaderOnStateChangedType ==
  ASSUME TypeOK, NEW n \in Server, LeaderOnStateChanged(n)
  PROVE  /\ state' \in [Server -> Role]
         /\ log' = [log EXCEPT ![n] = Append(log[n], NoOpEntry(currentTerm[n]))]
         /\ log' \in [Server -> Seq(LogEntry)]
         /\ nextIndex' \in [Server -> [Address -> Int]]
         /\ matchIndex' \in [Server -> [Address -> Nat \union {-1}]]
         /\ DOMAIN aeRequests' \subseteq AppendEntriesRequest
         /\ elected' \subseteq Nat \X Server
<1>1. currentTerm[n] \in Nat /\ log[n] \in Seq(LogEntry) /\ LastIndex(log[n]) \in Int
  BY LenProperties DEF TypeOK, ElectionTypeOK, LogTypeOK, LastIndex
<1>2. Append(log[n], NoOpEntry(currentTerm[n])) \in Seq(LogEntry)
  BY <1>1, EntryTypes, AppendProperties
<1>3. log' = [log EXCEPT ![n] = Append(log[n], NoOpEntry(currentTerm[n]))]
  BY DEF LeaderOnStateChanged
<1>4. log' \in [Server -> Seq(LogEntry)]
  BY <1>2, <1>3 DEF TypeOK, LogTypeOK
<1>5. state' \in [Server -> Role] /\ elected' \subseteq Nat \X Server
  BY <1>1 DEF LeaderOnStateChanged, TypeOK, ElectionTypeOK, HistoryTypeOK, Role
<1>6. nextIndex' \in [Server -> [Address -> Int]]
  BY <1>1 DEF LeaderOnStateChanged, TypeOK, ClusterTypeOK
<1>7. matchIndex' \in [Server -> [Address -> Nat \union {-1}]]
  BY DEF LeaderOnStateChanged, TypeOK, ClusterTypeOK
<1>8. DOMAIN aeRequests' \subseteq AppendEntriesRequest
  <2>1. DOMAIN aeRequests' = DOMAIN aeRequests \union {Heartbeat(n, a) : a \in Recipients(n)}
    BY ToPeersDomain DEF LeaderOnStateChanged
  <2>2. \A a \in Recipients(n) : Heartbeat(n, a) \in AppendEntriesRequest
    BY HeartbeatType DEF Recipients, TypeOK
  <2> QED
    BY <2>1, <2>2 DEF TypeOK, AppendTypeOK
<1> QED
  BY <1>3, <1>4, <1>5, <1>6, <1>7, <1>8

LEMMA ForwardRequestVoteReplyType ==
  ASSUME TypeOK, NEW r \in DOMAIN rvReplies, ForwardRequestVoteReply(r)
  PROVE  TypeOK'
<1> DEFINE n == r.to
<1>0. n \in Server /\ r.term \in Nat
  BY DEF TypeOK, VoteTypeOK, RequestVoteReply
<1>1. DOMAIN rvReplies' \subseteq DOMAIN rvReplies
  BY BagRemoveDomain DEF ForwardRequestVoteReply
<1> HIDE DEF n
<1>2. CASE UNCHANGED <<electionVars, currentTerm, clusterVars, progressVars, commitVars,
                       heard, log, processVars, rvRequests, appendMsgs, historyVars>>
  BY <1>1, <1>2 DEF TypeOK, ElectionTypeOK, ClusterTypeOK, LogTypeOK, ProcessTypeOK,
                    VoteTypeOK, AppendTypeOK, HistoryTypeOK
<1>3. CASE CandidateOnRequestVoteReply(n, r)
  <2>1. UNCHANGED <<clusterVars, commitVars, heard, processVars, rvRequests, aeReplies,
                    elections, ticks>>
    BY <1>3 DEF CandidateOnRequestVoteReply
  <2>2. ProcessTypeOK' /\ VoteTypeOK'
    BY <1>1, <2>1 DEF TypeOK, ProcessTypeOK, VoteTypeOK
  <2>3. CASE /\ currentTerm' = [currentTerm EXCEPT ![n] = r.term]
             /\ FollowerOnStateChanged(n)
             /\ UNCHANGED <<progressVars, log, aeRequests, elected>>
    <3>1. ElectionTypeOK'
      BY <1>0, <2>3, FollowerOnStateChangedType DEF TypeOK, ElectionTypeOK, FollowerOnStateChanged
    <3> QED
      BY <2>1, <2>2, <2>3, <3>1 DEF TypeOK, ClusterTypeOK, LogTypeOK, AppendTypeOK, HistoryTypeOK
  <2>4. CASE UNCHANGED <<electionVars, currentTerm, progressVars, log, aeRequests, elected>>
    BY <2>1, <2>2, <2>4 DEF TypeOK, ElectionTypeOK, ClusterTypeOK, LogTypeOK, AppendTypeOK,
                            HistoryTypeOK
  <2>5. CASE /\ voteCount' = [voteCount EXCEPT ![n] = @ + 1]
             /\ \/ LeaderOnStateChanged(n)
                \/ UNCHANGED <<state, progressVars, log, aeRequests, elected>>
             /\ UNCHANGED <<votedFor, currentTerm>>
    <3>1. voteCount' \in [Server -> Nat]
      BY <1>0, <2>5 DEF TypeOK, ElectionTypeOK
    <3>2. CASE LeaderOnStateChanged(n)
      BY <1>0, <2>1, <2>2, <2>5, <3>1, <3>2, LeaderOnStateChangedType
         DEF TypeOK, ElectionTypeOK, ClusterTypeOK, LogTypeOK, AppendTypeOK, HistoryTypeOK
    <3>3. CASE UNCHANGED <<state, progressVars, log, aeRequests, elected>>
      BY <2>1, <2>2, <2>5, <3>1, <3>3
         DEF TypeOK, ElectionTypeOK, ClusterTypeOK, LogTypeOK, AppendTypeOK, HistoryTypeOK
    <3> QED
      BY <2>5, <3>2, <3>3
  <2> QED
    BY <1>3, <2>3, <2>4, <2>5, Zenon DEF CandidateOnRequestVoteReply
<1> QED
  BY <1>2, <1>3 DEF ForwardRequestVoteReply, n

LEMMA ForwardTickType ==
  ASSUME TypeOK, NEW n \in Server, ForwardTick(n)
  PROVE  TypeOK'
<1>1. CASE FollowerOnTimeout(n)
  <2> DEFINE Request(a) == [from |-> n, to |-> a, inc |-> crashes[n], term |-> currentTerm[n] + 1,
                            lastLogIndex |-> LastIndex(log[n]),
                            lastLogTerm |-> TermAt(log[n], LastIndex(log[n]))]
  <2>1. /\ elections' = elections + 1
        /\ state' = [state EXCEPT ![n] = "candidate"]
        /\ currentTerm' = [currentTerm EXCEPT ![n] = @ + 1]
        /\ votedFor' = [votedFor EXCEPT ![n] = n]
        /\ voteCount' = [voteCount EXCEPT ![n] = 1]
        /\ rvRequests' = ToPeers(rvRequests, n, {Request(a) : a \in Recipients(n)})
        /\ UNCHANGED <<clusterVars, progressVars, commitVars, heard, log, processVars,
                       rvReplies, appendMsgs, ticks, elected>>
    BY <1>1 DEF FollowerOnTimeout, CandidateOnStateChanged
  <2>2. ElectionTypeOK'
    BY <2>1 DEF TypeOK, ElectionTypeOK, Role, Address
  <2>3. ASSUME NEW a \in Server PROVE Request(a) \in RequestVoteRequest
    <3>1. log[n] \in Seq(LogEntry) /\ currentTerm[n] \in Nat /\ crashes[n] \in Nat
      BY DEF TypeOK, ElectionTypeOK, LogTypeOK, ProcessTypeOK
    <3>2. LastIndex(log[n]) \in Int
      BY <3>1, LenProperties DEF LastIndex
    <3>3. /\ LastIndex(log[n]) \in Nat \union {-1}
          /\ TermAt(log[n], LastIndex(log[n])) \in Nat \union {-1}
      BY <3>1, <3>2, TermAtType
    <3> QED
      BY <3>1, <3>3 DEF RequestVoteRequest
  <2>4. DOMAIN rvRequests' = DOMAIN rvRequests \union {Request(a) : a \in Recipients(n)}
    BY <2>1, ToPeersDomain
  <2>5. VoteTypeOK'
    BY <2>1, <2>3, <2>4 DEF TypeOK, VoteTypeOK, Recipients
  <2>6. UNCHANGED <<clusterVars, progressVars, commitVars, heard, log, processVars, appendMsgs>>
    BY <2>1
  <2>7. ClusterTypeOK' /\ LogTypeOK' /\ ProcessTypeOK' /\ AppendTypeOK'
    BY <2>6 DEF TypeOK, ClusterTypeOK, LogTypeOK, ProcessTypeOK, AppendTypeOK
  <2>8. HistoryTypeOK'
    BY <2>1 DEF TypeOK, HistoryTypeOK
  <2> QED
    BY <2>2, <2>5, <2>7, <2>8 DEF TypeOK
<1>2. CASE CandidateOnTimeout(n)
  <2>1. ElectionTypeOK'
    BY <1>2, FollowerOnStateChangedType
       DEF CandidateOnTimeout, FollowerOnStateChanged, TypeOK, ElectionTypeOK
  <2> QED
    BY <1>2, <2>1 DEF CandidateOnTimeout, TypeOK, ClusterTypeOK, LogTypeOK, ProcessTypeOK,
                      VoteTypeOK, AppendTypeOK, HistoryTypeOK
<1>3. CASE LeaderOnTimeout(n)
  <2>1. AppendTypeOK' /\ ProcessTypeOK'
    <3>1. CASE /\ ~TickFails(n)
               /\ aeRequests' = ToPeers(aeRequests, n, {TickRequest(n, a) : a \in Recipients(n)})
               /\ UNCHANGED up
      <4>1. \A a \in Recipients(n) : TickRequest(n, a) \in AppendEntriesRequest
        BY <3>1, TickRequestType DEF TypeOK
      <4>2. DOMAIN aeRequests' = DOMAIN aeRequests \union {TickRequest(n, a) : a \in Recipients(n)}
        BY <3>1, ToPeersDomain
      <4> QED
        BY <1>3, <3>1, <4>1, <4>2 DEF LeaderOnTimeout, TypeOK, AppendTypeOK, ProcessTypeOK
    <3>2. CASE Panic(n) /\ UNCHANGED aeRequests
      BY <1>3, <3>2 DEF LeaderOnTimeout, Panic, TypeOK, AppendTypeOK, ProcessTypeOK
    <3> QED
      BY <1>3, <3>1, <3>2 DEF LeaderOnTimeout
  <2>2. /\ ticks' = ticks + 1
        /\ UNCHANGED <<electionVars, currentTerm, clusterVars, progressVars, commitVars,
                       log, voteMsgs, elections, elected>>
    BY <1>3 DEF LeaderOnTimeout
  <2>3. ElectionTypeOK' /\ ClusterTypeOK' /\ LogTypeOK' /\ VoteTypeOK'
    BY <2>2 DEF TypeOK, ElectionTypeOK, ClusterTypeOK, LogTypeOK, VoteTypeOK
  <2>4. HistoryTypeOK'
    BY <2>2 DEF TypeOK, HistoryTypeOK
  <2> QED
    BY <2>1, <2>3, <2>4 DEF TypeOK
<1> QED
  BY <1>1, <1>2, <1>3 DEF ForwardTick

LEMMA AppendOwnType ==
  ASSUME LogTypeOK, NEW n \in Server, NEW entry \in LogEntry, AppendOwn(n, entry)
  PROVE  log' \in [Server -> Seq(LogEntry)]
BY AppendProperties DEF AppendOwn, LogTypeOK

\* a cluster change that leads back to the one that change describes
PointsAt(entry, change) ==
  IsClusterChange(entry) =>
    RecordOf(entry).oldIndex = change.index /\ RecordOf(entry).oldTerm = change.term

LEMMA PlainEntries ==
  ASSUME NEW t
  PROVE  /\ ~IsClusterChange(NoOpEntry(t))
         /\ \A c : ~IsClusterChange(CommandEntry(t, c))
BY DEF IsClusterChange, ClusterChangeKinds, NoOpEntry, CommandEntry

LEMMA PlainEntriesPointNowhere ==
  ASSUME NEW t, NEW change
  PROVE  /\ PointsAt(NoOpEntry(t), change)
         /\ \A c : PointsAt(CommandEntry(t, c), change)
BY PlainEntries DEF PointsAt

LEMMA AppendChangeType ==
  ASSUME TypeOK, NEW n \in Server, NEW newCluster \in Cluster, AppendChange(n, newCluster)
  PROVE  /\ log' \in [Server -> Seq(LogEntry)]
         /\ \E entry \in LogEntry : /\ entry.term = currentTerm[n] /\ AppendOwn(n, entry)
                                   /\ PointsAt(entry, clusterChange[n])
<1> DEFINE record == [oldIndex |-> clusterChange[n].index, oldTerm |-> clusterChange[n].term,
                      oldCluster |-> PlusAddress(peers[n], n), newCluster |-> newCluster]
<1>1. currentTerm[n] \in Nat /\ peers[n] \in Cluster
      /\ clusterChange[n].index \in Int /\ clusterChange[n].term \in Int
  BY DEF TypeOK, ElectionTypeOK, ClusterTypeOK
<1>2. record \in ClusterChangeCommand
  BY <1>1, ClusterOperators DEF ClusterChangeCommand, Address
<1>3. PointsAt(ChangeEntry(currentTerm[n], record), clusterChange[n])
  BY DEF PointsAt, ChangeEntry, RecordOf
<1> HIDE DEF record
<1>4. /\ ChangeEntry(currentTerm[n], record) \in LogEntry
      /\ ChangeEntry(currentTerm[n], record).term = currentTerm[n]
  BY <1>1, <1>2, EntryTypes
<1>5. AppendOwn(n, ChangeEntry(currentTerm[n], record))
  BY DEF AppendChange, record
<1> QED
  BY <1>3, <1>4, <1>5, AppendOwnType DEF TypeOK

LEMMA ForwardClientType ==
  ASSUME TypeOK, NEW n \in Server, ForwardClient(n)
  PROVE  TypeOK'
<1>0. peers[n] \in Cluster /\ n \in Address /\ None \in Address /\ currentTerm[n] \in Nat
  BY DEF TypeOK, ClusterTypeOK, ElectionTypeOK, Address
<1>1. ASSUME NEW c \in Command, LeaderOnStateMachineCommand(n, c) PROVE TypeOK'
  <2>1. CommandEntry(currentTerm[n], c) \in LogEntry
    BY <1>0, EntryTypes
  <2>2. log' \in [Server -> Seq(LogEntry)]
    BY <1>1, <2>1, AppendOwnType DEF LeaderOnStateMachineCommand, TypeOK
  <2> QED
    BY <1>1, <2>2 DEF LeaderOnStateMachineCommand, TypeOK, ElectionTypeOK, ClusterTypeOK,
                      LogTypeOK, ProcessTypeOK, VoteTypeOK, AppendTypeOK, HistoryTypeOK
<1>2. ASSUME NEW a \in Server, LeaderOnAddServer(n, a) PROVE TypeOK'
  <2>1. /\ PlusAddress(peers[n], a) \in Cluster
        /\ PlusAddress(PlusAddress(peers[n], n), a) \in Cluster
    BY <1>0, ClusterOperators DEF Address
  <2>2. log' \in [Server -> Seq(LogEntry)]
    BY <1>2, <2>1, AppendChangeType DEF LeaderOnAddServer
  <2>3. ClusterTypeOK'
    <3>1. CASE SetPeers(n, PlusAddress(peers[n], a))
      BY <1>2, <2>1, <3>1, SetPeersType DEF LeaderOnAddServer, TypeOK, ClusterTypeOK
    <3>2. CASE UNCHANGED <<peers, progressVars>>
      BY <1>2, <3>2 DEF LeaderOnAddServer, TypeOK, ClusterTypeOK
    <3> QED
      BY <1>2, <3>1, <3>2 DEF LeaderOnAddServer
  <2>4. UNCHANGED <<electionVars, currentTerm, commitVars, heard, processVars,
                    voteMsgs, appendMsgs, historyVars>>
    BY <1>2 DEF LeaderOnAddServer
  <2> QED
    BY <2>2, <2>3, <2>4 DEF TypeOK, ElectionTypeOK, LogTypeOK, ProcessTypeOK, VoteTypeOK,
                            AppendTypeOK, HistoryTypeOK
<1>3. ASSUME NEW a \in Server, LeaderOnRemoveServer(n, a) PROVE TypeOK'
  <2>1. UNCHANGED <<electionVars, currentTerm, clusterChange, commitVars, heard, crashes,
                    voteMsgs, appendMsgs, historyVars>>
    BY <1>3 DEF LeaderOnRemoveServer
  <2>2. CASE /\ peers[n][a] > 0
             /\ SetPeers(n, [WithoutAddress(peers[n], a) EXCEPT ![None] = @ + peers[n][a] - 1])
             /\ AppendChange(n, WithoutAddress(PlusAddress(peers[n], n), a))
             /\ UNCHANGED up
    <3>1. a \in Address /\ a # None /\ peers[n][a] \in Nat
      BY <1>0, NoneAssumption DEF Address, Cluster
    <3>2. /\ WithoutAddress(peers[n], a) \in Cluster
          /\ WithoutAddress(PlusAddress(peers[n], n), a) \in Cluster
      BY <1>0, <3>1, ClusterOperators
    <3>3. WithoutAddress(peers[n], a)[None] + peers[n][a] - 1 \in Nat
      BY <1>0, <2>2, <3>1, <3>2 DEF Cluster
    <3>4. [WithoutAddress(peers[n], a) EXCEPT ![None] = @ + peers[n][a] - 1] \in Cluster
      BY <1>0, <3>2, <3>3 DEF Cluster
    <3>5. ClusterTypeOK'
      BY <2>1, <2>2, <3>4, SetPeersType DEF TypeOK, ClusterTypeOK
    <3>6. log' \in [Server -> Seq(LogEntry)]
      BY <2>2, <3>2, AppendChangeType
    <3> QED
      BY <2>1, <2>2, <3>5, <3>6 DEF TypeOK, ElectionTypeOK, LogTypeOK, ProcessTypeOK,
                                    VoteTypeOK, AppendTypeOK, HistoryTypeOK
  <2>3. CASE Panic(n) /\ UNCHANGED <<peers, progressVars, log>>
    <3>1. ProcessTypeOK'
      BY <2>1, <2>3 DEF Panic, TypeOK, ProcessTypeOK
    <3> QED
      BY <2>1, <2>3, <3>1 DEF TypeOK, ElectionTypeOK, ClusterTypeOK, LogTypeOK,
                              VoteTypeOK, AppendTypeOK, HistoryTypeOK
  <2> QED
    BY <1>3, <2>2, <2>3 DEF LeaderOnRemoveServer
<1> QED
  BY <1>1, <1>2, <1>3 DEF ForwardClient

LEMMA RestartType ==
  ASSUME TypeOK, NEW n \in Server, Restart(n)
  PROVE  TypeOK'
<1>1. ElectionTypeOK'
  BY FollowerOnStateChangedType DEF Restart, FollowerOnStateChanged, TypeOK, ElectionTypeOK
<1>2. ClusterTypeOK'
  BY DEF Restart, TypeOK, ClusterTypeOK
<1>3. LogTypeOK'
  BY EmptySeq DEF Restart, TypeOK, LogTypeOK
<1>4. ProcessTypeOK' /\ HistoryTypeOK'
  BY DEF Restart, TypeOK, ProcessTypeOK, HistoryTypeOK
<1>5. VoteTypeOK' /\ AppendTypeOK'
  BY DEF Restart, TypeOK, VoteTypeOK, AppendTypeOK
<1> QED
  BY <1>1, <1>2, <1>3, <1>4, <1>5 DEF TypeOK

LEMMA TypeInit == Init => TypeOK
<1> SUFFICES ASSUME Init PROVE TypeOK
  OBVIOUS
<1> USE DEF Init, InitWith
<1>1. ElectionTypeOK
  BY DEF ElectionTypeOK, Role, Address
<1>2. ClusterTypeOK
  <2>1. \A n \in Server : InitialPeers(n) \in Cluster
    BY ClusterOperators DEF InitialPeers, ClusterOf, Cluster
  <2> QED
    BY <2>1 DEF ClusterTypeOK
<1>3. LogTypeOK
  BY EmptySeq DEF LogTypeOK
<1>4. ProcessTypeOK /\ HistoryTypeOK
  BY DEF ProcessTypeOK, HistoryTypeOK
<1>5. DOMAIN EmptyBag = {}
  BY DEF EmptyBag, SetToBag
<1>6. VoteTypeOK /\ AppendTypeOK
  BY <1>5 DEF VoteTypeOK, AppendTypeOK
<1> QED
  BY <1>1, <1>2, <1>3, <1>4, <1>6 DEF TypeOK

LEMMA TypeNext == TypeOK /\ [Next]_vars => TypeOK'
<1> SUFFICES ASSUME TypeOK, [Next]_vars PROVE TypeOK'
  OBVIOUS
<1>1. ASSUME NEW n \in Server, HeardExpires(n) PROVE TypeOK'
  BY <1>1 DEF HeardExpires, TypeOK, ElectionTypeOK, ClusterTypeOK, LogTypeOK, ProcessTypeOK,
              VoteTypeOK, AppendTypeOK, HistoryTypeOK
<1>2. ASSUME NEW n \in Server, StopAndRun(n) PROVE TypeOK'
  <2>1. ElectionTypeOK'
    BY <1>2, FollowerOnStateChangedType
       DEF StopAndRun, FollowerOnStateChanged, TypeOK, ElectionTypeOK
  <2> QED
    BY <1>2, <2>1 DEF StopAndRun, TypeOK, ClusterTypeOK, LogTypeOK, ProcessTypeOK,
                      VoteTypeOK, AppendTypeOK, HistoryTypeOK
<1>3. CASE UNCHANGED vars
  BY <1>3 DEF vars, TypeOK, ElectionTypeOK, ClusterTypeOK, LogTypeOK, ProcessTypeOK,
              VoteTypeOK, AppendTypeOK, HistoryTypeOK
<1> QED
  BY <1>1, <1>2, <1>3, ForwardAppendEntriesType, ForwardRequestVoteType,
     ForwardAppendEntriesReplyType, ForwardRequestVoteReplyType, ForwardTickType,
     ForwardClientType, RestartType DEF Next

\* Every variable keeps its type.  Beyond the types proper this says that no
\* handler slices a log or a message beyond its ends: a follower's deletion and
\* application (follower.go:92-137, 182-200), a leader's AppendEntries
\* (leader.go:238-251) and its application (leader.go:407-421).
THEOREM TypeCorrect == Spec => []TypeOK
<1> QED
  BY TypeInit, TypeNext, PTL DEF Spec

-----------------------------------------------------------------------------
(***************************************************************************)
(* What a step does to terms, logs and requests, whichever handler takes   *)
(* it.  The theorems below rest on these three facts and not on the        *)
(* handlers.                                                               *)
(***************************************************************************)
TermsGrow == \A n \in Server : currentTerm'[n] >= currentTerm[n]

AppendsOwn(n, entry) ==
  /\ log' = [log EXCEPT ![n] = Append(log[n], entry)]
  /\ PointsAt(entry, clusterChange[n])
  /\ entry.term = currentTerm[n]
  /\ UNCHANGED <<currentTerm, clusterChange>>
  /\ \/ Len(SelectSeq(log[n], IsClusterChange)) < MaxChanges
     \/ ~IsClusterChange(entry) /\ UNCHANGED peers

TakesOver(m) ==
  /\ Matches(m.to, m) /\ ~RewindFails(m.to, m)
  /\ AppendEntriesToLog(m.to, m)
  /\ ConfigureFromEntries(m.to, m)
  /\ currentTerm'[m.to] = m.term

LogChanges ==
  \/ UNCHANGED <<log, peers, clusterChange>>
  \/ \E n \in Server, entry \in LogEntry : AppendsOwn(n, entry) /\ state'[n] = "leader"
  \/ \E m \in DOMAIN aeRequests : TakesOver(m)

\* n sends m as leader of m's term
Sends(n, m) ==
  /\ state'[n] = "leader" /\ UNCHANGED currentTerm
  /\ m.from = n /\ m.to \in Recipients(n) /\ m.term = currentTerm[n]

RequestsSent ==
  \A m \in DOMAIN aeRequests' :
    \/ m \in DOMAIN aeRequests
    \/ \E n \in Server :
         /\ Sends(n, m)
         /\ \/ m.entries = << >>
            \/ \E a \in Server, from \in Nat :
                 m = AppendEntriesTo(n, a, from, TermAt(log[n], from - 1))

Effects == TermsGrow /\ LogChanges /\ RequestsSent

LEMMA QuietStep ==
  ASSUME TypeOK, UNCHANGED <<log, peers, clusterChange, aeRequests>>, TermsGrow
  PROVE  Effects
BY DEF Effects, LogChanges, RequestsSent

LEMMA SameTerms ==
  ASSUME TypeOK, UNCHANGED currentTerm
  PROVE  TermsGrow
<1>1. \A n \in Server : currentTerm[n] \in Nat
  BY DEF TypeOK, ElectionTypeOK
<1> QED
  BY <1>1 DEF TermsGrow

LEMMA NewTerm ==
  ASSUME TypeOK, NEW n \in Server, NEW t \in Nat, t >= currentTerm[n],
         currentTerm' = [currentTerm EXCEPT ![n] = t]
  PROVE  TermsGrow /\ currentTerm'[n] = t
<1>1. \A s \in Server : currentTerm[s] \in Nat
  BY DEF TypeOK, ElectionTypeOK
<1> QED
  BY <1>1 DEF TypeOK, ElectionTypeOK, TermsGrow

LEMMA FollowerOnAppendEntriesEffects ==
  ASSUME TypeOK, NEW m \in DOMAIN aeRequests, NEW cur \in Nat, cur >= currentTerm[m.to],
         \/ FollowerOnAppendEntries(m.to, m, cur)
         \/ FollowerOnAppendEntriesPanics(m.to, m, cur)
  PROVE  Effects
<1>0. /\ m.to \in Server /\ m.term \in Nat /\ currentTerm[m.to] \in Nat
  BY AppendRequestFields DEF TypeOK, ElectionTypeOK
<1>1. RequestsSent
  BY BagRemoveDomain DEF RequestsSent, FollowerOnAppendEntries, FollowerOnAppendEntriesPanics,
                         ReplyAppendEntries
<1>2. CASE FollowerOnAppendEntries(m.to, m, cur)
  <2>1. /\ Higher(m.term, cur) \in Nat
        /\ Higher(m.term, cur) >= m.term
        /\ Higher(m.term, cur) >= currentTerm[m.to]
    BY <1>0 DEF Higher
  <2>2. TermsGrow /\ currentTerm'[m.to] = Higher(m.term, cur)
    BY <1>0, <1>2, <2>1, NewTerm DEF FollowerOnAppendEntries
  <2>3. \/ UNCHANGED <<log, peers, clusterChange>>
        \/ /\ m.term >= cur /\ Matches(m.to, m) /\ ~RewindFails(m.to, m)
           /\ AppendEntriesToLog(m.to, m) /\ ConfigureFromEntries(m.to, m)
    BY <1>2, Zenon DEF FollowerOnAppendEntries
  <2>4. m.term >= cur => currentTerm'[m.to] = m.term
    BY <1>0, <2>2 DEF Higher
  <2>5. LogChanges
    BY <2>3, <2>4 DEF LogChanges, TakesOver
  <2> QED
    BY <1>1, <2>2, <2>5 DEF Effects
<1>3. CASE FollowerOnAppendEntriesPanics(m.to, m, cur)
  <2>1. TermsGrow
    BY <1>0, <1>3, NewTerm DEF FollowerOnAppendEntriesPanics
  <2>2. UNCHANGED <<log, peers, clusterChange>>
    BY <1>3 DEF FollowerOnAppendEntriesPanics
  <2> QED
    BY <1>1, <2>1, <2>2 DEF Effects, LogChanges
<1> QED
  BY <1>2, <1>3

LEMMA ForwardAppendEntriesEffects ==
  ASSUME TypeOK, NEW m \in DOMAIN aeRequests, ForwardAppendEntries(m)
  PROVE  Effects
<1> DEFINE n == m.to
<1>0. n \in Server /\ m.term \in Nat /\ currentTerm[n] \in Nat /\ currentTerm[n] >= currentTerm[n]
  BY AppendRequestFields DEF TypeOK, ElectionTypeOK
<1>1. ASSUME NEW cur \in Nat, cur >= currentTerm[n],
             \/ FollowerOnAppendEntries(n, m, cur)
             \/ FollowerOnAppendEntriesPanics(n, m, cur)
      PROVE  Effects
  BY <1>1, FollowerOnAppendEntriesEffects
<1>2. ASSUME UNCHANGED <<currentTerm, log, peers, clusterChange>>, aeRequests' = BagRemove(aeRequests, m)
      PROVE  Effects
  BY <1>2, SameTerms, BagRemoveDomain DEF Effects, LogChanges, RequestsSent
<1>3. CASE state[n] = "follower"
  BY <1>0, <1>1, <1>3 DEF ForwardAppendEntries
<1>4. CASE state[n] = "candidate" /\ CandidateOnAppendEntries(n, m)
  BY <1>0, <1>1, <1>2, <1>4 DEF CandidateOnAppendEntries, ReplyAppendEntries
<1>5. CASE state[n] = "leader" /\ LeaderOnAppendEntries(n, m)
  BY <1>0, <1>1, <1>2, <1>5 DEF LeaderOnAppendEntries
<1> QED
  BY <1>3, <1>4, <1>5 DEF ForwardAppendEntries

LEMMA ForwardRequestVoteEffects ==
  ASSUME TypeOK, NEW m \in DOMAIN rvRequests, ForwardRequestVote(m)
  PROVE  Effects
<1> DEFINE n == m.to
<1>0. n \in Server /\ m.term \in Nat /\ currentTerm[n] \in Nat /\ currentTerm[n] >= currentTerm[n]
  BY VoteRequestFields DEF TypeOK, ElectionTypeOK
<1>1. ASSUME NEW cur \in Nat, cur >= currentTerm[n], NEW voted,
             FollowerOnRequestVote(n, m, cur, voted)
      PROVE  Effects
  <2> DEFINE t == IF heard[n] THEN cur ELSE Higher(m.term, cur)
  <2>1. t \in Nat /\ t >= currentTerm[n]
    BY <1>0, <1>1 DEF Higher
  <2>2. currentTerm' = [currentTerm EXCEPT ![n] = t] /\ UNCHANGED <<log, peers, clusterChange, aeRequests>>
    BY <1>1 DEF FollowerOnRequestVote
  <2> QED
    BY <1>0, <2>1, <2>2, NewTerm, QuietStep
<1>2. ASSUME UNCHANGED <<currentTerm, log, peers, clusterChange, aeRequests>> PROVE Effects
  BY <1>2, SameTerms, QuietStep
<1>3. CASE state[n] = "follower"
  BY <1>0, <1>1, <1>3 DEF ForwardRequestVote
<1>4. CASE state[n] = "candidate" /\ CandidateOnRequestVote(n, m)
  <2>1. m.term > currentTerm[n] => m.term >= currentTerm[n]
    BY <1>0
  <2> QED
    BY <1>0, <1>1, <1>2, <1>4, <2>1 DEF CandidateOnRequestVote
<1>5. CASE state[n] = "leader" /\ LeaderOnRequestVote(n, m)
  BY <1>0, <1>1, <1>2, <1>5 DEF LeaderOnRequestVote
<1> QED
  BY <1>3, <1>4, <1>5 DEF ForwardRequestVote

LEMMA ForwardAppendEntriesReplyEffects ==
  ASSUME TypeOK, NEW r \in DOMAIN aeReplies, ForwardAppendEntriesReply(r)
  PROVE  Effects
<1> DEFINE n == r.to
<1>0. n \in Server /\ r.term \in Nat /\ currentTerm[n] \in Nat
  BY DEF TypeOK, AppendTypeOK, AppendEntriesReply, ElectionTypeOK
<1>1. UNCHANGED <<log, peers, clusterChange, aeRequests>>
  BY DEF ForwardAppendEntriesReply, LeaderOnAppendEntriesReply
<1>2. \/ UNCHANGED currentTerm
      \/ r.term > currentTerm[n] /\ currentTerm' = [currentTerm EXCEPT ![n] = r.term]
  BY DEF ForwardAppendEntriesReply, LeaderOnAppendEntriesReply
<1>3. r.term > currentTerm[n] => r.term >= currentTerm[n]
  BY <1>0
<1> QED
  BY <1>0, <1>1, <1>2, <1>3, SameTerms, NewTerm, QuietStep

LEMMA ForwardRequestVoteReplyEffects ==
  ASSUME TypeOK, NEW r \in DOMAIN rvReplies, ForwardRequestVoteReply(r)
  PROVE  Effects
<1> DEFINE n == r.to
<1>0. n \in Server /\ r.term \in Nat /\ currentTerm[n] \in Nat
  BY DEF TypeOK, VoteTypeOK, RequestVoteReply, ElectionTypeOK
<1>1. CASE LeaderOnStateChanged(n) /\ UNCHANGED <<currentTerm, clusterVars>>
  <2>1. /\ NoOpEntry(currentTerm[n]) \in LogEntry /\ NoOpEntry(currentTerm[n]).term = currentTerm[n]
        /\ PointsAt(NoOpEntry(currentTerm[n]), clusterChange[n])
    BY <1>0, EntryTypes, PlainEntriesPointNowhere
  <2>2. AppendsOwn(n, NoOpEntry(currentTerm[n])) /\ state'[n] = "leader"
    <3>1. ~IsClusterChange(NoOpEntry(currentTerm[n]))
      BY PlainEntries
    <3> QED
      BY <1>0, <1>1, <2>1, <3>1 DEF AppendsOwn, LeaderOnStateChanged, TypeOK, ElectionTypeOK
  <2>3. DOMAIN aeRequests' = DOMAIN aeRequests \union {Heartbeat(n, a) : a \in Recipients(n)}
    BY <1>1, ToPeersDomain DEF LeaderOnStateChanged
  <2>4. \A a \in Recipients(n) : Heartbeat(n, a).entries = << >> /\ Sends(n, Heartbeat(n, a))
    BY <1>0, <1>1, <2>2, HeartbeatType
       DEF Sends, Recipients, Heartbeat, AppendEntriesTo, TypeOK
  <2>5. RequestsSent
    BY <1>0, <2>3, <2>4 DEF RequestsSent
  <2> QED
    BY <1>0, <1>1, <2>1, <2>2, <2>5, SameTerms DEF Effects, LogChanges
<1>2. CASE UNCHANGED <<currentTerm, log, peers, clusterChange, aeRequests>>
  BY <1>2, SameTerms, QuietStep
<1>3. CASE /\ r.term > currentTerm[n]
           /\ currentTerm' = [currentTerm EXCEPT ![n] = r.term]
           /\ UNCHANGED <<log, peers, clusterChange, aeRequests>>
  <2>1. r.term >= currentTerm[n]
    BY <1>0, <1>3
  <2> QED
    BY <1>0, <1>3, <2>1, NewTerm, QuietStep
<1> QED
  BY <1>1, <1>2, <1>3 DEF ForwardRequestVoteReply, CandidateOnRequestVoteReply

LEMMA ForwardTickEffects ==
  ASSUME TypeOK, NEW n \in Server, ForwardTick(n)
  PROVE  Effects
<1>1. CASE FollowerOnTimeout(n)
  <2>1. currentTerm' = [currentTerm EXCEPT ![n] = currentTerm[n] + 1] /\ UNCHANGED <<log, peers, clusterChange, aeRequests>>
    BY <1>1 DEF FollowerOnTimeout, CandidateOnStateChanged
  <2>2. currentTerm[n] + 1 \in Nat /\ currentTerm[n] + 1 >= currentTerm[n]
    BY DEF TypeOK, ElectionTypeOK
  <2> QED
    BY <2>1, <2>2, NewTerm, QuietStep
<1>2. CASE CandidateOnTimeout(n)
  BY <1>2, SameTerms, QuietStep DEF CandidateOnTimeout
<1>3. CASE LeaderOnTimeout(n)
  <2>1. UNCHANGED <<currentTerm, log, peers, clusterChange>>
    BY <1>3 DEF LeaderOnTimeout
  <2>2. CASE UNCHANGED aeRequests
    BY <2>1, <2>2, SameTerms, QuietStep
  <2>3. CASE /\ ~TickFails(n)
             /\ aeRequests' = ToPeers(aeRequests, n, {TickRequest(n, a) : a \in Recipients(n)})
    <3>1. DOMAIN aeRequests' = DOMAIN aeRequests \union {TickRequest(n, a) : a \in Recipients(n)}
      BY <2>3, ToPeersDomain
    <3>2. ASSUME NEW a \in Recipients(n)
          PROVE  \/ TickRequest(n, a).entries = << >>
                 \/ \E from \in Nat :
                      TickRequest(n, a) = AppendEntriesTo(n, a, from, TermAt(log[n], from - 1))
      <4>1. a \in Server /\ nextIndex[n][a] \in Int
        BY DEF Recipients, TypeOK, ClusterTypeOK, Address
      <4>2. nextIndex[n][a] \in Nat
        BY <2>3, <4>1 DEF Recipients, TickFails, Address
      <4> QED
        BY <4>1, <4>2, HeartbeatType DEF TickRequest, TypeOK
    <3>3. ASSUME NEW a \in Recipients(n) PROVE Sends(n, TickRequest(n, a))
      BY <1>3, <2>1
         DEF LeaderOnTimeout, Sends, TickRequest, Heartbeat, AppendEntriesTo
    <3>4. RequestsSent
      <4>1. \A a \in Recipients(n) : a \in Server
        BY DEF Recipients
      <4> QED
        BY <3>1, <3>2, <3>3, <4>1 DEF RequestsSent
    <3> QED
      BY <2>1, <3>4, SameTerms DEF Effects, LogChanges
  <2> QED
    BY <1>3, <2>2, <2>3 DEF LeaderOnTimeout
<1> QED
  BY <1>1, <1>2, <1>3 DEF ForwardTick

LEMMA ForwardClientAppends ==
  ASSUME TypeOK, NEW n \in Server, ForwardClient(n)
  PROVE  /\ UNCHANGED <<state, currentTerm, clusterChange, elected, aeRequests>>
         /\ state[n] = "leader"
         /\ \/ UNCHANGED <<log, peers>>
            \/ \E entry \in LogEntry : AppendsOwn(n, entry)
<1>0. peers[n] \in Cluster /\ n \in Address /\ currentTerm[n] \in Nat
  BY DEF TypeOK, ClusterTypeOK, ElectionTypeOK, Address
<1>1. UNCHANGED <<state, currentTerm, clusterChange, elected, aeRequests>>
  <2>1. ASSUME NEW c, LeaderOnStateMachineCommand(n, c)
        PROVE  UNCHANGED <<state, currentTerm, clusterChange, elected, aeRequests>>
    BY <2>1 DEF LeaderOnStateMachineCommand
  <2>2. ASSUME NEW a, LeaderOnAddServer(n, a) \/ LeaderOnRemoveServer(n, a)
        PROVE  UNCHANGED <<state, currentTerm, clusterChange, elected, aeRequests>>
    BY <2>2 DEF LeaderOnAddServer, LeaderOnRemoveServer
  <2> QED
    BY <2>1, <2>2 DEF ForwardClient
<1>2. ASSUME NEW entry \in LogEntry, entry.term = currentTerm[n], AppendOwn(n, entry),
             PointsAt(entry, clusterChange[n]),
             MayChangeCluster(n) \/ (~IsClusterChange(entry) /\ UNCHANGED peers)
      PROVE  AppendsOwn(n, entry)
  <2>1. log' = [log EXCEPT ![n] = Append(log[n], entry)]
    BY <1>2 DEF AppendOwn
  <2>2. Len(SelectSeq(log[n], IsClusterChange)) < MaxChanges
        \/ (~IsClusterChange(entry) /\ UNCHANGED peers)
    BY <1>2 DEF MayChangeCluster
  <2> QED
    BY <1>1, <1>2, <2>1, <2>2 DEF AppendsOwn
<1>3. ASSUME NEW newCluster \in Cluster, AppendChange(n, newCluster), MayChangeCluster(n)
      PROVE  \E entry \in LogEntry : AppendsOwn(n, entry)
  <2>1. PICK entry \in LogEntry : /\ entry.term = currentTerm[n] /\ AppendOwn(n, entry)
                                  /\ PointsAt(entry, clusterChange[n])
    BY <1>3, AppendChangeType
  <2>2. AppendsOwn(n, entry)
    <3>1. log' = [log EXCEPT ![n] = Append(log[n], entry)]
      BY <2>1 DEF AppendOwn
    <3>2. Len(SelectSeq(log[n], IsClusterChange)) < MaxChanges
      BY <1>3 DEF MayChangeCluster
    <3>3. entry.term = currentTerm[n] /\ PointsAt(entry, clusterChange[n])
      BY <2>1
    <3> QED
      BY <1>1, <3>1, <3>2, <3>3 DEF AppendsOwn
  <2> QED
    BY <2>2
<1>4. UNCHANGED <<log, peers>> \/ \E entry \in LogEntry : AppendsOwn(n, entry)
  <2>1. ASSUME NEW c \in Command, LeaderOnStateMachineCommand(n, c)
        PROVE  \E entry \in LogEntry : AppendsOwn(n, entry)
    <3>1. UNCHANGED peers /\ AppendOwn(n, CommandEntry(currentTerm[n], c))
      BY <2>1 DEF LeaderOnStateMachineCommand
    <3> QED
      BY <1>0, <1>2, <3>1, EntryTypes, PlainEntries, PlainEntriesPointNowhere
  <2>2. ASSUME NEW a \in Server, LeaderOnAddServer(n, a)
        PROVE  \E entry \in LogEntry : AppendsOwn(n, entry)
    <3>1. PlusAddress(PlusAddress(peers[n], n), a) \in Cluster
      BY <1>0, ClusterOperators DEF Address
    <3>2. MayChangeCluster(n) /\ AppendChange(n, PlusAddress(PlusAddress(peers[n], n), a))
      BY <2>2 DEF LeaderOnAddServer
    <3> QED
      BY <1>3, <3>1, <3>2
  <2>3. ASSUME NEW a \in Server, LeaderOnRemoveServer(n, a)
        PROVE  UNCHANGED <<log, peers>> \/ \E entry \in LogEntry : AppendsOwn(n, entry)
    <3>1. WithoutAddress(PlusAddress(peers[n], n), a) \in Cluster
      BY <1>0, ClusterOperators DEF Address
    <3>2. /\ MayChangeCluster(n)
          /\ \/ UNCHANGED <<log, peers>>
             \/ AppendChange(n, WithoutAddress(PlusAddress(peers[n], n), a))
      BY <2>3 DEF LeaderOnRemoveServer
    <3> QED
      BY <1>3, <3>1, <3>2
  <2> QED
    BY <2>1, <2>2, <2>3 DEF ForwardClient
<1>5. state[n] = "leader"
  <2>1. ASSUME NEW c, LeaderOnStateMachineCommand(n, c) PROVE state[n] = "leader"
    BY <2>1 DEF LeaderOnStateMachineCommand
  <2>2. ASSUME NEW a, LeaderOnAddServer(n, a) \/ LeaderOnRemoveServer(n, a)
        PROVE  state[n] = "leader"
    BY <2>2 DEF LeaderOnAddServer, LeaderOnRemoveServer, MayChangeCluster
  <2> QED
    BY <2>1, <2>2 DEF ForwardClient
<1> QED
  BY <1>1, <1>4, <1>5

LEMMA ForwardClientEffects ==
  ASSUME TypeOK, NEW n \in Server, ForwardClient(n)
  PROVE  Effects
<1>1. UNCHANGED <<state, currentTerm, clusterChange, aeRequests>> /\ state[n] = "leader"
  BY ForwardClientAppends
<1>2. LogChanges
  BY <1>1, ForwardClientAppends DEF LogChanges
<1> QED
  BY <1>1, <1>2, SameTerms DEF Effects, RequestsSent

LEMMA NextEffects ==
  ASSUME TypeOK, [Next]_vars
  PROVE  Effects
<1>1. ASSUME UNCHANGED <<currentTerm, log, peers, clusterChange, aeRequests>> PROVE Effects
  BY <1>1, SameTerms, QuietStep
<1>2. ASSUME NEW n \in Server, HeardExpires(n) \/ Restart(n) \/ StopAndRun(n) PROVE Effects
  BY <1>1, <1>2 DEF HeardExpires, Restart, StopAndRun
<1>3. CASE UNCHANGED vars
  BY <1>1, <1>3 DEF vars
<1> QED
  BY <1>2, <1>3, ForwardAppendEntriesEffects, ForwardRequestVoteEffects,
     ForwardAppendEntriesReplyEffects, ForwardRequestVoteReplyEffects, ForwardTickEffects,
     ForwardClientEffects DEF Next

\* Terms never decrease, whatever message, timer, client or restart a node
\* meets, in any number and order: SetCurrentTerm is only called with a newer
\* term (follower.go:44, 221; candidate.go:75-79, 172; leader.go:344).
THEOREM TermsNeverDecrease == Spec => TermMonotonic
<1>1. TypeOK /\ [Next]_vars => [\A n \in Server : currentTerm'[n] >= currentTerm[n]]_vars
  BY NextEffects DEF Effects, TermsGrow
<1> QED
  BY <1>1, TypeCorrect, PTL DEF Spec, TermMonotonic

-----------------------------------------------------------------------------
(***************************************************************************)
(* Logs are ordered by term.  This is not inductive on its own: a request  *)
(* in flight must be ordered too, must not carry a term beyond its own,    *)
(* and must not name a previous term beyond its first entry's.             *)
(***************************************************************************)
RequestOrdered(m) ==
  /\ \A j \in 1 .. Len(m.entries) :
       /\ m.entries[j].term <= m.term
       /\ \A i \in 1 .. j : m.entries[i].term <= m.entries[j].term
  /\ m.entries # << >> => m.prevLogTerm <= m.entries[1].term

RequestsOrdered == \A m \in DOMAIN aeRequests : RequestOrdered(m)

OrderInv == TypeOK /\ LogTermsOrdered /\ RequestsOrdered

LEMMA LogFields ==
  ASSUME TypeOK, NEW n \in Server
  PROVE  /\ log[n] \in Seq(LogEntry)
         /\ Len(log[n]) \in Nat
         /\ DOMAIN log[n] = 1 .. Len(log[n])
         /\ \A i \in 1 .. Len(log[n]) : log[n][i] \in LogEntry /\ log[n][i].term \in Nat
         /\ currentTerm[n] \in Nat
<1>1. log[n] \in Seq(LogEntry) /\ currentTerm[n] \in Nat
  BY DEF TypeOK, LogTypeOK, ElectionTypeOK
<1>2. \A i \in 1 .. Len(log[n]) : log[n][i] \in LogEntry
  BY <1>1, ElementOfSeq
<1> QED
  BY <1>1, <1>2, EntryFields, LenProperties

LEMMA SentInOrder ==
  ASSUME TypeOK, LogTermsOrdered, NEW n \in Server, NEW a \in Server, NEW from \in Nat
  PROVE  RequestOrdered(AppendEntriesTo(n, a, from, TermAt(log[n], from - 1)))
<1> DEFINE m == AppendEntriesTo(n, a, from, TermAt(log[n], from - 1))
           l == log[n]
<1>1. /\ l \in Seq(LogEntry) /\ Len(l) \in Nat /\ DOMAIN l = 1 .. Len(l)
      /\ \A i \in 1 .. Len(l) : l[i].term \in Nat
  BY LogFields
<1>2. TermAt(l, from - 1) \in Nat \union {-1} /\ (HasEntry(l, from - 1) => TermAt(l, from - 1) = l[from].term)
  BY <1>1, TermAtType, from - 1 + 1 = from
<1>3. /\ m.entries \in Seq(LogEntry) /\ m.term = currentTerm[n]
      /\ m.prevLogTerm = TermAt(l, from - 1)
      /\ \A k \in 1 .. Len(m.entries) : from + k \in DOMAIN l /\ m.entries[k] = l[from + k]
  BY <1>2, AppendEntriesToType DEF TypeOK, AppendEntriesRequest
<1> HIDE DEF m
<1>4. Len(m.entries) \in Nat /\ (m.entries # << >> => 1 \in 1 .. Len(m.entries))
  BY <1>3, LenProperties, EmptySeq
<1>5. ASSUME NEW j \in 1 .. Len(m.entries), NEW i \in 1 .. j
      PROVE  m.entries[j].term <= m.term /\ m.entries[i].term <= m.entries[j].term
  <2>1. i \in 1 .. Len(m.entries) /\ from + i \in 1 .. from + j
    BY <1>4
  <2>2. from + j \in DOMAIN l /\ m.entries[j] = l[from + j] /\ m.entries[i] = l[from + i]
    BY <1>3, <2>1
  <2> QED
    BY <1>3, <2>1, <2>2 DEF LogTermsOrdered
<1>6. ASSUME m.entries # << >> PROVE m.prevLogTerm <= m.entries[1].term
  <2>1. from + 1 \in DOMAIN l /\ m.entries[1] = l[from + 1] /\ l[from + 1].term \in Nat
    BY <1>1, <1>3, <1>4, <1>6
  <2>2. CASE HasEntry(l, from - 1)
    <3>1. from \in DOMAIN l /\ from \in 1 .. from + 1
      BY <1>1, <2>2, from - 1 + 1 = from DEF HasEntry
    <3>2. l[from].term <= l[from + 1].term
      BY <2>1, <3>1 DEF LogTermsOrdered
    <3> QED
      BY <1>2, <1>3, <2>1, <2>2, <3>2
  <2>3. CASE ~HasEntry(l, from - 1)
    BY <1>3, <2>1, <2>3 DEF TermAt
  <2> QED
    BY <2>2, <2>3
<1>7. \A j \in 1 .. Len(m.entries) : j \in 1 .. j
  BY <1>4
<1> QED
  BY <1>5, <1>6, <1>7 DEF RequestOrdered, m

\* what is to be shown of each log
Ordered(l, t) ==
  \A j \in DOMAIN l : l[j].term <= t /\ \A i \in 1 .. j : l[i].term <= l[j].term

LEMMA KeptInOrder ==
  ASSUME TypeOK, LogTermsOrdered, TermsGrow, currentTerm' \in [Server -> Nat], NEW n \in Server
  PROVE  Ordered(log[n], currentTerm'[n])
<1>1. \A j \in DOMAIN log[n] : log[n][j].term \in Nat
  BY LogFields
<1> QED
  BY <1>1, LogFields DEF LogTermsOrdered, TermsGrow, Ordered

LEMMA OwnInOrder ==
  ASSUME TypeOK, LogTermsOrdered, NEW n \in Server, NEW entry \in LogEntry, AppendsOwn(n, entry)
  PROVE  Ordered(log'[n], currentTerm'[n]) /\ \A s \in Server \ {n} : log'[s] = log[s]
<1> DEFINE l == log[n]
           longer == Append(l, entry)
<1>1. /\ l \in Seq(LogEntry) /\ Len(l) \in Nat /\ DOMAIN l = 1 .. Len(l)
      /\ \A i \in 1 .. Len(l) : l[i].term \in Nat
      /\ currentTerm[n] \in Nat
  BY LogFields
<1>2. /\ longer \in Seq(LogEntry) /\ Len(longer) = Len(l) + 1
      /\ \A i \in 1 .. Len(l) : longer[i] = l[i]
      /\ longer[Len(l) + 1] = entry
  BY <1>1, AppendProperties
<1>3. DOMAIN longer = 1 .. Len(l) + 1
  BY <1>2, LenProperties
<1>4. /\ log' = [log EXCEPT ![n] = longer] /\ entry.term = currentTerm[n]
      /\ currentTerm' = currentTerm /\ n \in DOMAIN log
  BY DEF AppendsOwn, TypeOK, LogTypeOK
<1> HIDE DEF longer
<1>5. \A j \in 1 .. Len(l) : l[j].term <= currentTerm[n] /\ \A i \in 1 .. j : l[i].term <= l[j].term
  BY <1>1 DEF LogTermsOrdered
<1>6. ASSUME NEW j \in 1 .. Len(l) + 1, NEW i \in 1 .. j
      PROVE  longer[j].term <= currentTerm[n] /\ longer[i].term <= longer[j].term
  <2>1. CASE j = Len(l) + 1
    <3>1. CASE i = Len(l) + 1
      BY <1>1, <1>2, <1>4, <2>1, <3>1
    <3>2. CASE i # Len(l) + 1
      <4>1. i \in 1 .. Len(l)
        BY <1>1, <2>1, <3>2
      <4> QED
        BY <1>1, <1>2, <1>4, <1>5, <2>1, <4>1
    <3> QED
      BY <3>1, <3>2
  <2>2. CASE j # Len(l) + 1
    <3>1. j \in 1 .. Len(l) /\ i \in 1 .. Len(l)
      BY <1>1, <2>2
    <3> QED
      BY <1>2, <1>5, <3>1
  <2> QED
    BY <2>1, <2>2
<1>7. \A j \in 1 .. Len(l) + 1 : j \in 1 .. j
  BY <1>1
<1>8. Ordered(longer, currentTerm[n])
  BY <1>3, <1>6, <1>7 DEF Ordered
<1> QED
  BY <1>4, <1>8 DEF TypeOK, LogTypeOK

LEMMA TakenOverInOrder ==
  ASSUME TypeOK, TypeOK', LogTermsOrdered, RequestsOrdered, TermsGrow,
         NEW m \in DOMAIN aeRequests, TakesOver(m)
  PROVE  /\ Ordered(log'[m.to], currentTerm'[m.to])
         /\ \A s \in Server \ {m.to} : log'[s] = log[s]
<1> DEFINE n == m.to
           l == log[n]
           new == log'[n]
           prev == m.prevLogIndex
<1>1. n \in Server /\ prev \in Nat \union {-1} /\ m.entries \in Seq(LogEntry) /\ m.term \in Nat
  BY AppendRequestFields DEF TypeOK
<1>2. /\ l \in Seq(LogEntry) /\ Len(l) \in Nat /\ DOMAIN l = 1 .. Len(l)
      /\ \A i \in 1 .. Len(l) : l[i].term \in Nat
  BY <1>1, LogFields
<1>3. /\ new \in Seq(LogEntry) /\ Len(new) \in Nat /\ DOMAIN new = 1 .. Len(new)
      /\ \A i \in 1 .. Len(new) : new[i].term \in Nat
      /\ currentTerm'[n] \in Nat
  <2>1. new \in Seq(LogEntry) /\ currentTerm'[n] \in Nat
    BY <1>1 DEF TypeOK, LogTypeOK, ElectionTypeOK
  <2> QED
    BY <2>1, LenProperties, ElementOfSeq, EntryFields
<1>4. /\ \A s \in Server \ {n} : log'[s] = log[s]
      /\ m.entries = << >> => log' = log
      /\ m.entries # << >> =>
           /\ Len(new) = prev + 1 + Len(m.entries)
           /\ \A k \in 1 .. prev + 1 : new[k] = l[k]
           /\ \A k \in 1 .. Len(m.entries) : new[prev + 1 + k] = m.entries[k]
      /\ prev <= LastIndex(l)
  BY <1>1, AppendEntriesToLogEffect DEF TakesOver, TypeOK
<1>5. CASE m.entries = << >>
  <2>1. currentTerm' \in [Server -> Nat]
    BY DEF TypeOK, ElectionTypeOK
  <2> QED
    BY <1>1, <1>4, <1>5, <2>1, KeptInOrder
<1>6. CASE m.entries # << >>
  <2> DEFINE e == m.entries
  <2>1. Len(e) \in Nat /\ 1 \in 1 .. Len(e)
    BY <1>1, <1>6, LenProperties, EmptySeq
  <2>2. \A k \in 1 .. Len(e) : e[k].term \in Nat
    BY <1>1, ElementOfSeq, EntryFields
  <2>3. /\ \A j \in 1 .. Len(e) : e[j].term <= m.term /\ \A i \in 1 .. j : e[i].term <= e[j].term
        /\ m.prevLogTerm <= e[1].term
    BY <1>6 DEF RequestsOrdered, RequestOrdered
  <2>4. prev + 1 \in 0 .. Len(l)
    BY <1>1, <1>2, <1>4 DEF LastIndex
  <2>5. \A j \in 1 .. prev + 1 : l[j].term <= currentTerm[n] /\ \A i \in 1 .. j : l[i].term <= l[j].term
    BY <1>1, <1>2, <2>4 DEF LogTermsOrdered
  <2>6. prev + 1 > 0 => l[prev + 1].term = m.prevLogTerm
    BY <1>1, <1>2, TermAtType DEF TakesOver, Matches
  <2>7. /\ currentTerm[n] \in Nat /\ currentTerm'[n] >= currentTerm[n]
        /\ currentTerm'[n] >= m.term
    BY <1>1 DEF TermsGrow, TakesOver, TypeOK, ElectionTypeOK
  <2> HIDE DEF n, l, new, prev, e
  <2>8. \A k \in 1 .. Len(new) : k <= prev + 1 \/ (k - (prev + 1) \in 1 .. Len(e))
    <3>1. prev + 1 \in Nat
      BY <1>1
    <3>2. Len(new) = (prev + 1) + Len(e)
      BY <1>4, <1>6 DEF e
    <3>3. \A k \in 1 .. (prev + 1) + Len(e) : k <= prev + 1 \/ (k - (prev + 1) \in 1 .. Len(e))
      BY <2>1, <3>1, IndexOfBoth
    <3> QED
      BY <3>2, <3>3, Zenon
  <2>9. \A k \in 1 .. Len(new) : k > prev + 1 => new[k] = e[k - (prev + 1)]
    <3>1. ASSUME NEW k \in 1 .. Len(new), k > prev + 1
          PROVE  k - (prev + 1) \in 1 .. Len(e) /\ prev + 1 + (k - (prev + 1)) = k
      BY <1>1, <1>3, <2>8, <3>1
    <3>2. ASSUME NEW k \in 1 .. Len(new), k > prev + 1 PROVE new[k] = e[k - (prev + 1)]
      <4>1. new[prev + 1 + (k - (prev + 1))] = m.entries[k - (prev + 1)]
        BY <1>4, <1>6, <3>1, <3>2 DEF e
      <4> QED
        BY <3>1, <3>2, <4>1 DEF e
    <3> QED
      BY <3>2
  <2>10. ASSUME NEW j \in 1 .. Len(new), NEW i \in 1 .. j
         PROVE  new[j].term <= currentTerm'[n] /\ new[i].term <= new[j].term
    <3>0. i \in 1 .. Len(new)
      BY <1>3
    <3>1. CASE j <= prev + 1
      <4>1. j \in 1 .. prev + 1 /\ i \in 1 .. prev + 1 /\ j \in 1 .. Len(l) /\ i \in 1 .. Len(l)
        BY <1>1, <1>2, <1>3, <2>4, <3>1
      <4>2. new[j] = l[j] /\ new[i] = l[i]
        BY <1>4, <1>6, <4>1
      <4> QED
        BY <1>2, <1>3, <2>5, <2>7, <4>1, <4>2
    <3>2. CASE j > prev + 1 /\ i > prev + 1
      <4>1. /\ j - (prev + 1) \in 1 .. Len(e) /\ i - (prev + 1) \in 1 .. j - (prev + 1)
            /\ new[j] = e[j - (prev + 1)] /\ new[i] = e[i - (prev + 1)]
        BY <1>1, <1>3, <2>8, <2>9, <3>0, <3>2
      <4>2. e[j - (prev + 1)].term <= m.term /\ e[i - (prev + 1)].term <= e[j - (prev + 1)].term
        BY <2>3, <4>1
      <4> QED
        BY <1>1, <1>3, <2>2, <2>7, <4>1, <4>2
    <3>3. CASE j > prev + 1 /\ i <= prev + 1
      <4>1. /\ j - (prev + 1) \in 1 .. Len(e) /\ 1 \in 1 .. j - (prev + 1)
            /\ new[j] = e[j - (prev + 1)]
        BY <1>1, <1>3, <2>8, <2>9, <3>0, <3>3
      <4>2. /\ i \in 1 .. prev + 1 /\ prev + 1 \in 1 .. prev + 1 /\ prev + 1 \in 1 .. Len(l)
            /\ i \in 1 .. Len(l) /\ prev + 1 > 0
        BY <1>1, <1>2, <2>4, <3>3
      <4>3. new[i] = l[i]
        BY <1>4, <1>6, <4>2
      <4>4. l[i].term <= l[prev + 1].term /\ l[prev + 1].term = m.prevLogTerm
        BY <2>5, <2>6, <4>2
      <4>5. e[1].term <= e[j - (prev + 1)].term /\ e[j - (prev + 1)].term <= m.term
        BY <2>3, <4>1
      <4>6. l[i].term \in Nat /\ l[prev + 1].term \in Nat /\ e[1].term \in Nat
            /\ e[j - (prev + 1)].term \in Nat
        BY <1>2, <2>1, <2>2, <4>1, <4>2
      <4>7. m.prevLogTerm <= e[1].term
        BY <2>3
      <4>8. new[j].term = e[j - (prev + 1)].term /\ new[i].term = l[i].term
        BY <4>1, <4>3
      <4>9. e[j - (prev + 1)].term <= currentTerm'[n]
        BY <1>1, <1>3, <2>7, <4>5, <4>6
      <4>10. l[i].term <= e[j - (prev + 1)].term
        BY <4>4, <4>5, <4>6, <4>7
      <4> QED
        BY <4>8, <4>9, <4>10
    <3>4. i \in Int /\ j \in Int /\ prev + 1 \in Int
      BY <1>1, <1>3
    <3>5. \/ j <= prev + 1
          \/ j > prev + 1 /\ i > prev + 1
          \/ j > prev + 1 /\ i <= prev + 1
      BY <3>4
    <3> QED
      BY <3>1, <3>2, <3>3, <3>5
  <2>11. \A j \in 1 .. Len(new) : j \in 1 .. j
    BY <1>3
  <2>12. Ordered(new, currentTerm'[n])
    BY <1>3, <2>10, <2>11 DEF Ordered
  <2> QED
    BY <1>4, <2>12 DEF new, n
<1> QED
  BY <1>5, <1>6

LEMMA OrderNext == OrderInv /\ [Next]_vars => OrderInv'
<1> SUFFICES ASSUME OrderInv, [Next]_vars PROVE OrderInv'
  OBVIOUS
<1>1. TypeOK /\ LogTermsOrdered /\ RequestsOrdered
  BY DEF OrderInv
<1>2. TypeOK'
  BY <1>1, TypeNext
<1>3. TermsGrow /\ LogChanges /\ RequestsSent
  BY <1>1, NextEffects DEF Effects
<1>4. currentTerm' \in [Server -> Nat]
  BY <1>2 DEF TypeOK, ElectionTypeOK
<1>5. \A n \in Server : Ordered(log[n], currentTerm'[n])
  BY <1>1, <1>3, <1>4, KeptInOrder
<1>6. \A n \in Server : Ordered(log'[n], currentTerm'[n])
  <2>1. CASE log' = log
    BY <1>5, <2>1
  <2>2. ASSUME NEW n \in Server, NEW entry \in LogEntry, AppendsOwn(n, entry)
        PROVE  \A s \in Server : Ordered(log'[s], currentTerm'[s])
    <3>1. Ordered(log'[n], currentTerm'[n]) /\ \A s \in Server \ {n} : log'[s] = log[s]
      BY <1>1, <2>2, OwnInOrder
    <3> QED
      BY <1>5, <3>1
  <2>3. ASSUME NEW m \in DOMAIN aeRequests, TakesOver(m)
        PROVE  \A s \in Server : Ordered(log'[s], currentTerm'[s])
    <3>1. /\ Ordered(log'[m.to], currentTerm'[m.to])
          /\ \A s \in Server \ {m.to} : log'[s] = log[s]
      BY <1>1, <1>2, <1>3, <2>3, TakenOverInOrder
    <3> QED
      BY <1>5, <3>1
  <2> QED
    BY <1>3, <2>1, <2>2, <2>3 DEF LogChanges
<1>7. LogTermsOrdered'
  BY <1>6 DEF LogTermsOrdered, Ordered
<1>8. RequestsOrdered'
  <2>1. ASSUME NEW m, m.entries = << >> PROVE RequestOrdered(m)
    BY <2>1, EmptySeq DEF RequestOrdered
  <2> QED
    BY <1>1, <1>3, <2>1, SentInOrder DEF RequestsSent, Sends, RequestsOrdered
<1> QED
  BY <1>2, <1>7, <1>8 DEF OrderInv

LEMMA OrderInit == Init => OrderInv
<1> SUFFICES ASSUME Init PROVE OrderInv
  OBVIOUS
<1>1. TypeOK
  BY TypeInit
<1>2. LogTermsOrdered
  <2>1. \A n \in Server : log[n] = << >>
    BY DEF Init, InitWith
  <2>2. DOMAIN << >> = {}
    OBVIOUS
  <2> QED
    BY <2>1, <2>2 DEF LogTermsOrdered
<1>3. RequestsOrdered
  BY DEF Init, InitWith, EmptyBag, SetToBag, RequestsOrdered
<1> QED
  BY <1>1, <1>2, <1>3 DEF OrderInv

\* Every log is ordered by term and not ahead of its node's term, whatever
\* requests are delayed, reordered, or left over from an earlier leader or
\* process: the comparison with PrevLogTerm and the deletion of everything
\* after PrevLogIndex keep it so (follower.go:62-94).
THEOREM LogsOrdered == Spec => []LogTermsOrdered
<1>1. OrderInv => LogTermsOrdered
  BY DEF OrderInv
<1> QED
  BY <1>1, OrderInit, OrderNext, PTL DEF Spec

=============================================================================
