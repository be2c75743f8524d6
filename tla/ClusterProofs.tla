------------------------------ MODULE ClusterProofs ------------------------------
(***************************************************************************)
(* No server is counted twice towards a majority while administrators add  *)
(* only servers that are no members and remove only members.  A node's     *)
(* peers come from a client's request, from a record in a message or from  *)
(* a record of its log, so the invariant is about all three: the peers,    *)
(* the records in the logs and the records in the requests in flight.      *)
(***************************************************************************)
EXTENDS SimpleRaftProofs

\* the peers are one of the two variables the handlers leave alone together
USE DEF clusterVars

\* each server is in the list at most once
Once(cluster) == \A a \in Server : cluster[a] <= 1

RecordOnce(entry) == Once(RecordOf(entry).oldCluster) /\ Once(RecordOf(entry).newCluster)

EntriesOnce(entries) == \A k \in DOMAIN entries : RecordOnce(entries[k])

LogsOnce == \A n \in Server : EntriesOnce(log[n])

RequestsOnce == \A m \in DOMAIN aeRequests : EntriesOnce(m.entries)

OnceInv == TypeOK /\ PeersCountedOnce /\ LogsOnce /\ RequestsOnce

\* what a step leaves of the peers and the logs, to be shown for each action
StepOnce == PeersCountedOnce' /\ LogsOnce'

LEMMA PlainEntryOnce ==
  ASSUME NEW entry, ~IsClusterChange(entry)
  PROVE  RecordOnce(entry)
BY DEF RecordOf, RecordOnce, Once, NoPeers, Address

LEMMA WithoutOnce ==
  ASSUME NEW cluster \in Cluster, NEW n \in Server, Once(cluster)
  PROVE  Once(WithoutAddress(cluster, n)) /\ WithoutAddress(cluster, n)[n] = 0
BY DEF Once, WithoutAddress, Cluster, Address

LEMMA PlusOnce ==
  ASSUME NEW cluster \in Cluster, NEW n \in Server, Once(cluster), cluster[n] = 0
  PROVE  Once(PlusAddress(cluster, n))
BY DEF Once, PlusAddress, Cluster, Address

LEMMA SamePeersAndLogs ==
  ASSUME OnceInv, UNCHANGED <<peers, log>>
  PROVE  StepOnce
BY DEF StepOnce, OnceInv, PeersCountedOnce, LogsOnce, EntriesOnce

\* A node gets a list of peers that counts each server once and not the node.
LEMMA NewPeersOnce ==
  ASSUME OnceInv, NEW n \in Server, NEW cluster \in Cluster, Once(cluster), cluster[n] = 0,
         peers' = [peers EXCEPT ![n] = cluster]
  PROVE  PeersCountedOnce'
BY DEF OnceInv, PeersCountedOnce, Once, TypeOK, ClusterTypeOK

LEMMA AppendedOnce ==
  ASSUME OnceInv, NEW n \in Server, NEW entry \in LogEntry, RecordOnce(entry),
         log' = [log EXCEPT ![n] = Append(log[n], entry)]
  PROVE  LogsOnce'
<1>1. /\ log[n] \in Seq(LogEntry) /\ Len(log[n]) \in Nat /\ DOMAIN log[n] = 1 .. Len(log[n])
      /\ log \in [Server -> Seq(LogEntry)]
  BY LogFields DEF OnceInv, TypeOK, LogTypeOK
<1> DEFINE longer == Append(log[n], entry)
<1>2. /\ DOMAIN longer = 1 .. Len(log[n]) + 1
      /\ \A i \in 1 .. Len(log[n]) : longer[i] = log[n][i]
      /\ longer[Len(log[n]) + 1] = entry
  BY <1>1, AppendProperties, LenProperties
<1> HIDE DEF longer
<1>3. \A k \in DOMAIN longer : k \in DOMAIN log[n] \/ k = Len(log[n]) + 1
  BY <1>1, <1>2
<1>4. EntriesOnce(longer)
  BY <1>1, <1>2, <1>3 DEF EntriesOnce, OnceInv, LogsOnce
<1>5. \A s \in Server : log'[s] = IF s = n THEN longer ELSE log[s]
  BY <1>1 DEF longer
<1> QED
  BY <1>4, <1>5 DEF LogsOnce, OnceInv

-----------------------------------------------------------------------------
(* The follower's AppendEntries handler. *)

LEMMA ConfigurationOnce ==
  ASSUME OnceInv, NEW n \in Server, NEW c \in Configurations(n)
  PROVE  Once(c.cluster)
<1>1. CASE c = CurrentConfiguration(n)
  <2>1. peers[n] \in Cluster /\ peers[n][n] = 0 /\ Once(peers[n])
    BY DEF OnceInv, TypeOK, ClusterTypeOK, PeersCountedOnce, Once
  <2> QED
    BY <1>1, <2>1, PlusOnce DEF CurrentConfiguration
<1>2. CASE c # CurrentConfiguration(n)
  <2>1. PICK k \in DOMAIN log[n] :
          c = [index |-> RecordOf(log[n][k]).oldIndex, term |-> RecordOf(log[n][k]).oldTerm,
               cluster |-> RecordOf(log[n][k]).oldCluster]
    BY <1>2 DEF Configurations
  <2>2. RecordOnce(log[n][k])
    BY DEF OnceInv, LogsOnce, EntriesOnce
  <2> QED
    BY <2>1, <2>2 DEF RecordOnce
<1> QED
  BY <1>1, <1>2

LEMMA ConfiguredOnce ==
  ASSUME OnceInv, NEW m \in DOMAIN aeRequests, ConfigureFromEntries(m.to, m)
  PROVE  PeersCountedOnce'
<1> DEFINE n == m.to
<1>0. n \in Server /\ m.entries \in Seq(LogEntry)
  BY AppendRequestFields DEF OnceInv, TypeOK
<1>1. PICK rewound \in Configurations(n) : ConfigureFrom(n, m, rewound)
  BY DEF ConfigureFromEntries
<1>2. rewound.cluster \in Cluster /\ Once(rewound.cluster)
  BY <1>0, ConfigurationsType, ConfigurationOnce DEF OnceInv, TypeOK
<1>3. \/ UNCHANGED peers
      \/ peers' = [peers EXCEPT ![n] = WithoutAddress(rewound.cluster, n)]
      \/ \E k \in DOMAIN m.entries :
           peers' = [peers EXCEPT ![n] = WithoutAddress(RecordOf(m.entries[k]).newCluster, n)]
  BY <1>1 DEF ConfigureFrom, SetPeers
<1>4. CASE UNCHANGED peers
  BY <1>4 DEF OnceInv, PeersCountedOnce
<1>5. ASSUME NEW cluster \in Cluster, Once(cluster),
             peers' = [peers EXCEPT ![n] = WithoutAddress(cluster, n)]
      PROVE  PeersCountedOnce'
  <2>1. /\ WithoutAddress(cluster, n) \in Cluster /\ WithoutAddress(cluster, n)[n] = 0
        /\ Once(WithoutAddress(cluster, n))
    BY <1>0, <1>5, ClusterOperators, WithoutOnce DEF Address
  <2> QED
    BY <1>0, <1>5, <2>1, NewPeersOnce
<1>6. \A k \in DOMAIN m.entries :
        /\ RecordOf(m.entries[k]).newCluster \in Cluster
        /\ Once(RecordOf(m.entries[k]).newCluster)
  <2>1. TAKE k \in DOMAIN m.entries
  <2>2. m.entries[k] \in LogEntry
    BY <1>0, ElementOfSeq, LenProperties
  <2>3. RecordOf(m.entries[k]).newCluster \in Cluster
    BY <2>2, EntryFields DEF ClusterChangeCommand
  <2> QED
    BY <2>3 DEF OnceInv, RequestsOnce, EntriesOnce, RecordOnce
<1> QED
  BY <1>2, <1>3, <1>4, <1>5, <1>6

LEMMA TakenOverOnce ==
  ASSUME OnceInv, NEW m \in DOMAIN aeRequests, Matches(m.to, m), AppendEntriesToLog(m.to, m)
  PROVE  LogsOnce'
<1> DEFINE n == m.to
           kept == m.prevLogIndex + 1
<1>1. /\ n \in Server /\ m.entries \in Seq(LogEntry) /\ kept \in Nat
      /\ DOMAIN m.entries = 1 .. Len(m.entries) /\ Len(m.entries) \in Nat
  BY AppendRequestFields, LenProperties DEF OnceInv, TypeOK
<1>2. DOMAIN log[n] = 1 .. Len(log[n]) /\ Len(log[n]) \in Nat
  BY <1>1, LogFields DEF OnceInv
<1>3. /\ log' \in [Server -> Seq(LogEntry)]
      /\ \A s \in Server \ {n} : log'[s] = log[s]
      /\ m.entries = << >> => log' = log
      /\ m.entries # << >> =>
           /\ Len(log'[n]) = kept + Len(m.entries)
           /\ \A k \in 1 .. kept : log'[n][k] = log[n][k]
           /\ \A k \in 1 .. Len(m.entries) : log'[n][kept + k] = m.entries[k]
      /\ m.prevLogIndex <= LastIndex(log[n])
  BY <1>1, AppendEntriesToLogEffect DEF OnceInv, TypeOK
<1>4. CASE m.entries = << >>
  BY <1>3, <1>4 DEF OnceInv, LogsOnce
<1>5. CASE m.entries # << >>
  <2>1. kept <= Len(log[n])
    BY <1>1, <1>2, <1>3, AppendRequestFields DEF LastIndex, OnceInv, TypeOK
  <2>2. DOMAIN log'[n] = 1 .. kept + Len(m.entries)
    BY <1>1, <1>3, <1>5, LenProperties
  <2> HIDE DEF kept
  <2>3. ASSUME NEW k \in DOMAIN log'[n] PROVE RecordOnce(log'[n][k])
    <3>1. CASE k <= kept
      <4>1. k \in 1 .. kept /\ k \in DOMAIN log[n]
        BY <1>1, <1>2, <2>1, <2>2, <3>1
      <4> QED
        BY <1>1, <1>3, <1>5, <4>1 DEF OnceInv, LogsOnce, EntriesOnce
    <3>2. CASE ~(k <= kept)
      <4> DEFINE j == k - kept
      <4>1. j \in 1 .. Len(m.entries) /\ kept + j = k
        BY <1>1, <2>2, <3>2
      <4> HIDE DEF j
      <4>2. log'[n][k] = m.entries[j] /\ j \in DOMAIN m.entries
        BY <1>1, <1>3, <1>5, <4>1
      <4> QED
        BY <4>2 DEF OnceInv, RequestsOnce, EntriesOnce
    <3> QED
      BY <3>1, <3>2
  <2>4. EntriesOnce(log'[n])
    BY <2>3 DEF EntriesOnce
  <2> QED
    BY <1>3, <2>4 DEF OnceInv, LogsOnce
<1> QED
  BY <1>4, <1>5

LEMMA FollowerOnAppendEntriesOnce ==
  ASSUME OnceInv, NEW m \in DOMAIN aeRequests, NEW cur,
         \/ FollowerOnAppendEntries(m.to, m, cur)
         \/ FollowerOnAppendEntriesPanics(m.to, m, cur)
  PROVE  StepOnce
<1>1. \/ UNCHANGED <<peers, log>>
      \/ /\ Matches(m.to, m) /\ AppendEntriesToLog(m.to, m)
         /\ ConfigureFromEntries(m.to, m)
  BY Zenon DEF FollowerOnAppendEntries, FollowerOnAppendEntriesPanics
<1> QED
  BY <1>1, SamePeersAndLogs, ConfiguredOnce, TakenOverOnce DEF StepOnce

LEMMA ForwardAppendEntriesOnce ==
  ASSUME OnceInv, NEW m \in DOMAIN aeRequests, ForwardAppendEntries(m)
  PROVE  StepOnce
<1>1. \/ UNCHANGED <<peers, log>>
      \/ \E cur : \/ FollowerOnAppendEntries(m.to, m, cur)
                  \/ FollowerOnAppendEntriesPanics(m.to, m, cur)
  BY Zenon DEF ForwardAppendEntries, CandidateOnAppendEntries, LeaderOnAppendEntries
<1> QED
  BY <1>1, SamePeersAndLogs, FollowerOnAppendEntriesOnce

-----------------------------------------------------------------------------
(* Becoming leader, and the requests of clients. *)

LEMMA ForwardRequestVoteReplyOnce ==
  ASSUME OnceInv, NEW r \in DOMAIN rvReplies, ForwardRequestVoteReply(r)
  PROVE  StepOnce
<1> DEFINE n == r.to
           entry == NoOpEntry(currentTerm[n])
<1>0. n \in Server /\ currentTerm[n] \in Nat
  BY DEF OnceInv, TypeOK, VoteTypeOK, RequestVoteReply, ElectionTypeOK
<1>1. UNCHANGED peers
  BY DEF ForwardRequestVoteReply, CandidateOnRequestVoteReply
<1>2. \/ UNCHANGED log
      \/ log' = [log EXCEPT ![n] = Append(log[n], entry)]
  BY DEF ForwardRequestVoteReply, CandidateOnRequestVoteReply, LeaderOnStateChanged
<1>3. entry \in LogEntry /\ RecordOnce(entry)
  BY <1>0, EntryTypes, PlainEntryOnce DEF NoOpEntry, IsClusterChange, ClusterChangeKinds
<1>4. CASE log' = [log EXCEPT ![n] = Append(log[n], entry)]
  BY <1>0, <1>1, <1>3, <1>4, AppendedOnce DEF StepOnce, OnceInv, PeersCountedOnce
<1> QED
  BY <1>1, <1>2, <1>4, SamePeersAndLogs

LEMMA AppendChangeOnce ==
  ASSUME OnceInv, NEW n \in Server, NEW newCluster \in Cluster, Once(newCluster),
         AppendChange(n, newCluster)
  PROVE  LogsOnce'
<1> DEFINE record == [oldIndex |-> clusterChange[n].index, oldTerm |-> clusterChange[n].term,
                      oldCluster |-> PlusAddress(peers[n], n), newCluster |-> newCluster]
           entry == ChangeEntry(currentTerm[n], record)
<1>1. /\ currentTerm[n] \in Nat /\ peers[n] \in Cluster /\ peers[n][n] = 0 /\ Once(peers[n])
      /\ clusterChange[n].index \in Int /\ clusterChange[n].term \in Int
  BY DEF OnceInv, TypeOK, ElectionTypeOK, ClusterTypeOK, PeersCountedOnce, Once
<1>2. PlusAddress(peers[n], n) \in Cluster /\ Once(PlusAddress(peers[n], n))
  BY <1>1, PlusOnce, ClusterOperators DEF Address
<1>3. record \in ClusterChangeCommand
  BY <1>1, <1>2 DEF ClusterChangeCommand
<1>4. Once(record.oldCluster) /\ Once(record.newCluster)
  BY <1>2
<1>5. log' = [log EXCEPT ![n] = Append(log[n], entry)]
  BY DEF AppendChange, AppendOwn
<1> HIDE DEF record
<1>6. entry \in LogEntry /\ RecordOf(entry) = record
  BY <1>1, <1>3, EntryTypes DEF ChangeEntry, RecordOf, IsClusterChange, ClusterChangeKinds
<1>7. RecordOnce(entry)
  BY <1>4, <1>6 DEF RecordOnce
<1> QED
  BY <1>5, <1>6, <1>7, AppendedOnce

LEMMA ForwardClientOnce ==
  ASSUME OnceInv, "carelessAdmin" \notin Faults, NEW n \in Server, ForwardClient(n)
  PROVE  StepOnce
<1>0. /\ peers \in [Server -> Cluster] /\ peers[n] \in Cluster /\ peers[n][n] = 0
      /\ Once(peers[n]) /\ currentTerm[n] \in Nat
  BY DEF OnceInv, TypeOK, ClusterTypeOK, ElectionTypeOK, PeersCountedOnce, Once
<1>1. PlusAddress(peers[n], n) \in Cluster /\ Once(PlusAddress(peers[n], n))
  BY <1>0, PlusOnce, ClusterOperators DEF Address
<1>2. ASSUME NEW c \in Command, LeaderOnStateMachineCommand(n, c) PROVE StepOnce
  <2>1. /\ CommandEntry(currentTerm[n], c) \in LogEntry
        /\ RecordOnce(CommandEntry(currentTerm[n], c))
    BY <1>0, EntryTypes, PlainEntryOnce DEF CommandEntry, IsClusterChange, ClusterChangeKinds
  <2>2. /\ UNCHANGED peers
        /\ log' = [log EXCEPT ![n] = Append(log[n], CommandEntry(currentTerm[n], c))]
    BY <1>2 DEF LeaderOnStateMachineCommand, AppendOwn
  <2> QED
    BY <2>1, <2>2, AppendedOnce DEF StepOnce, OnceInv, PeersCountedOnce
<1>3. ASSUME NEW a \in Server, MayAsk(n, a, FALSE), LeaderOnAddServer(n, a) PROVE StepOnce
  <2>1. a # n /\ peers[n][a] \in Nat /\ ~(peers[n][a] > 0)
    BY <1>0, <1>3 DEF MayAsk, Cluster, Address
  <2>2. peers[n][a] = 0
    BY <2>1
  <2>3. /\ PlusAddress(peers[n], a) \in Cluster
        /\ Once(PlusAddress(peers[n], a)) /\ PlusAddress(peers[n], a)[n] = 0
    BY <1>0, <2>1, <2>2, PlusOnce, ClusterOperators DEF Address, PlusAddress, Cluster
  <2>4. PlusAddress(peers[n], n)[a] = 0
    BY <1>0, <2>1, <2>2 DEF PlusAddress, Cluster, Address
  <2>5. /\ PlusAddress(PlusAddress(peers[n], n), a) \in Cluster
        /\ Once(PlusAddress(PlusAddress(peers[n], n), a))
    BY <1>1, <2>4, PlusOnce, ClusterOperators DEF Address
  <2>6. peers' = [peers EXCEPT ![n] = PlusAddress(peers[n], a)]
    BY <1>3, <2>1, <2>2 DEF LeaderOnAddServer, SetPeers
  <2>7. AppendChange(n, PlusAddress(PlusAddress(peers[n], n), a))
    BY <1>3 DEF LeaderOnAddServer
  <2> QED
    BY <2>3, <2>5, <2>6, <2>7, NewPeersOnce, AppendChangeOnce DEF StepOnce
<1>4. ASSUME NEW a \in Server, MayAsk(n, a, TRUE), LeaderOnRemoveServer(n, a) PROVE StepOnce
  <2>1. a # n /\ peers[n][a] > 0 /\ a # None
    BY <1>4, NoneAssumption DEF MayAsk
  <2> DEFINE rest == [WithoutAddress(peers[n], a) EXCEPT ![None] = @ + peers[n][a] - 1]
             changed == WithoutAddress(PlusAddress(peers[n], n), a)
  <2>2. peers' = [peers EXCEPT ![n] = rest] /\ AppendChange(n, changed)
    BY <1>4, <2>1 DEF LeaderOnRemoveServer, SetPeers
  <2>3. changed \in Cluster /\ Once(changed)
    BY <1>1, ClusterOperators, WithoutOnce DEF Address
  <2>4. WithoutAddress(peers[n], a) \in Cluster /\ Once(WithoutAddress(peers[n], a))
    BY <1>0, ClusterOperators, WithoutOnce DEF Address
  <2>5. /\ WithoutAddress(peers[n], a)[n] = 0
        /\ WithoutAddress(peers[n], a)[None] + peers[n][a] - 1 \in Nat
    BY <1>0, <2>1, <2>4 DEF WithoutAddress, Cluster, Address
  <2>6. rest \in Cluster /\ \A s \in Server : rest[s] = WithoutAddress(peers[n], a)[s]
    <3> DEFINE others == WithoutAddress(peers[n], a)
               more == others[None] + peers[n][a] - 1
    <3>1. rest = [others EXCEPT ![None] = more]
      OBVIOUS
    <3>2. others \in [Address -> Nat] /\ more \in Nat
      BY <2>4, <2>5 DEF Cluster
    <3> HIDE DEF others, more
    <3>3. \A s \in Server : s \in Address /\ s # None
      BY NoneAssumption DEF Address
    <3>4. rest \in [Address -> Nat] /\ \A s \in Server : rest[s] = others[s]
      BY <3>1, <3>2, <3>3
    <3> QED
      BY <3>4 DEF Cluster, others
  <2>7. Once(rest) /\ rest[n] = 0
    BY <2>4, <2>5, <2>6 DEF Once
  <2> QED
    BY <2>2, <2>3, <2>6, <2>7, NewPeersOnce, AppendChangeOnce DEF StepOnce
<1> QED
  BY <1>2, <1>3, <1>4 DEF ForwardClient

-----------------------------------------------------------------------------
(* All steps, and the requests they send. *)

LEMMA NextOnce ==
  ASSUME OnceInv, "carelessAdmin" \notin Faults, [Next]_vars
  PROVE  StepOnce
<1>1. ASSUME NEW m \in DOMAIN rvRequests, ForwardRequestVote(m) PROVE UNCHANGED <<peers, log>>
  BY <1>1 DEF ForwardRequestVote, CandidateOnRequestVote, LeaderOnRequestVote,
              FollowerOnRequestVote
<1>2. ASSUME NEW r \in DOMAIN aeReplies, ForwardAppendEntriesReply(r)
      PROVE  UNCHANGED <<peers, log>>
  BY <1>2 DEF ForwardAppendEntriesReply, LeaderOnAppendEntriesReply
<1>3. ASSUME NEW n \in Server, ForwardTick(n) PROVE UNCHANGED <<peers, log>>
  BY <1>3 DEF ForwardTick, FollowerOnTimeout, CandidateOnTimeout, LeaderOnTimeout
<1>4. ASSUME NEW n \in Server, HeardExpires(n) \/ Restart(n) \/ StopAndRun(n)
      PROVE  UNCHANGED <<peers, log>>
  BY <1>4 DEF HeardExpires, Restart, StopAndRun
<1>5. CASE UNCHANGED vars
  BY <1>5, SamePeersAndLogs DEF vars
<1> QED
  BY <1>1, <1>2, <1>3, <1>4, <1>5, SamePeersAndLogs, ForwardAppendEntriesOnce,
     ForwardRequestVoteReplyOnce, ForwardClientOnce DEF Next

\* What a leader sends is part of its log.
LEMMA SentOnce ==
  ASSUME OnceInv, NEW n \in Server, NEW a \in Server, NEW from \in Nat
  PROVE  EntriesOnce(AppendEntriesTo(n, a, from, TermAt(log[n], from - 1)).entries)
<1> DEFINE m == AppendEntriesTo(n, a, from, TermAt(log[n], from - 1))
<1>1. TermAt(log[n], from - 1) \in Nat \union {-1}
  BY LogFields, TermAtType DEF OnceInv
<1>2. /\ m.entries \in Seq(LogEntry)
      /\ \A k \in 1 .. Len(m.entries) :
           from + k \in DOMAIN log[n] /\ m.entries[k] = log[n][from + k]
  BY <1>1, AppendEntriesToType DEF OnceInv, TypeOK, AppendEntriesRequest
<1> HIDE DEF m
<1>3. DOMAIN m.entries = 1 .. Len(m.entries)
  BY <1>2, LenProperties
<1>4. EntriesOnce(m.entries)
  BY <1>2, <1>3 DEF OnceInv, LogsOnce, EntriesOnce
<1> QED
  BY <1>4 DEF m

LEMMA OnceNext == "carelessAdmin" \notin Faults /\ OnceInv /\ [Next]_vars => OnceInv'
<1> SUFFICES ASSUME "carelessAdmin" \notin Faults, OnceInv, [Next]_vars PROVE OnceInv'
  OBVIOUS
<1>1. TypeOK' /\ RequestsSent
  BY TypeNext, NextEffects DEF OnceInv, Effects
<1>2. PeersCountedOnce' /\ LogsOnce'
  BY NextOnce DEF StepOnce
<1>3. RequestsOnce'
  <2>1. ASSUME NEW m, m.entries = << >> PROVE EntriesOnce(m.entries)
    BY <2>1 DEF EntriesOnce
  <2> QED
    BY <1>1, <2>1, SentOnce DEF OnceInv, RequestsSent, RequestsOnce
<1> QED
  BY <1>1, <1>2, <1>3 DEF OnceInv

LEMMA OnceInit == Init => OnceInv
<1> SUFFICES ASSUME Init PROVE OnceInv
  OBVIOUS
<1>1. TypeOK
  BY TypeInit
<1>2. PeersCountedOnce
  BY NoneAssumption DEF Init, InitWith, InitialPeers, ClusterOf, PeersCountedOnce, Address
<1>3. LogsOnce
  BY DEF Init, InitWith, LogsOnce, EntriesOnce
<1>4. RequestsOnce
  BY DEF Init, InitWith, EmptyBag, SetToBag, RequestsOnce
<1> QED
  BY <1>1, <1>2, <1>3, <1>4 DEF OnceInv

\* No node counts a server twice, nor itself, towards a majority, however its
\* list of peers came about: by a client's request (leader.go:129-158, 187-223),
\* by an entry of a leader, or by going back to the configuration before a
\* deleted entry (follower.go:96-149).  It holds as long as no administrator
\* adds a member again or removes a server that is none.
THEOREM PeersAreCountedOnce == "carelessAdmin" \notin Faults /\ Spec => []PeersCountedOnce
<1>1. OnceInv => PeersCountedOnce
  BY DEF OnceInv
<1>2. CASE "carelessAdmin" \notin Faults
  <2>1. OnceInv /\ [Next]_vars => OnceInv'
    BY <1>2, OnceNext
  <2> QED
    BY <1>1, <2>1, OnceInit, PTL DEF Spec
<1> QED
  BY <1>2

=============================================================================
