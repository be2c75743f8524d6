---------------------------- MODULE ActionListProofs ----------------------------
(***************************************************************************)
(* The raft log over the storage keeps the promise of DurableLog, whatever *)
(* write fails and wherever the process ends; and so does the log of a     *)
(* follower that carries out its lists, whatever leaders send and wherever *)
(* lists are cut short.  What is in that log is the beginning of one of    *)
(* the leaders' logs; unless something parted the two since the last       *)
(* change was taken over, the configuration in status is that of the       *)
(* newest change; and a rewind ends, whatever the records of changes say.  *)
(***************************************************************************)
EXTENDS ActionList, RaftDataProofs

(* Positions of a list, without the lists. *)

LEMMA IndexPast ==
  ASSUME NEW a \in Nat, NEW b \in Nat, NEW k \in 1 .. b
  PROVE  a + k \in 1 .. a + b /\ ~(a + k <= a) /\ a + k - a = k
OBVIOUS

LEMMA IndexBelow ==
  ASSUME NEW a \in Nat, NEW i \in 1 .. a
  PROVE  \A k \in 1 .. i : k \in 1 .. a
OBVIOUS

LEMMA RemovedCount ==
  ASSUME NEW a \in Nat, NEW prev \in Nat \union {-1}, prev < a
  PROVE  a - 1 - prev \in 0 .. a /\ a - (a - 1 - prev) = prev + 1
OBVIOUS

-----------------------------------------------------------------------------
(* RaftLog. *)

Gapless(keys) ==
  /\ keys.last \in Nat \union {-1}
  /\ keys = [at |-> keys.at, last |-> keys.last]
  /\ keys.at \in [0 .. keys.last -> LogEntry]

\* the keys seen inside of a transaction, and at its end
WithEntry == [at |-> SetKey(disk.at, disk.last + 1, entry), last |-> disk.last]
Appended == [at |-> SetKey(disk.at, disk.last + 1, entry), last |-> disk.last + 1]
WithoutEntry == [at |-> DeleteKey(disk.at, disk.last), last |-> disk.last]
Removed == [at |-> DeleteKey(disk.at, disk.last), last |-> disk.last - 1]

\* What memory and transaction are, relative to the disk, at each place of an
\* operation.
LogInv ==
  /\ Gapless(disk)
  /\ lastIndex \in Nat \union {-1}
  /\ entry \in LogEntry
  /\ \/ /\ pc \in {"idle", "setEntry", "removeFailed"}
        /\ view = disk /\ lastIndex = disk.last
     \/ /\ pc = "setLastIndex"
        /\ view = WithEntry /\ lastIndex = disk.last + 1
     \/ /\ pc = "deleteEntry"
        /\ view = disk /\ lastIndex = disk.last /\ disk.last # -1
     \/ /\ pc = "lowerLastIndex"
        /\ view = WithoutEntry /\ lastIndex = disk.last /\ disk.last # -1
     \/ /\ pc = "commit"
        /\ \/ view = Appended /\ lastIndex = disk.last + 1
           \/ view = Removed /\ lastIndex = disk.last - 1 /\ disk.last # -1
     \/ /\ pc \in {"appendFailed", "down"}
        /\ view = disk

LEMMA NoOpIsEntry == NoOpEntry(0) \in LogEntry
BY DEF NoOpEntry, LogEntry

\* No key at all is the empty log (raftlog.go:39-40).
LEMMA LogInvInit == LogInit => LogInv
<1> SUFFICES ASSUME LogInit PROVE LogInv
  OBVIOUS
<1>1. NoKeys.at \in [0 .. NoKeys.last -> LogEntry]
  <2>1. 0 .. NoKeys.last = {}
    BY DEF NoKeys
  <2>2. DOMAIN NoKeys.at = {}
    BY DEF NoKeys
  <2> QED BY <2>1, <2>2 DEF NoKeys
<1> QED BY <1>1, NoOpIsEntry DEF LogInit, LogInv, Gapless, NoKeys

\* One more entry leaves no gap.
LEMMA AppendedGapless ==
  ASSUME Gapless(disk), entry \in LogEntry
  PROVE  Gapless(Appended) /\ Appended.last = disk.last + 1
                           /\ Appended.at = SetKey(disk.at, disk.last + 1, entry)
<1>1. /\ Appended = [at |-> SetKey(disk.at, disk.last + 1, entry), last |-> disk.last + 1]
      /\ Appended.last = disk.last + 1
      /\ Appended.at = SetKey(disk.at, disk.last + 1, entry)
  BY DEF Gapless, Appended
<1>2. 0 .. (disk.last + 1) = (0 .. disk.last) \union {disk.last + 1}
  BY DEF Gapless
<1>3. SetKey(disk.at, disk.last + 1, entry) \in [0 .. (disk.last + 1) -> LogEntry]
  BY <1>2 DEF Gapless, SetKey
<1> QED BY <1>1, <1>3 DEF Gapless

\* One entry less, at the end, leaves none either.
LEMMA RemovedGapless ==
  ASSUME Gapless(disk), disk.last # -1
  PROVE  Gapless(Removed) /\ Removed.last = disk.last - 1
                          /\ Removed.at = DeleteKey(disk.at, disk.last)
<1>1. /\ Removed = [at |-> DeleteKey(disk.at, disk.last), last |-> disk.last - 1]
      /\ Removed.last = disk.last - 1
      /\ Removed.at = DeleteKey(disk.at, disk.last)
  BY DEF Gapless, Removed
<1>2. 0 .. (disk.last - 1) = (0 .. disk.last) \ {disk.last}
  BY DEF Gapless
<1>3. DeleteKey(disk.at, disk.last) \in [0 .. (disk.last - 1) -> LogEntry]
  BY <1>2 DEF Gapless, DeleteKey
<1> QED BY <1>1, <1>3 DEF Gapless

\* What a transaction may have made of the disk when it ends.
LEMMA CommitEffect ==
  ASSUME LogInv, Commit
  PROVE  /\ Gapless(disk') /\ lastIndex' = disk'.last
         /\ \/ /\ disk'.last = disk.last + 1
               /\ disk'.at = SetKey(disk.at, disk.last + 1, entry)
            \/ /\ disk.last # -1 /\ disk'.last = disk.last - 1
               /\ disk'.at = DeleteKey(disk.at, disk.last)
<1>1. Gapless(disk) /\ entry \in LogEntry /\ disk' = view /\ lastIndex' = lastIndex
  BY DEF LogInv, Commit
<1>2. CASE view = Appended /\ lastIndex = disk.last + 1
  BY <1>1, <1>2, AppendedGapless
<1>3. CASE view = Removed /\ lastIndex = disk.last - 1 /\ disk.last # -1
  BY <1>1, <1>3, RemovedGapless
<1> QED BY <1>2, <1>3 DEF LogInv, Commit

LEMMA LogInvNext == LogInv /\ [LogNext]_logVars => LogInv'
<1> SUFFICES ASSUME LogInv, [LogNext]_logVars PROVE LogInv'
  OBVIOUS
<1> USE DEF LogInv
<1>1. ASSUME NEW e \in LogEntry, BeginAppend(e) PROVE LogInv'
  BY <1>1 DEF BeginAppend, Gapless
<1>2. CASE BeginRemove
  BY <1>2 DEF BeginRemove, Gapless
<1>3. CASE SetEntry
  BY <1>3 DEF SetEntry, Gapless, WithEntry
<1>4. CASE SetLastIndex
  BY <1>4 DEF SetLastIndex, Gapless, Appended, WithEntry
<1>5. CASE DeleteEntry
  BY <1>5 DEF DeleteEntry, Gapless, WithoutEntry
<1>6. CASE LowerLastIndex
  BY <1>6 DEF LowerLastIndex, Gapless, Removed, WithoutEntry
<1>7. CASE Commit
  <2>1. Gapless(disk') /\ lastIndex' = disk'.last /\ disk'.last \in Nat \union {-1}
    BY <1>7, CommitEffect DEF Gapless
  <2> QED BY <1>7, <2>1 DEF Commit, Gapless
<1>8. CASE AppendFails \/ RemoveFails
  BY <1>8 DEF AppendFails, RemoveFails, Gapless
<1>9. CASE IgnoreError \/ End \/ Recover
  BY <1>9 DEF IgnoreError, End, Recover, Gapless
<1>10. CASE UNCHANGED logVars
  BY <1>10 DEF logVars, Gapless, WithEntry, Appended, WithoutEntry, Removed
<1> QED BY <1>1, <1>2, <1>3, <1>4, <1>5, <1>6, <1>7, <1>8, <1>9, <1>10 DEF LogNext, Proceed

LEMMA LogInvHolds == LogSpec => []LogInv
BY LogInvInit, LogInvNext, PTL DEF LogSpec

\* Between two operations, also after an error that the caller ignores, the
\* last index in memory is the one on disk and the entries on disk have no gap
\* (raftlog.go:97 and 169, webapp.go:339).
THEOREM LastIndexIsStored == LogSpec => []LastIndexAgrees
<1>1. LogInv => LastIndexAgrees
  BY DEF LogInv, LastIndexAgrees, Gapless
<1> QED BY <1>1, LogInvHolds, PTL

-----------------------------------------------------------------------------
(* The refinement. *)

LEMMA EntriesInit == LogInit => Durable!Init
BY DEF LogInit, NoKeys, Entries, Durable!Init

LEMMA SameEntries == Durable!LogEntry = LogEntry
BY DEF LogEntry, Durable!LogEntry, ClusterChangeKinds, Durable!ClusterChangeKinds,
       ClusterChangeCommand, Durable!ClusterChangeCommand, Cluster, Durable!Cluster,
       Address, Durable!Address

\* The entries on disk, and those that a transaction leaves.
LEMMA EntriesOfDisk ==
  ASSUME Gapless(disk)
  PROVE  Entries \in Seq(LogEntry) /\ Len(Entries) = disk.last + 1 /\ Len(Entries) \in Nat
<1>1. disk.last \in Nat \union {-1} /\ \A k \in 1 .. disk.last + 1 : disk.at[k - 1] \in LogEntry
  BY DEF Gapless
<1> QED BY <1>1 DEF Entries

LEMMA EntriesAppended ==
  ASSUME Gapless(disk), Gapless(disk'), entry \in LogEntry, disk'.last = disk.last + 1,
         disk'.at = SetKey(disk.at, disk.last + 1, entry)
  PROVE  Entries' = Append(Entries, entry)
<1>1. Entries \in Seq(LogEntry) /\ Len(Entries) = disk.last + 1 /\ disk.last \in Nat \union {-1}
  BY EntriesOfDisk DEF Gapless
<1>2. Entries' = [k \in 1 .. disk'.last + 1 |-> disk'.at[k - 1]]
  BY DEF Entries
<1>3. Entries' \in Seq(LogEntry) /\ Len(Entries') = Len(Entries) + 1
  <2>1. disk'.last \in Nat \union {-1} /\ disk'.at \in [0 .. disk'.last -> LogEntry]
    BY DEF Gapless
  <2>2. \A k \in 1 .. disk'.last + 1 : disk'.at[k - 1] \in LogEntry
    BY <2>1
  <2> QED BY <1>1, <1>2, <2>1, <2>2
<1>4. Entries'[Len(Entries')] = entry
  BY <1>1, <1>2, <1>3 DEF SetKey, Gapless
<1>5. \A k \in 1 .. disk.last + 1 : Entries'[k] = Entries[k]
  BY <1>1, <1>2 DEF SetKey, Gapless, Entries
<1> QED BY <1>1, <1>3, <1>4, <1>5

LEMMA EntriesRemoved ==
  ASSUME Gapless(disk), Gapless(disk'), disk.last # -1, disk'.last = disk.last - 1,
         disk'.at = DeleteKey(disk.at, disk.last)
  PROVE  Len(Entries) > 0 /\ Entries' = SubSeq(Entries, 1, Len(Entries) - 1)
<1>1. Entries \in Seq(LogEntry) /\ Len(Entries) = disk.last + 1 /\ disk.last \in Nat \union {-1}
  BY EntriesOfDisk DEF Gapless
<1>2. Entries' = [k \in 1 .. disk'.last + 1 |-> disk'.at[k - 1]]
  BY DEF Entries
<1>3. Entries' \in Seq(LogEntry) /\ Len(Entries') = Len(Entries) - 1 /\ Len(Entries) > 0
  <2>1. disk'.last \in Nat \union {-1} /\ disk'.at \in [0 .. disk'.last -> LogEntry]
    BY DEF Gapless
  <2>2. \A k \in 1 .. disk'.last + 1 : disk'.at[k - 1] \in LogEntry
    BY <2>1
  <2> QED BY <1>1, <1>2, <2>1, <2>2, SMTT(30)
<1>4. \A k \in 1 .. disk.last : Entries'[k] = Entries[k]
  BY <1>1, <1>2 DEF DeleteKey, Gapless, Entries
<1> QED BY <1>1, <1>3, <1>4

\* The entries on disk change when a transaction ends, and then by one.
LEMMA EntriesStep == LogInv /\ [LogNext]_logVars => [Durable!Next]_Entries
<1> SUFFICES ASSUME LogInv, [LogNext]_logVars PROVE [Durable!Next]_Entries
  OBVIOUS
<1>1. CASE disk' = disk
  BY <1>1 DEF Entries
<1>2. CASE Commit
  <2>1. Gapless(disk) /\ Gapless(disk') /\ entry \in LogEntry
    BY <1>2, CommitEffect DEF LogInv
  <2>2. CASE /\ disk'.last = disk.last + 1
             /\ disk'.at = SetKey(disk.at, disk.last + 1, entry)
    <3>1. Entries' = Append(Entries, entry)
      BY <2>1, <2>2, EntriesAppended
    <3> QED BY <2>1, <3>1, SameEntries DEF Durable!Next, Durable!AppendEntry
  <2>3. CASE /\ disk.last # -1 /\ disk'.last = disk.last - 1
             /\ disk'.at = DeleteKey(disk.at, disk.last)
    <3>1. Len(Entries) > 0 /\ Entries' = SubSeq(Entries, 1, Len(Entries) - 1)
      BY <2>1, <2>3, EntriesRemoved
    <3>2. Entries # << >> /\ Len(Entries) \in Nat
      BY <2>1, <3>1, EntriesOfDisk
    <3>3. EntriesFrom(Entries, 0, LastIndex(Entries) - 1) = SubSeq(Entries, 1, Len(Entries) - 1)
      BY <3>2 DEF EntriesFrom, LastIndex
    <3> QED BY <3>1, <3>2, <3>3 DEF Durable!Next, Durable!RemoveEntry, EntriesFrom, LastIndex,
                                     Durable!EntriesFrom, Durable!LastIndex
  <2> QED BY <1>2, <2>2, <2>3, CommitEffect
<1>3. \/ disk' = disk
      \/ Commit
  BY DEF LogNext, Proceed, BeginAppend, BeginRemove, SetEntry, SetLastIndex, DeleteEntry,
         LowerLastIndex, AppendFails, RemoveFails, IgnoreError, End, Recover, logVars
<1> QED BY <1>1, <1>2, <1>3

\* Append and Remove are atomic and durable: the detailed log implements
\* DurableLog under failing writes, crashes and restarts.
THEOREM LogIsDurable == LogSpec => DurableSpec
BY EntriesInit, EntriesStep, LogInvHolds, PTL DEF LogSpec, DurableSpec, Durable!Spec

-----------------------------------------------------------------------------
(* Requests and lists. *)

LEMMA RequestFields ==
  ASSUME NEW m \in Requests
  PROVE  /\ m.term \in Nat /\ m.prevLogIndex \in Nat \union {-1}
         /\ m.entries \in Seq(LogEntry)
<1>1. PICK term \in DOMAIN LeaderLogs :
        \E e \in (-1 .. LastIndex(LeaderLogs[term])) \X (0 .. LastIndex(LeaderLogs[term])) :
          m = AppendEntriesOf(term, e[1], e[2])
  BY DEF Requests
<1>2. PICK e \in (-1 .. LastIndex(LeaderLogs[term])) \X (0 .. LastIndex(LeaderLogs[term])) :
        m = AppendEntriesOf(term, e[1], e[2])
  BY <1>1
<1>3. /\ term \in Nat /\ LeaderLogs[term] \in Seq(LogEntry)
      /\ e[1] \in Nat \union {-1} /\ e[2] \in Int /\ e[2] <= LastIndex(LeaderLogs[term])
  BY LeaderLogsAssumption, LenProperties DEF LastIndex
<1>4. EntriesFrom(LeaderLogs[term], e[1] + 1, e[2]) \in Seq(LogEntry)
  BY <1>3, EntriesFromType
<1> QED
  BY <1>2, <1>3, <1>4 DEF AppendEntriesOf

\* What a follower knows is typed: needed for the records it rewinds by.
StatusInv ==
  /\ currentTerm \in Nat
  /\ clusterChange \in [index : Int, term : Int]
  /\ peers \in Cluster /\ savedPeers \in Cluster
  /\ todo \in Seq(Step)
  /\ pc \notin {"idle", "down"} => todo # << >>
  /\ acked \in Requests \union {NoRequest}
  /\ torn \in BOOLEAN /\ misled \in BOOLEAN
  /\ {requests, crashes, failures, removals} \subseteq Nat

LEMMA LogIsSeq ==
  ASSUME LogInv, pc = "idle"
  PROVE  Log \in Seq(LogEntry)
<1>1. /\ view = disk /\ lastIndex = disk.last /\ disk.last \in Nat \union {-1}
      /\ disk.at \in [0 .. disk.last -> LogEntry]
  BY DEF LogInv, Gapless
<1>2. \A k \in 1 .. disk.last + 1 : disk.at[k - 1] \in LogEntry
  BY <1>1
<1> QED BY <1>1, <1>2 DEF Log

LEMMA ConfigurationFields ==
  ASSUME LogInv, pc = "idle", StatusInv, NEW c \in Configurations
  PROVE  c.index \in Int /\ c.term \in Int /\ c.cluster \in Cluster
<1>1. CASE c = CurrentConfiguration
  <2>1. Self \in Address
    BY InitialPeersAssumption DEF Address
  <2> QED BY <1>1, <2>1, ClusterOperators DEF CurrentConfiguration, StatusInv
<1>2. ASSUME NEW k \in DOMAIN Log,
             c = [index |-> RecordOf(Log[k]).oldIndex, term |-> RecordOf(Log[k]).oldTerm,
                  cluster |-> RecordOf(Log[k]).oldCluster]
      PROVE  c.index \in Int /\ c.term \in Int /\ c.cluster \in Cluster
  <2>1. Log[k] \in LogEntry
    BY LogIsSeq, LenProperties, ElementOfSeq
  <2>2. RecordOf(Log[k]) \in ClusterChangeCommand
    BY <2>1, EntryFields
  <2> QED BY <1>2, <2>2 DEF ClusterChangeCommand
<1> QED BY <1>1, <1>2 DEF Configurations

\* The parts of a list are lists.
LEMMA ConfigureType ==
  ASSUME NEW index \in Int, NEW term \in Int, NEW cluster \in Cluster
  PROVE  Configure(index, term, cluster) \in Seq(Step)
<1>1. WithoutAddress(cluster, Self) \in Cluster
  BY ClusterOperators, InitialPeersAssumption DEF Address
<1>2. [do |-> "setClusterChange", index |-> index, term |-> term] \in Step
  BY DEF Step
<1>3. [do |-> "setPeers", peers |-> WithoutAddress(cluster, Self)] \in Step
  BY <1>1 DEF Step
<1> QED BY <1>2, <1>3 DEF Configure

LEMMA TermStepType ==
  ASSUME NEW m \in Requests
  PROVE  TermStep(m) \o << [do |-> "reply"] >> \in Seq(Step)
<1>1. [do |-> "setCurrentTerm", term |-> m.term] \in Step /\ [do |-> "reply"] \in Step
  BY RequestFields DEF Step
<1>2. << [do |-> "setCurrentTerm", term |-> m.term] >> \in Seq(Step)
      /\ << [do |-> "reply"] >> \in Seq(Step) /\ << >> \in Seq(Step)
  BY <1>1
<1>3. TermStep(m) \in Seq(Step)
  BY <1>2 DEF TermStep
<1> QED BY <1>2, <1>3, ConcatProperties

LEMMA RepeatedType ==
  ASSUME NEW n \in Int, NEW kind \in {"remove", "adminRemove"}
  PROVE  [k \in 1 .. n |-> [do |-> kind]] \in Seq(Step)
<1>1. [do |-> kind] \in Step
  BY DEF Step
<1>2. CASE n \in Nat
  BY <1>1, <1>2
<1>3. CASE n \notin Nat
  <2>1. 1 .. n = 1 .. 0
    BY <1>3
  <2> QED BY <1>1, <2>1
<1> QED BY <1>2, <1>3

LEMMA AppendLogType ==
  ASSUME NEW entries \in Seq(LogEntry)
  PROVE  AppendLog(entries) \in Seq(Step)
<1>1. DOMAIN entries = 1 .. Len(entries) /\ Len(entries) \in Nat
  BY LenProperties
<1>2. \A k \in 1 .. Len(entries) : [do |-> "append", entry |-> entries[k]] \in Step
  BY ElementOfSeq DEF Step
<1> QED BY <1>1, <1>2 DEF AppendLog

LEMMA AcceptedListType ==
  ASSUME LogInv, pc = "idle", StatusInv, NEW m \in Requests,
         NEW rewound \in Configurations, NEW newest \in NewestChange(m)
  PROVE  AcceptedList(m, rewound, newest) \in Seq(Step)
<1>1. m.prevLogIndex \in Int /\ m.entries \in Seq(LogEntry) /\ lastIndex \in Int
  BY RequestFields DEF LogInv
<1>2. << >> \in Seq(Step)
  BY EmptySeq
<1>3. RewindIfDeleted(m, rewound) \in Seq(Step)
  BY <1>2, ConfigurationFields, ConfigureType DEF RewindIfDeleted
<1>4. ConfigureNewest(m, newest) \in Seq(Step)
  <2>1. CASE newest = 0
    BY <1>2, <2>1 DEF ConfigureNewest
  <2>2. CASE newest # 0
    <3>1. newest \in DOMAIN m.entries
      BY <2>2 DEF NewestChange
    <3>2. newest \in Int /\ m.entries[newest] \in LogEntry
      BY <1>1, <3>1, LenProperties, ElementOfSeq
    <3>3. m.entries[newest].term \in Int /\ RecordOf(m.entries[newest]).newCluster \in Cluster
      BY <3>2, EntryFields DEF ClusterChangeCommand
    <3>4. m.prevLogIndex + newest \in Int
      BY <1>1, <3>2
    <3> QED BY <2>2, <3>3, <3>4, ConfigureType DEF ConfigureNewest
  <2> QED BY <2>1, <2>2
<1>5. DeleteLog(lastIndex - m.prevLogIndex) \in Seq(Step)
  <2> DEFINE count == lastIndex - m.prevLogIndex
  <2>1. count \in Int
    BY <1>1
  <2> HIDE DEF count
  <2>2. [k \in 1 .. count |-> [do |-> "remove"]] \in Seq(Step)
    BY <2>1, RepeatedType
  <2>3. DeleteLog(count) \in Seq(Step)
    BY <2>2 DEF DeleteLog
  <2> QED BY <2>3 DEF count
<1>6. AppendLog(m.entries) \in Seq(Step)
  BY <1>1, AppendLogType
<1> DEFINE head == TermStep(m) \o << [do |-> "reply"] >>
           change == DeleteLog(lastIndex - m.prevLogIndex) \o RewindIfDeleted(m, rewound)
                     \o AppendLog(m.entries) \o ConfigureNewest(m, newest)
<1>7. head \in Seq(Step)
  BY TermStepType
<1>8. change \in Seq(Step)
  BY <1>3, <1>4, <1>5, <1>6, ConcatProperties
<1>9. AcceptedList(m, rewound, newest) = head \o (IF m.entries = << >> THEN << >> ELSE change)
  BY DEF AcceptedList
<1> HIDE DEF head, change
<1> QED BY <1>2, <1>7, <1>8, <1>9, ConcatProperties

-----------------------------------------------------------------------------
(* Every step is one of RaftLog or leaves its variables alone. *)

LEMMA ListStepIsLogStep ==
  ASSUME LogInv, StatusInv, [ListNext]_listAndLogVars
  PROVE  [LogNext]_logVars
<1>1. ASSUME NEW m \in Requests,
             ForwardRefused(m) \/ FollowerOnAppendEntries(m) \/ ForwardPanics(m)
      PROVE  [LogNext]_logVars
  BY <1>1 DEF ForwardRefused, FollowerOnAppendEntries, ForwardPanics, EndProcess, LogNext
<1>2. CASE ReplyAppendEntries \/ SetCurrentTerm \/ SetClusterChange
           \/ SetPeerAddresses \/ SetPeerAddressesUnsaved
  BY <1>2 DEF ReplyAppendEntries, SetCurrentTerm, SetClusterChange, SetPeerAddresses,
              SetPeerAddressesUnsaved, PeersTaken
<1>3. CASE AppendEntry
  <2>1. Head(todo) \in Step /\ Head(todo).do = "append"
    BY <1>3, HeadTailProperties DEF AppendEntry, Perform, StatusInv
  <2>2. Head(todo).entry \in LogEntry
    BY <2>1 DEF Step
  <2> QED BY <1>3, <2>2 DEF AppendEntry, LogNext
<1>4. CASE RemoveEntry \/ WriteKey \/ CommitEntry \/ WriteFails
  BY <1>4 DEF RemoveEntry, WriteKey, CommitEntry, WriteFails, LogNext, Proceed
<1>5. CASE Panic \/ RemoveGoesOn \/ Crash \/ Restart
  BY <1>5 DEF Panic, RemoveGoesOn, Crash, Restart, EndProcess, LogNext
<1>6. ASSUME NEW count, RemoveLogs(count) PROVE [LogNext]_logVars
  BY <1>6 DEF RemoveLogs
<1>7. CASE UNCHANGED listAndLogVars
  BY <1>7 DEF listAndLogVars
<1> QED BY <1>1, <1>2, <1>3, <1>4, <1>5, <1>6, <1>7 DEF ListNext

-----------------------------------------------------------------------------
(* Types. *)

LEMMA StatusInvInit == ListInit => StatusInv
<1> SUFFICES ASSUME ListInit PROVE StatusInv
  OBVIOUS
<1>1. << >> \in Seq(Step)
  BY EmptySeq
<1>2. clusterChange \in [index : Int, term : Int]
  BY DEF ListInit, NoChange
<1>3. {requests, crashes, failures, removals} \subseteq Nat
  BY DEF ListInit
<1>4. pc = "idle"
  BY DEF ListInit, LogInit
<1>5. /\ currentTerm \in Nat /\ peers \in Cluster /\ savedPeers \in Cluster
      /\ todo \in Seq(Step) /\ acked \in Requests \union {NoRequest}
      /\ torn \in BOOLEAN /\ misled \in BOOLEAN
  BY <1>1, InitialPeersAssumption DEF ListInit
<1> QED BY <1>2, <1>3, <1>4, <1>5 DEF StatusInv

LEMMA StatusInvNext ==
  ASSUME LogInv, StatusInv, [ListNext]_listAndLogVars
  PROVE  StatusInv'
<1> USE DEF StatusInv, statusVars, boundVars
<1>0. /\ NoRequest \in Requests \union {NoRequest}
      /\ \A m \in Requests : m \in Requests \union {NoRequest}
      /\ Requests' = Requests /\ NoRequest' = NoRequest
      /\ << >> \in Seq(Step)
  BY EmptySeq DEF Requests, NoRequest
<1>1. ASSUME todo # << >> PROVE Head(todo) \in Step /\ Tail(todo) \in Seq(Step)
  BY <1>1, HeadTailProperties
<1>2. ASSUME NEW m \in Requests, ForwardRefused(m) PROVE StatusInv'
  BY <1>0, <1>2, TermStepType DEF ForwardRefused, Receive, AtRest, logVars
<1>3. ASSUME NEW m \in Requests, FollowerOnAppendEntries(m) PROVE StatusInv'
  <2>1. todo' \in Seq(Step)
    BY <1>3, AcceptedListType DEF FollowerOnAppendEntries, Receive, AtRest
  <2> QED BY <1>0, <1>3, <2>1 DEF FollowerOnAppendEntries, Receive, AtRest, logVars
<1>4. ASSUME EndProcess, ({requests, crashes, failures, removals} \subseteq Nat)'
      PROVE  StatusInv'
  <2>1. /\ pc' = "down" /\ todo' = << >> /\ peers' = savedPeers
        /\ acked' = (IF AtRest THEN acked ELSE NoRequest)
        /\ UNCHANGED <<currentTerm, clusterChange, savedPeers, misled>>
    BY <1>4 DEF EndProcess, End
  <2>2. torn' \in BOOLEAN
    <3>1. torn' = (torn \/ (Begun /\ Unconfigured) \/ peers # savedPeers)
      BY <1>4 DEF EndProcess
    <3> QED BY <3>1, Zenon
  <2>3. acked' \in Requests \union {NoRequest}
    BY <1>0, <2>1
  <2>4. /\ currentTerm' \in Nat /\ clusterChange' \in [index : Int, term : Int]
        /\ peers' \in Cluster /\ savedPeers' \in Cluster /\ todo' \in Seq(Step)
        /\ misled' \in BOOLEAN
    BY <1>0, <2>1
  <2>5. (pc \notin {"idle", "down"} => todo # << >>)'
    BY <2>1
  <2> QED BY <1>0, <1>4, <2>2, <2>3, <2>4, <2>5
<1>5. CASE ReplyAppendEntries \/ SetCurrentTerm \/ SetClusterChange
  <2>1. todo # << >> /\ Head(todo) \in Step /\ todo' = Tail(todo) /\ todo' \in Seq(Step)
    BY <1>1, <1>5 DEF ReplyAppendEntries, SetCurrentTerm, SetClusterChange, Perform, Done
  <2>2. /\ Head(todo).do = "setCurrentTerm" => Head(todo).term \in Nat
        /\ Head(todo).do = "setClusterChange" =>
             Head(todo).index \in Int /\ Head(todo).term \in Int
    BY <2>1 DEF Step
  <2> QED BY <1>0, <1>5, <2>1, <2>2
          DEF ReplyAppendEntries, SetCurrentTerm, SetClusterChange, Perform, Done, logVars
<1>6. CASE SetPeerAddresses \/ SetPeerAddressesUnsaved
  <2>1. /\ PeersTaken
        /\ savedPeers' = peers' \/ savedPeers' = savedPeers
        /\ ({requests, crashes, failures, removals} \subseteq Nat)'
    BY <1>6 DEF SetPeerAddresses, SetPeerAddressesUnsaved
  <2>2. /\ todo # << >> /\ Head(todo) \in Step /\ todo' \in Seq(Step)
        /\ Head(todo).do = "setPeers" /\ peers' = Head(todo).peers
        /\ UNCHANGED <<pc, currentTerm, clusterChange, acked>> /\ pc = "idle"
    BY <1>1, <2>1 DEF PeersTaken, Perform, logVars
  <2>3. peers' \in Cluster
    BY <2>2 DEF Step
  <2>4. torn' \in BOOLEAN /\ misled' \in BOOLEAN
    <3>1. torn' = (torn /\ todo' # << >>) /\ misled' = (misled /\ todo' # << >>)
      BY <2>1 DEF PeersTaken
    <3> QED BY <3>1, Zenon
  <2> QED BY <1>0, <2>1, <2>2, <2>3, <2>4
<1>7. CASE AppendEntry \/ RemoveEntry \/ WriteKey \/ WriteFails
  <2>1. todo # << >>
    BY <1>7 DEF AppendEntry, RemoveEntry, Perform, WriteKey, Proceed, SetEntry, SetLastIndex,
                DeleteEntry, LowerLastIndex, Commit, WriteFails, AppendFails, RemoveFails
  <2> QED BY <1>0, <1>7, <2>1 DEF AppendEntry, RemoveEntry, WriteKey, WriteFails, listVars
<1>8. CASE CommitEntry \/ RemoveGoesOn
  <2>1. todo # << >>
    BY <1>8 DEF CommitEntry, Commit, RemoveGoesOn, IgnoreError
  <2>2. pc' = "idle"
    BY <1>8 DEF CommitEntry, Commit, RemoveGoesOn, IgnoreError
  <2>3. torn' \in BOOLEAN /\ misled' \in BOOLEAN
    <3>1. \/ UNCHANGED <<torn, misled>>
          \/ /\ torn' = (torn \/ (Head(todo).do = "adminRemove" /\ clusterChange.index > view.last))
             /\ misled' = (misled \/ (Head(todo).do = "remove" /\ Misleads(Len(Entries))))
      BY <1>8 DEF CommitEntry, RemoveGoesOn, Done
    <3> QED BY <3>1, Zenon
  <2>4. UNCHANGED <<currentTerm, clusterChange, peers, savedPeers, acked, requests, crashes,
                    failures, removals>> /\ todo' = Tail(todo)
    BY <1>8 DEF CommitEntry, RemoveGoesOn, Done
  <2> QED BY <1>0, <1>1, <2>1, <2>2, <2>3, <2>4
<1>9. ASSUME Panic \/ Crash \/ \E m \in Requests : ForwardPanics(m) PROVE StatusInv'
  <2>1. EndProcess /\ ({requests, crashes, failures, removals} \subseteq Nat)'
    BY <1>9 DEF Panic, Crash, ForwardPanics, Receive
  <2> QED BY <1>4, <2>1
<1>10. CASE Restart
  BY <1>0, <1>10 DEF Restart, Recover, listVars
<1>11. ASSUME NEW count \in 1 .. lastIndex + 1, RemoveLogs(count) PROVE StatusInv'
  <2>1. todo' \in Seq(Step)
    <3>1. count \in Int
      OBVIOUS
    <3>2. [k \in 1 .. count |-> [do |-> "adminRemove"]] \in Seq(Step)
      BY <3>1, RepeatedType
    <3> QED BY <1>11, <3>2 DEF RemoveLogs
  <2> QED BY <1>0, <1>11, <2>1 DEF RemoveLogs, AtRest, logVars
<1>12. CASE UNCHANGED listAndLogVars
  BY <1>0, <1>12 DEF listAndLogVars, listVars, logVars
<1> QED BY <1>2, <1>3, <1>4, <1>5, <1>7, <1>8, <1>9, <1>10, <1>11, <1>12,
       <1>6 DEF ListNext

LEMMA ListInvHolds == ListSpec => [](LogInv /\ StatusInv)
<1>1. ListInit => LogInv /\ StatusInv
  BY LogInvInit, StatusInvInit DEF ListInit
<1>2. LogInv /\ StatusInv /\ [ListNext]_listAndLogVars => (LogInv /\ StatusInv)'
  BY LogInvNext, ListStepIsLogStep, StatusInvNext
<1> QED BY <1>1, <1>2, PTL DEF ListSpec

\* Status, log and list keep their types, whatever requests arrive.
THEOREM ListTypeCorrect == ListSpec => []ListTypeOK
<1>1. LogInv /\ StatusInv => ListTypeOK
  <2> SUFFICES ASSUME LogInv, StatusInv PROVE ListTypeOK
    OBVIOUS
  <2>1. ASSUME NEW keys, Gapless(keys) PROVE IsKeys(keys)
    BY <2>1 DEF Gapless, IsKeys
  <2>2. Gapless(disk) /\ entry \in LogEntry
    BY DEF LogInv
  <2>3. IsKeys(view)
    <3>1. CASE view = disk
      BY <2>1, <2>2, <3>1
    <3>2. CASE view = Appended \/ (view = Removed /\ disk.last # -1)
      BY <2>1, <2>2, <3>2, AppendedGapless, RemovedGapless
    <3>3. CASE view = WithEntry
      BY <2>2, <3>3 DEF WithEntry, IsKeys, Gapless, SetKey
    <3>4. CASE view = WithoutEntry /\ disk.last # -1
      BY <2>2, <3>4 DEF WithoutEntry, IsKeys, Gapless, DeleteKey
    <3>5. \/ view = disk
          \/ view = Appended
          \/ view = Removed /\ disk.last # -1
          \/ view = WithEntry
          \/ view = WithoutEntry /\ disk.last # -1
      BY DEF LogInv
    <3> QED BY <3>1, <3>2, <3>3, <3>4, <3>5
  <2>4. LogTypeOK
    <3>1. IsKeys(disk)
      BY <2>1, <2>2
    <3>2. /\ lastIndex \in Nat \union {-1}
          /\ pc \in {"idle", "setEntry", "setLastIndex", "deleteEntry", "lowerLastIndex",
                    "commit", "appendFailed", "removeFailed", "down"}
      BY DEF LogInv
    <3> QED BY <2>2, <2>3, <3>1, <3>2 DEF LogTypeOK
  <2> QED BY <2>4 DEF StatusInv, ListTypeOK
<1> QED BY <1>1, ListInvHolds, PTL

\* A follower's log behind the executor and the webapp is RaftLog's ...
LEMMA ListImplementsLog == ListSpec => LogSpec
<1>1. ListInit => LogInit
  BY DEF ListInit
<1>2. LogInv /\ StatusInv /\ [ListNext]_listAndLogVars => [LogNext]_logVars
  BY ListStepIsLogStep
<1> QED BY <1>1, <1>2, ListInvHolds, PTL DEF ListSpec, LogSpec

\* ... so its last index in memory is the stored one between two operations ...
THEOREM FollowerIndexIsStored == ListSpec => []LastIndexAgrees
BY ListImplementsLog, LastIndexIsStored, PTL

\* ... and its entries change by whole entries, at the end: the executor, with
\* the crashes and errors in the middle of its lists, implements DurableLog.
THEOREM FollowerLogIsDurable == ListSpec => DurableSpec
BY ListImplementsLog, LogIsDurable, PTL

-----------------------------------------------------------------------------
(***************************************************************************)
(* The list of an accepted request is, at any moment, what remains of it:  *)
(* p of the answer, the removal of n entries, c of the change back, the    *)
(* entries es to append, and d of the change on.                           *)
(***************************************************************************)
ListOf(p, n, c, es, d) == p \o (DeleteLog(n) \o (c \o (AppendLog(es) \o d)))

IsAnswer(p) ==
  p \in Seq(Step) /\ \A k \in DOMAIN p : p[k].do \in {"setCurrentTerm", "reply"}

\* a Configure, or what remains of it
IsReconfiguration(c) ==
  /\ c \in Seq(Step)
  /\ \/ c = << >>
     \/ Len(c) = 1 /\ c[1].do = "setPeers"
     \/ Len(c) = 2 /\ c[1].do = "setClusterChange" /\ c[2].do = "setPeers"

Remains(p, n, c, es, d) ==
  /\ IsAnswer(p) /\ n \in Nat /\ es \in Seq(LogEntry)
  /\ IsReconfiguration(c) /\ IsReconfiguration(d)

LEMMA TailOfConcat ==
  ASSUME NEW S, NEW s \in Seq(S), NEW t \in Seq(S), s # << >>
  PROVE  /\ s \o t # << >>
         /\ Head(s \o t) = Head(s)
         /\ Tail(s \o t) = Tail(s) \o t
<1>1. /\ s \o t \in Seq(S) /\ Len(s \o t) = Len(s) + Len(t)
      /\ \A i \in 1 .. Len(s) + Len(t) :
           (s \o t)[i] = IF i <= Len(s) THEN s[i] ELSE t[i - Len(s)]
  BY ConcatProperties
<1>2. Len(s) \in Nat /\ Len(t) \in Nat /\ Len(s) # 0
  BY EmptySeq, LenProperties
<1>3. s \o t # << >>
  BY <1>1, <1>2
<1>4. /\ Tail(s) \in Seq(S) /\ Len(Tail(s)) = Len(s) - 1
      /\ \A i \in 1 .. Len(Tail(s)) : Tail(s)[i] = s[i + 1]
  BY HeadTailProperties
<1>5. /\ Tail(s \o t) \in Seq(S) /\ Len(Tail(s \o t)) = Len(s) + Len(t) - 1
      /\ \A i \in 1 .. Len(Tail(s \o t)) : Tail(s \o t)[i] = (s \o t)[i + 1]
  BY <1>1, <1>3, HeadTailProperties
<1>6. /\ Tail(s) \o t \in Seq(S) /\ Len(Tail(s) \o t) = Len(s) - 1 + Len(t)
      /\ \A i \in 1 .. Len(s) - 1 + Len(t) :
           (Tail(s) \o t)[i] = IF i <= Len(s) - 1 THEN Tail(s)[i] ELSE t[i - (Len(s) - 1)]
  BY <1>4, ConcatProperties
<1>7. Head(s \o t) = Head(s)
  <2>1. (s \o t)[1] = s[1]
    BY <1>1, <1>2
  <2> QED BY <2>1
<1>8. ASSUME NEW i \in 1 .. Len(s) + Len(t) - 1
      PROVE  Tail(s \o t)[i] = (Tail(s) \o t)[i]
  <2>1. i + 1 \in 1 .. Len(s) + Len(t) /\ Tail(s \o t)[i] = (s \o t)[i + 1]
    BY <1>2, <1>5
  <2>2. CASE i <= Len(s) - 1
    <3>1. i \in 1 .. Len(Tail(s)) /\ i + 1 <= Len(s)
      BY <1>2, <1>4, <2>2
    <3> QED BY <1>1, <1>2, <1>4, <1>6, <2>1, <2>2, <3>1
  <2>3. CASE ~(i <= Len(s) - 1)
    <3>1. ~(i + 1 <= Len(s)) /\ i + 1 - Len(s) = i - (Len(s) - 1)
      BY <1>2, <2>3
    <3> QED BY <1>1, <1>2, <1>6, <2>1, <2>3, <3>1
  <2> QED BY <2>2, <2>3
<1>9. Tail(s \o t) = Tail(s) \o t
  BY <1>2, <1>5, <1>6, <1>8, SeqEqual
<1> QED BY <1>3, <1>7, <1>9

LEMMA PartsOfList ==
  /\ \A n \in Nat : DeleteLog(n) \in Seq(Step)
  /\ DeleteLog(0) = << >> /\ AppendLog(<< >>) = << >>
  /\ \A n \in Nat \ {0} : /\ DeleteLog(n) # << >> /\ Head(DeleteLog(n)).do = "remove"
                          /\ Tail(DeleteLog(n)) = DeleteLog(n - 1)
  /\ \A es \in Seq(LogEntry) : AppendLog(es) \in Seq(Step)
  /\ \A es \in Seq(LogEntry) \ {<< >>} :
       /\ AppendLog(es) # << >> /\ Head(AppendLog(es)) = [do |-> "append", entry |-> Head(es)]
       /\ Tail(AppendLog(es)) = AppendLog(Tail(es)) /\ Tail(es) \in Seq(LogEntry)
<1>1. \A n \in Nat : DeleteLog(n) \in Seq(Step)
  BY RepeatedType DEF DeleteLog
<1>2. DeleteLog(0) = << >> /\ AppendLog(<< >>) = << >>
  BY DEF DeleteLog, AppendLog
<1>3. ASSUME NEW n \in Nat \ {0}
      PROVE  /\ DeleteLog(n) # << >> /\ Head(DeleteLog(n)).do = "remove"
             /\ Tail(DeleteLog(n)) = DeleteLog(n - 1)
  <2>1. Len(DeleteLog(n)) = n /\ Len(DeleteLog(n - 1)) = n - 1
    BY DEF DeleteLog
  <2>2. DeleteLog(n) # << >>
    BY <2>1, <1>2
  <2>3. DeleteLog(n) \in Seq(Step) /\ DeleteLog(n - 1) \in Seq(Step)
    BY <1>1
  <2>4. /\ Tail(DeleteLog(n)) \in Seq(Step) /\ Len(Tail(DeleteLog(n))) = n - 1
        /\ \A i \in 1 .. n - 1 : Tail(DeleteLog(n))[i] = DeleteLog(n)[i + 1]
    BY <2>1, <2>2, <2>3, HeadTailProperties
  <2>5. \A i \in 1 .. n - 1 : DeleteLog(n)[i + 1] = DeleteLog(n - 1)[i]
    BY DEF DeleteLog
  <2>6. Head(DeleteLog(n)).do = "remove"
    BY DEF DeleteLog
  <2> QED BY <2>1, <2>2, <2>3, <2>4, <2>5, <2>6, SeqEqual
<1>4. \A es \in Seq(LogEntry) : AppendLog(es) \in Seq(Step)
  BY AppendLogType
<1>5. ASSUME NEW es \in Seq(LogEntry), es # << >>
      PROVE  /\ AppendLog(es) # << >>
             /\ Head(AppendLog(es)) = [do |-> "append", entry |-> Head(es)]
             /\ Tail(AppendLog(es)) = AppendLog(Tail(es)) /\ Tail(es) \in Seq(LogEntry)
  <2>1. /\ Tail(es) \in Seq(LogEntry) /\ Len(Tail(es)) = Len(es) - 1
        /\ \A i \in 1 .. Len(es) - 1 : Tail(es)[i] = es[i + 1]
        /\ Len(es) \in Nat \ {0} /\ DOMAIN es = 1 .. Len(es)
        /\ DOMAIN Tail(es) = 1 .. Len(es) - 1
    BY <1>5, HeadTailProperties, LenProperties, EmptySeq
  <2>2. AppendLog(es) \in Seq(Step) /\ AppendLog(Tail(es)) \in Seq(Step)
    BY <1>4, <2>1
  <2>3. Len(AppendLog(es)) = Len(es) /\ Len(AppendLog(Tail(es))) = Len(es) - 1
    BY <2>1, <2>2, LenProperties DEF AppendLog
  <2>4. AppendLog(es) # << >>
    BY <2>1, <2>3
  <2>5. /\ Tail(AppendLog(es)) \in Seq(Step) /\ Len(Tail(AppendLog(es))) = Len(es) - 1
        /\ \A i \in 1 .. Len(es) - 1 : Tail(AppendLog(es))[i] = AppendLog(es)[i + 1]
    BY <2>2, <2>3, <2>4, HeadTailProperties
  <2>6. \A i \in 1 .. Len(es) - 1 : AppendLog(es)[i + 1] = AppendLog(Tail(es))[i]
    BY <2>1 DEF AppendLog
  <2>7. Tail(AppendLog(es)) = AppendLog(Tail(es))
    BY <2>2, <2>3, <2>5, <2>6, SeqEqual
  <2>8. Head(AppendLog(es)) = [do |-> "append", entry |-> Head(es)]
    BY <2>1 DEF AppendLog
  <2> QED BY <2>1, <2>4, <2>7, <2>8
<1> QED BY <1>1, <1>2, <1>3, <1>4, <1>5

LEMMA ReconfigurationTail ==
  ASSUME NEW c, IsReconfiguration(c), c # << >>
  PROVE  /\ IsReconfiguration(Tail(c))
         /\ Head(c).do = "setClusterChange" =>
              /\ Len(c) = 2 /\ Tail(c)[1] = c[2]
              /\ Tail(c) # << >> /\ Len(Tail(c)) # 2
         /\ Head(c).do = "setPeers" => Len(c) # 2 /\ Tail(c) = << >> /\ Len(Tail(c)) # 2
         /\ Head(c) = c[1]
         /\ Head(c).do \in {"setClusterChange", "setPeers"}
<1>1. /\ c \in Seq(Step) /\ Tail(c) \in Seq(Step) /\ Len(Tail(c)) = Len(c) - 1
      /\ \A i \in 1 .. Len(Tail(c)) : Tail(c)[i] = c[i + 1]
  BY HeadTailProperties DEF IsReconfiguration
<1>2. Head(c) = c[1]
  OBVIOUS
<1>3. CASE Len(c) = 1 /\ c[1].do = "setPeers"
  <2>1. Len(Tail(c)) = 0
    BY <1>1, <1>3
  <2>2. Tail(c) = << >>
    BY <1>1, <2>1, EmptySeq
  <2>3. Len(c) # 2 /\ Len(Tail(c)) # 2
    BY <1>3, <2>1
  <2> QED BY <1>1, <1>2, <1>3, <2>2, <2>3 DEF IsReconfiguration
<1>4. CASE Len(c) = 2 /\ c[1].do = "setClusterChange" /\ c[2].do = "setPeers"
  <2>1. Len(Tail(c)) = 1
    BY <1>1, <1>4
  <2>2. 1 \in 1 .. Len(Tail(c)) /\ 1 + 1 = 2
    BY <2>1
  <2> DEFINE rest == Tail(c)
  <2>3. \A i \in 1 .. Len(rest) : rest[i] = c[i + 1]
    BY <1>1
  <2> HIDE DEF rest
  <2>4. rest[1] = c[2]
    BY <2>2, <2>3 DEF rest
  <2>5. Len(rest) # 2 /\ rest # << >>
    <3>1. Len(rest) = 1 /\ Len(<< >>) = 0
      BY <2>1 DEF rest
    <3> QED BY <3>1
  <2> QED BY <1>1, <1>2, <1>4, <2>1, <2>4, <2>5 DEF IsReconfiguration, rest
<1> QED BY <1>3, <1>4 DEF IsReconfiguration

\* The first action of the list is the first one of the part that is due.
LEMMA NextOfList ==
  ASSUME NEW p, NEW n, NEW c, NEW es, NEW d, Remains(p, n, c, es, d),
         ListOf(p, n, c, es, d) # << >>
  PROVE  \/ /\ p # << >> /\ Head(ListOf(p, n, c, es, d)).do \in {"setCurrentTerm", "reply"}
            /\ Tail(ListOf(p, n, c, es, d)) = ListOf(Tail(p), n, c, es, d)
            /\ Remains(Tail(p), n, c, es, d)
         \/ /\ p = << >> /\ n > 0 /\ Head(ListOf(p, n, c, es, d)).do = "remove"
            /\ Tail(ListOf(p, n, c, es, d)) = ListOf(<< >>, n - 1, c, es, d)
            /\ Remains(<< >>, n - 1, c, es, d)
         \/ /\ p = << >> /\ n = 0 /\ c # << >>
            /\ Head(ListOf(p, n, c, es, d)) = Head(c)
            /\ Tail(ListOf(p, n, c, es, d)) = ListOf(<< >>, 0, Tail(c), es, d)
            /\ Remains(<< >>, 0, Tail(c), es, d)
         \/ /\ p = << >> /\ n = 0 /\ c = << >> /\ es # << >>
            /\ Head(ListOf(p, n, c, es, d)) = [do |-> "append", entry |-> Head(es)]
            /\ Tail(ListOf(p, n, c, es, d)) = ListOf(<< >>, 0, << >>, Tail(es), d)
            /\ Remains(<< >>, 0, << >>, Tail(es), d)
         \/ /\ p = << >> /\ n = 0 /\ c = << >> /\ es = << >> /\ d # << >>
            /\ Head(ListOf(p, n, c, es, d)) = Head(d)
            /\ Tail(ListOf(p, n, c, es, d)) = ListOf(<< >>, 0, << >>, << >>, Tail(d))
            /\ Remains(<< >>, 0, << >>, << >>, Tail(d))
<1> DEFINE afterAppends == AppendLog(es) \o d
           afterChange == c \o afterAppends
           afterRemoves == DeleteLog(n) \o afterChange
<1>1. /\ p \in Seq(Step) /\ c \in Seq(Step) /\ d \in Seq(Step) /\ << >> \in Seq(Step)
      /\ DeleteLog(n) \in Seq(Step) /\ AppendLog(es) \in Seq(Step)
      /\ n \in Nat /\ es \in Seq(LogEntry) /\ IsAnswer(<< >>) /\ IsAnswer(p)
      /\ IsReconfiguration(c) /\ IsReconfiguration(d) /\ IsReconfiguration(<< >>)
      /\ << >> \in Seq(LogEntry)
  BY PartsOfList, EmptySeq DEF Remains, IsAnswer, IsReconfiguration
<1>2. afterAppends \in Seq(Step) /\ afterChange \in Seq(Step) /\ afterRemoves \in Seq(Step)
  BY <1>1, ConcatProperties
<1>3. ListOf(p, n, c, es, d) = p \o afterRemoves
  BY DEF ListOf
<1>4. \A s \in Seq(Step) : << >> \o s = s
  BY ConcatEmptySeq
<1>5. \A s, t \in Seq(Step) : s # << >> =>
        Head(s \o t) = Head(s) /\ Tail(s \o t) = Tail(s) \o t
  BY TailOfConcat
<1>6. CASE p # << >>
  <2>1. Head(p \o afterRemoves) = Head(p) /\ Tail(p \o afterRemoves) = Tail(p) \o afterRemoves
    BY <1>1, <1>2, <1>5, <1>6
  <2>2. /\ Tail(p) \in Seq(Step) /\ Len(Tail(p)) = Len(p) - 1
        /\ \A i \in 1 .. Len(Tail(p)) : Tail(p)[i] = p[i + 1]
        /\ Len(p) \in Nat \ {0} /\ DOMAIN p = 1 .. Len(p) /\ DOMAIN Tail(p) = 1 .. Len(p) - 1
    BY <1>1, <1>6, HeadTailProperties, LenProperties, EmptySeq
  <2>3. IsAnswer(Tail(p)) /\ Head(p).do \in {"setCurrentTerm", "reply"}
    <3>1. Head(p) = p[1] /\ 1 \in DOMAIN p
      BY <1>1, <1>6, <2>2, HeadTailProperties
    <3>2. ASSUME NEW i \in DOMAIN Tail(p) PROVE Tail(p)[i].do \in {"setCurrentTerm", "reply"}
      <4>1. i + 1 \in DOMAIN p /\ Tail(p)[i] = p[i + 1]
        BY <2>2, <3>2
      <4> QED BY <1>1, <4>1 DEF IsAnswer
    <3> QED BY <1>1, <2>2, <3>1, <3>2 DEF IsAnswer
  <2>4. Tail(p) \o afterRemoves = ListOf(Tail(p), n, c, es, d)
    BY DEF ListOf
  <2> QED BY <1>1, <1>3, <1>6, <2>1, <2>3, <2>4 DEF Remains
<1>7. CASE p = << >> /\ n # 0
  <2>1. ListOf(p, n, c, es, d) = afterRemoves
    BY <1>2, <1>3, <1>4, <1>7
  <2>2. /\ DeleteLog(n) # << >> /\ Head(DeleteLog(n)).do = "remove"
        /\ Tail(DeleteLog(n)) = DeleteLog(n - 1) /\ n - 1 \in Nat /\ n > 0
    BY <1>1, <1>7, PartsOfList
  <2>3. /\ Head(afterRemoves) = Head(DeleteLog(n))
        /\ Tail(afterRemoves) = DeleteLog(n - 1) \o afterChange
    BY <1>1, <1>2, <1>5, <2>2
  <2>4. DeleteLog(n - 1) \in Seq(Step)
    BY <2>2, PartsOfList
  <2>5. DeleteLog(n - 1) \o afterChange \in Seq(Step)
    BY <1>2, <2>4, ConcatProperties
  <2>6. ListOf(<< >>, n - 1, c, es, d) = DeleteLog(n - 1) \o afterChange
    BY <1>4, <2>5 DEF ListOf
  <2> QED BY <1>1, <1>7, <2>1, <2>2, <2>3, <2>6 DEF Remains
<1>8. p = << >> /\ n = 0 => ListOf(p, n, c, es, d) = afterChange
  BY <1>2, <1>3, <1>4, PartsOfList
<1>9. CASE p = << >> /\ n = 0 /\ c # << >>
  <2>1. Head(afterChange) = Head(c) /\ Tail(afterChange) = Tail(c) \o afterAppends
    BY <1>1, <1>2, <1>5, <1>9
  <2>2. IsReconfiguration(Tail(c)) /\ Tail(c) \in Seq(Step)
    BY <1>1, <1>9, ReconfigurationTail DEF IsReconfiguration
  <2>3. Tail(c) \o afterAppends \in Seq(Step)
    BY <1>2, <2>2, ConcatProperties
  <2>4. ListOf(<< >>, 0, Tail(c), es, d) = Tail(c) \o afterAppends
    BY <1>4, <2>3, PartsOfList DEF ListOf
  <2> QED BY <1>1, <1>8, <1>9, <2>1, <2>2, <2>4 DEF Remains
<1>10. CASE p = << >> /\ n = 0 /\ c = << >> /\ es # << >>
  <2>1. ListOf(p, n, c, es, d) = afterAppends
    BY <1>2, <1>4, <1>8, <1>10
  <2>2. /\ AppendLog(es) # << >> /\ Head(AppendLog(es)) = [do |-> "append", entry |-> Head(es)]
        /\ Tail(AppendLog(es)) = AppendLog(Tail(es)) /\ Tail(es) \in Seq(LogEntry)
    BY <1>1, <1>10, PartsOfList
  <2>3. /\ Head(afterAppends) = Head(AppendLog(es))
        /\ Tail(afterAppends) = AppendLog(Tail(es)) \o d
    BY <1>1, <1>5, <2>2
  <2>4. AppendLog(Tail(es)) \o d \in Seq(Step)
    BY <1>1, <2>2, PartsOfList, ConcatProperties
  <2>5. ListOf(<< >>, 0, << >>, Tail(es), d) = AppendLog(Tail(es)) \o d
    BY <1>4, <2>4, PartsOfList DEF ListOf
  <2> QED BY <1>1, <1>10, <2>1, <2>2, <2>3, <2>5 DEF Remains
<1>11. CASE p = << >> /\ n = 0 /\ c = << >> /\ es = << >>
  <2>1. ListOf(p, n, c, es, d) = d
    BY <1>1, <1>2, <1>4, <1>8, <1>11, PartsOfList
  <2>2. IsReconfiguration(Tail(d)) /\ Tail(d) \in Seq(Step)
    BY <1>1, <2>1, ReconfigurationTail DEF IsReconfiguration
  <2>3. ListOf(<< >>, 0, << >>, << >>, Tail(d)) = Tail(d)
    BY <1>4, <2>2, PartsOfList DEF ListOf
  <2> QED BY <1>1, <1>11, <2>1, <2>2, <2>3 DEF Remains
<1> QED BY <1>6, <1>7, <1>9, <1>10, <1>11

-----------------------------------------------------------------------------
(***************************************************************************)
(* What a list leads to.  l is the log, s the configuration; `whole' says  *)
(* that the configuration is one of the log's, `clean' that it is the      *)
(* newest one; a is the last request accepted.  The log that the list ends *)
(* in, and the configuration it ends in, are the same before and after     *)
(* each of its actions.                                                    *)
(***************************************************************************)
\* the first entries of a leader's log
OfLeader(l) ==
  \E t \in DOMAIN LeaderLogs :
    /\ Len(l) <= Len(LeaderLogs[t])
    /\ \A k \in 1 .. Len(l) : l[k] = LeaderLogs[t][k]

\* If there is an entry at i, it is a cluster change.
Known(l, i) == i \in Int /\ i >= -1 /\ (i + 1 \in 1 .. Len(l) => IsClusterChange(l[i + 1]))

\* the leader's entries up to the last one sent, and nothing after them
Holds(l, m) ==
  /\ TermAt(l, m.prevLogIndex) = m.prevLogTerm
  /\ EntriesFrom(l, m.prevLogIndex + 1, LastIndex(l)) = m.entries

Leads(l, s) == Configured(l, s.index, s.term, s.members)

NoChangeIn(l, from) == \A k \in 1 .. Len(l) : from < k => ~IsClusterChange(l[k])

\* the configuration after a Configure, or after what remains of it
After(s, c) ==
  IF c = << >> THEN s
  ELSE IF Len(c) = 2 THEN [index |-> c[1].index, term |-> c[1].term, members |-> c[2].peers]
  ELSE [index |-> s.index, term |-> s.term, members |-> c[1].peers]

Kept(l, n) == SubSeq(l, 1, Len(l) - n)
Final(l, n, es) == Kept(l, n) \o es

\* The changes among the last n entries hold the configurations before them.
Truthful(l, n) ==
  \A k \in 1 .. Len(l) : Len(l) - n < k /\ IsClusterChange(l[k]) => Described(l, k)

Agree(l, s, whole, clean) ==
  /\ whole => s.index < Len(l)
  /\ clean => Leads(l, s)

Fits(p, n, c, es, d, l, s, whole, clean, a) ==
  LET new == Final(l, n, es)
      last == After(After(s, c), d)
  IN /\ n <= Len(l)
     /\ OfLeader(new)
     /\ a # NoRequest => Holds(new, a)
     /\ s.index < Len(Kept(l, n)) \/ Len(c) = 2 \/ es = << >>
     /\ Len(c) = 2 => c[1].index < Len(Kept(l, n)) /\ Known(Kept(l, n), c[1].index)
     /\ Len(d) = 2 => Known(new, d[1].index)
     /\ c # << >> => es # << >>
     /\ d = << >> => NoChangeIn(es, 0)
     /\ d # << >> => Leads(new, last)
     /\ whole => last.index < Len(new)
     /\ clean /\ Truthful(l, n) => Leads(new, last)
     /\ p # << >> => Agree(l, s, whole, clean)
     /\ clean /\ c = << >> /\ d = << >> => NoChangeIn(l, Len(l) - n)

LEMMA FinalFacts ==
  ASSUME NEW l \in Seq(LogEntry), NEW n \in 0 .. Len(l), NEW es \in Seq(LogEntry)
  PROVE  /\ Kept(l, n) \in Seq(LogEntry) /\ Len(Kept(l, n)) = Len(l) - n
         /\ \A k \in 1 .. Len(l) - n : Kept(l, n)[k] = l[k]
         /\ Kept(l, 0) = l
         /\ Final(l, n, es) \in Seq(LogEntry)
         /\ Len(Final(l, n, es)) = Len(l) - n + Len(es)
         /\ \A k \in 1 .. Len(l) - n : Final(l, n, es)[k] = l[k]
         /\ \A k \in 1 .. Len(es) : Final(l, n, es)[Len(l) - n + k] = es[k]
         /\ Len(l) \in Nat /\ Len(es) \in Nat
<1>1. Len(l) \in Nat /\ Len(es) \in Nat /\ \A k \in 1 .. Len(l) : l[k] \in LogEntry
  BY LenProperties, ElementOfSeq
<1>2. ASSUME NEW i \in 0 .. Len(l)
      PROVE  /\ Kept(l, i) \in Seq(LogEntry) /\ Len(Kept(l, i)) = Len(l) - i
             /\ \A k \in 1 .. Len(l) - i : Kept(l, i)[k] = l[k]
  <2> DEFINE j == Len(l) - i
  <2>1. j \in 0 .. Len(l) /\ 1 \in Int
    BY <1>1
  <2>2. \A k \in 1 .. j : l[k] \in LogEntry
    BY <1>1, <2>1
  <2>3. /\ SubSeq(l, 1, j) \in Seq(LogEntry)
        /\ Len(SubSeq(l, 1, j)) = IF 1 <= j THEN j - 1 + 1 ELSE 0
        /\ \A k \in 1 .. j - 1 + 1 : SubSeq(l, 1, j)[k] = l[1 + k - 1]
    <3>1. j \in Int
      BY <2>1
    <3> HIDE DEF j
    <3> QED BY <2>1, <2>2, <3>1, SubSeqProperties
  <2>4. Kept(l, i) = SubSeq(l, 1, j)
    BY DEF Kept
  <2> HIDE DEF j
  <2>5. Len(Kept(l, i)) = j /\ \A k \in 1 .. j : Kept(l, i)[k] = l[k]
    BY <1>1, <2>1, <2>3, <2>4
  <2> QED BY <2>3, <2>4, <2>5 DEF j
<1>3. Kept(l, 0) = l
  <2>1. 0 \in 0 .. Len(l) /\ Len(l) - 0 = Len(l)
    BY <1>1
  <2>2. Kept(l, 0) \in Seq(LogEntry) /\ Len(Kept(l, 0)) = Len(l)
        /\ \A k \in 1 .. Len(l) : Kept(l, 0)[k] = l[k]
    BY <1>2, <2>1
  <2> QED BY <2>2, SeqEqual
<1>4. /\ Final(l, n, es) \in Seq(LogEntry)
      /\ Len(Final(l, n, es)) = Len(Kept(l, n)) + Len(es)
      /\ \A i \in 1 .. Len(Kept(l, n)) + Len(es) :
           Final(l, n, es)[i] = IF i <= Len(Kept(l, n)) THEN Kept(l, n)[i]
                                ELSE es[i - Len(Kept(l, n))]
  BY <1>2, ConcatProperties DEF Final
<1>5. /\ Kept(l, n) \in Seq(LogEntry) /\ Len(Kept(l, n)) = Len(l) - n
      /\ \A k \in 1 .. Len(l) - n : Kept(l, n)[k] = l[k]
  BY <1>2
<1>6. ASSUME NEW k \in 1 .. Len(es) PROVE Final(l, n, es)[Len(l) - n + k] = es[k]
  <2>1. /\ Len(l) - n + k \in 1 .. Len(l) - n + Len(es)
        /\ ~(Len(l) - n + k <= Len(l) - n) /\ Len(l) - n + k - (Len(l) - n) = k
    <3> DEFINE a == Len(l) - n
               b == Len(es)
    <3>1. a \in Nat /\ b \in Nat /\ k \in 1 .. b
      BY <1>1
    <3>2. a + k \in 1 .. a + b /\ ~(a + k <= a) /\ a + k - a = k
      <4> HIDE DEF a, b
      <4> QED BY <3>1, IndexPast, SMTT(30)
    <3> QED BY <3>2
  <2> QED BY <1>4, <1>5, <2>1, SMTT(30)
<1>7. ASSUME NEW k \in 1 .. Len(l) - n PROVE Final(l, n, es)[k] = l[k]
  <2>1. k \in 1 .. Len(l) - n + Len(es) /\ k <= Len(l) - n
    BY <1>1
  <2> QED BY <1>4, <1>5, <2>1
<1>8. Len(Final(l, n, es)) = Len(l) - n + Len(es)
  BY <1>4, <1>5
<1> QED BY <1>1, <1>3, <1>4, <1>5, <1>6, <1>7, <1>8

LEMMA FinalOfAll ==
  ASSUME NEW l \in Seq(LogEntry), NEW es \in Seq(LogEntry)
  PROVE  /\ Kept(l, 0) = l
         /\ Final(l, 0, es) \in Seq(LogEntry) /\ Len(Final(l, 0, es)) = Len(l) + Len(es)
         /\ \A k \in 1 .. Len(l) : Final(l, 0, es)[k] = l[k]
         /\ \A k \in 1 .. Len(es) : Final(l, 0, es)[Len(l) + k] = es[k]
<1>1. Len(l) \in Nat
  BY LenProperties
<1>2. 0 \in 0 .. Len(l)
  BY <1>1
<1>3. /\ Kept(l, 0) = l
      /\ Final(l, 0, es) \in Seq(LogEntry)
      /\ Len(Final(l, 0, es)) = Len(l) - 0 + Len(es)
      /\ \A k \in 1 .. Len(l) - 0 : Final(l, 0, es)[k] = l[k]
      /\ \A k \in 1 .. Len(es) : Final(l, 0, es)[Len(l) - 0 + k] = es[k]
  BY <1>2, FinalFacts, Zenon
<1>4. Len(l) - 0 = Len(l)
  BY <1>1
<1> QED BY <1>3, <1>4, Zenon

-----------------------------------------------------------------------------
(* The first entries of a log, and the configuration it leads to. *)

Upto(l, j) == SubSeq(l, 1, j)

LEMMA UptoFacts ==
  ASSUME NEW l \in Seq(LogEntry), NEW j \in 0 .. Len(l)
  PROVE  /\ Upto(l, j) \in Seq(LogEntry) /\ Len(Upto(l, j)) = j
         /\ \A k \in 1 .. j : Upto(l, j)[k] = l[k]
<1>1. Len(l) \in Nat /\ \A k \in 1 .. Len(l) : l[k] \in LogEntry
  BY LenProperties, ElementOfSeq
<1>2. \A k \in 1 .. j : l[k] \in LogEntry
  BY <1>1
<1>3. /\ SubSeq(l, 1, j) \in Seq(LogEntry)
      /\ Len(SubSeq(l, 1, j)) = IF 1 <= j THEN j - 1 + 1 ELSE 0
      /\ \A k \in 1 .. j - 1 + 1 : SubSeq(l, 1, j)[k] = l[1 + k - 1]
  BY <1>2, SubSeqProperties
<1>4. Len(SubSeq(l, 1, j)) = j /\ \A k \in 1 .. j : SubSeq(l, 1, j)[k] = l[k]
  BY <1>1, <1>3
<1> QED BY <1>3, <1>4 DEF Upto

\* A log with a change has a newest one.
LEMMA NewestExists ==
  ASSUME NEW n \in Nat, NEW C, C \subseteq 1 .. n, C # {}
  PROVE  \E k \in C : \A j \in C : j <= k
<1> DEFINE T == {n - k : k \in C}
<1>1. T \subseteq Nat /\ T # {}
  <2>1. ASSUME NEW k \in C PROVE n - k \in Nat
    BY <2>1
  <2> QED BY <2>1
<1>2. PICK x \in T : \A y \in T : ~(y < x)
  BY <1>1, LeastNatural
<1>3. PICK k \in C : x = n - k
  BY <1>2
<1>4. \A j \in C : j <= k
  <2>1. TAKE j \in C
  <2>2. n - j \in T
    BY <2>1
  <2>3. ~(n - j < n - k) /\ j \in 1 .. n /\ k \in 1 .. n
    BY <1>2, <1>3, <2>2
  <2> QED BY <2>3
<1> QED BY <1>4

LEMMA LeadsIndex ==
  ASSUME NEW l \in Seq(LogEntry), NEW index, NEW term, NEW members,
         Configured(l, index, term, members)
  PROVE  /\ index \in Int /\ -1 <= index /\ index < Len(l)
         /\ Known(l, index)
         /\ NoChangeIn(l, index + 1)
<1> DEFINE changes == {k \in DOMAIN l : IsClusterChange(l[k])}
<1>1. DOMAIN l = 1 .. Len(l) /\ Len(l) \in Nat
  BY LenProperties
<1>2. CASE changes = {}
  <2>1. index = -1
    BY <1>2 DEF Configured
  <2> QED BY <1>1, <1>2, <2>1 DEF Known, NoChangeIn
<1>3. CASE changes # {}
  <2>1. PICK k \in changes : \A j \in changes : j <= k
    BY <1>1, <1>3, NewestExists
  <2>2. index = k - 1 /\ k \in 1 .. Len(l) /\ IsClusterChange(l[k])
    BY <1>1, <2>1 DEF Configured
  <2>3. index \in Int /\ -1 <= index /\ index < Len(l) /\ index + 1 = k
    BY <1>1, <2>2
  <2>4. ASSUME NEW j \in 1 .. Len(l), k < j PROVE ~IsClusterChange(l[j])
    <3>1. ~(j <= k)
      BY <2>2, <2>4
    <3> QED BY <1>1, <2>1, <2>4, <3>1
  <2> QED BY <2>2, <2>3, <2>4 DEF Known, NoChangeIn
<1> QED BY <1>2, <1>3

LEMMA UptoUpto ==
  ASSUME NEW l \in Seq(LogEntry), NEW i \in 0 .. Len(l), NEW j \in 0 .. i
  PROVE  Upto(Upto(l, i), j) = Upto(l, j)
<1>1. Len(l) \in Nat /\ j \in 0 .. Len(l) /\ \A k \in 1 .. j : k \in 1 .. i
  BY LenProperties
<1>2. /\ Upto(l, i) \in Seq(LogEntry) /\ Len(Upto(l, i)) = i
      /\ \A k \in 1 .. i : Upto(l, i)[k] = l[k]
  BY UptoFacts
<1>3. /\ Upto(l, j) \in Seq(LogEntry) /\ Len(Upto(l, j)) = j
      /\ \A k \in 1 .. j : Upto(l, j)[k] = l[k]
  BY <1>1, UptoFacts
<1>4. /\ Upto(Upto(l, i), j) \in Seq(LogEntry) /\ Len(Upto(Upto(l, i), j)) = j
      /\ \A k \in 1 .. j : Upto(Upto(l, i), j)[k] = Upto(l, i)[k]
  BY <1>2, UptoFacts
<1> QED BY <1>1, <1>2, <1>3, <1>4, SeqEqual

\* What a record describes are the entries before it.
LEMMA DescribedUpto ==
  ASSUME NEW l \in Seq(LogEntry), NEW i \in 0 .. Len(l), NEW k \in 1 .. i
  PROVE  Described(Upto(l, i), k) <=> Described(l, k)
<1> DEFINE j == k - 1
<1>1. j \in 0 .. i /\ Len(l) \in Nat
  BY LenProperties
<1>2. Upto(l, i)[k] = l[k]
  BY UptoFacts
<1>3. Upto(Upto(l, i), j) = Upto(l, j)
  BY <1>1, UptoUpto
<1>4. SubSeq(Upto(l, i), 1, k - 1) = SubSeq(l, 1, k - 1)
  BY <1>3 DEF Upto
<1> HIDE DEF j
<1> QED BY <1>2, <1>4 DEF Described

-----------------------------------------------------------------------------
(* What an action makes of a list. *)

LEMMA FitsAnswer ==
  ASSUME NEW p, NEW n, NEW c, NEW es, NEW d, NEW l, NEW s, NEW whole, NEW clean, NEW a,
         p # << >>, Fits(p, n, c, es, d, l, s, whole, clean, a)
  PROVE  Fits(Tail(p), n, c, es, d, l, s, whole, clean, a)
BY DEF Fits

\* An entry is removed; if it is a change, its record is read if any is.
LEMMA FitsRemove ==
  ASSUME NEW n, NEW c, NEW es \in Seq(LogEntry), NEW d, NEW l \in Seq(LogEntry), NEW s,
         NEW whole, NEW clean, NEW a, n \in Nat, n > 0, NEW still,
         still => clean /\ (IsClusterChange(l[Len(l)]) => Described(l, Len(l))),
         Fits(<< >>, n, c, es, d, l, s, whole, clean, a)
  PROVE  Fits(<< >>, n - 1, c, es, d, Kept(l, 1), s, whole, still, a)
<1> DEFINE l1 == Kept(l, 1)
<1>1. n \in 0 .. Len(l) /\ 1 \in 0 .. Len(l) /\ Len(l) \in Nat
  BY LenProperties DEF Fits
<1>2. /\ l1 \in Seq(LogEntry) /\ Len(l1) = Len(l) - 1
      /\ \A k \in 1 .. Len(l) - 1 : l1[k] = l[k]
  BY <1>1, FinalFacts, Zenon
<1> HIDE DEF l1
<1>3. n - 1 \in 0 .. Len(l1) /\ Len(l1) - (n - 1) = Len(l) - n /\ n - 1 <= Len(l1)
  BY <1>1, <1>2
<1>4. Kept(l1, n - 1) = Kept(l, n)
  <2>1. /\ Kept(l1, n - 1) \in Seq(LogEntry) /\ Len(Kept(l1, n - 1)) = Len(l1) - (n - 1)
        /\ \A k \in 1 .. Len(l1) - (n - 1) : Kept(l1, n - 1)[k] = l1[k]
    BY <1>2, <1>3, FinalFacts, Zenon
  <2>2. /\ Kept(l, n) \in Seq(LogEntry) /\ Len(Kept(l, n)) = Len(l) - n
        /\ \A k \in 1 .. Len(l) - n : Kept(l, n)[k] = l[k]
    BY <1>1, FinalFacts, Zenon
  <2>3. \A k \in 1 .. Len(l) - n : k \in 1 .. Len(l) - 1
    BY <1>1
  <2> DEFINE m == Len(l) - n
  <2>4. /\ Len(Kept(l1, n - 1)) = m /\ Len(Kept(l, n)) = m
        /\ \A k \in 1 .. m : Kept(l1, n - 1)[k] = Kept(l, n)[k]
    BY <1>2, <1>3, <2>1, <2>2, <2>3, Zenon
  <2> HIDE DEF m
  <2> QED BY <2>1, <2>2, <2>4, SeqEqual
<1>5. Final(l1, n - 1, es) = Final(l, n, es)
  BY <1>4 DEF Final
<1>6. NoChangeIn(l, Len(l) - n) => NoChangeIn(l1, Len(l1) - (n - 1))
  <2>1. \A k \in 1 .. Len(l1) : k \in 1 .. Len(l)
    BY <1>1, <1>2
  <2> QED BY <1>2, <1>3, <2>1 DEF NoChangeIn
<1>7. ASSUME still, Truthful(l1, n - 1) PROVE Truthful(l, n)
  <2> SUFFICES ASSUME NEW k \in 1 .. Len(l), Len(l) - n < k, IsClusterChange(l[k])
               PROVE  Described(l, k)
    BY DEF Truthful
  <2>1. CASE k = Len(l)
    BY <1>7, <2>1
  <2>2. CASE k # Len(l)
    <3> DEFINE i == Len(l) - 1
    <3>1. k \in 1 .. Len(l1) /\ Len(l1) - (n - 1) < k /\ k \in 1 .. i /\ i \in 0 .. Len(l)
          /\ l1[k] = l[k]
      BY <1>1, <1>2, <1>3, <2>2
    <3>2. Described(l1, k)
      BY <1>7, <3>1 DEF Truthful
    <3>3. l1 = Upto(l, i)
      BY DEF l1, Kept, Upto
    <3> HIDE DEF i
    <3> QED BY <3>1, <3>2, <3>3, DescribedUpto
  <2> QED BY <2>1, <2>2
<1>8. Fits(<< >>, n - 1, c, es, d, l1, s, whole, still, a)
  BY <1>3, <1>4, <1>5, <1>6, <1>7 DEF Fits
<1> QED BY <1>8 DEF l1

\* An entry is appended.
LEMMA FitsAppend ==
  ASSUME NEW es \in Seq(LogEntry), NEW d, NEW l \in Seq(LogEntry), NEW s,
         NEW whole, NEW clean, NEW a, es # << >>, s.index \in Int,
         Fits(<< >>, 0, << >>, es, d, l, s, whole, clean, a)
  PROVE  /\ Fits(<< >>, 0, << >>, Tail(es), d, Append(l, Head(es)), s, whole, clean, a)
         /\ s.index < Len(l)
<1> DEFINE l1 == Append(l, Head(es))
           es1 == Tail(es)
<1>1. /\ es1 \in Seq(LogEntry) /\ Head(es) \in LogEntry /\ Len(es1) = Len(es) - 1
      /\ \A i \in 1 .. Len(es) - 1 : es1[i] = es[i + 1]
      /\ Len(es) \in Nat \ {0} /\ Len(l) \in Nat
  BY HeadTailProperties, LenProperties, EmptySeq
<1>2. /\ l1 \in Seq(LogEntry) /\ Len(l1) = Len(l) + 1
      /\ \A i \in 1 .. Len(l) : l1[i] = l[i]
      /\ l1[Len(l) + 1] = es[1]
  BY <1>1, AppendProperties
<1> HIDE DEF l1, es1
<1>3. Len(l) \in Nat /\ Len(es) \in Nat /\ Len(l1) - 0 = Len(l1)
  BY <1>1, <1>2
<1>4. Kept(l, 0) = l /\ Kept(l1, 0) = l1
  BY <1>2, FinalOfAll
<1>5. Final(l1, 0, es1) = Final(l, 0, es)
  <2>1. /\ Final(l, 0, es) \in Seq(LogEntry) /\ Len(Final(l, 0, es)) = Len(l) + Len(es)
        /\ \A k \in 1 .. Len(l) : Final(l, 0, es)[k] = l[k]
        /\ \A k \in 1 .. Len(es) : Final(l, 0, es)[Len(l) + k] = es[k]
    BY FinalOfAll
  <2>2. /\ Final(l1, 0, es1) \in Seq(LogEntry) /\ Len(Final(l1, 0, es1)) = Len(l1) + Len(es1)
        /\ \A k \in 1 .. Len(l1) : Final(l1, 0, es1)[k] = l1[k]
        /\ \A k \in 1 .. Len(es1) : Final(l1, 0, es1)[Len(l1) + k] = es1[k]
    BY <1>1, <1>2, FinalOfAll
  <2>3. ASSUME NEW k \in 1 .. Len(l) + Len(es)
        PROVE  Final(l1, 0, es1)[k] = Final(l, 0, es)[k]
    <3>1. CASE k <= Len(l)
      BY <1>1, <1>2, <2>1, <2>2, <3>1
    <3>2. CASE k = Len(l) + 1
      <4>1. k \in 1 .. Len(l1) /\ 1 \in 1 .. Len(es)
        BY <1>1, <1>2, <3>2
      <4> QED BY <1>2, <2>1, <2>2, <3>2, <4>1
    <3>3. CASE k > Len(l) + 1
      <4> DEFINE i == k - Len(l) - 1
      <4>1. i \in 1 .. Len(es) - 1 /\ i + 1 \in 1 .. Len(es)
            /\ k = Len(l1) + i /\ k = Len(l) + (i + 1)
        BY <1>1, <1>2, <3>3
      <4> HIDE DEF i
      <4>2. Final(l1, 0, es1)[Len(l1) + i] = es1[i] /\ es1[i] = es[i + 1]
        BY <1>1, <2>2, <4>1
      <4>3. Final(l, 0, es)[Len(l) + (i + 1)] = es[i + 1]
        BY <2>1, <4>1
      <4> QED BY <4>1, <4>2, <4>3
    <3>4. k <= Len(l) \/ k = Len(l) + 1 \/ k > Len(l) + 1
      BY <1>3
    <3> QED BY <3>1, <3>2, <3>3, <3>4
  <2>4. Len(l1) + Len(es1) = Len(l) + Len(es)
    BY <1>1, <1>2
  <2> QED BY <2>1, <2>2, <2>3, <2>4, SeqEqual
<1>6. Len(<< >>) # 2
  OBVIOUS
<1>7. s.index < Len(l)
  BY <1>4, <1>6 DEF Fits
<1>8. s.index < Len(l1)
  BY <1>1, <1>2, <1>7
<1>9. NoChangeIn(es, 0) => NoChangeIn(es1, 0)
  <2> SUFFICES ASSUME NoChangeIn(es, 0), NEW k \in 1 .. Len(es1)
               PROVE  ~IsClusterChange(es1[k])
    BY DEF NoChangeIn
  <2>1. k + 1 \in 1 .. Len(es) /\ 0 < k + 1 /\ es1[k] = es[k + 1]
    BY <1>1
  <2> QED BY <2>1 DEF NoChangeIn
<1>10. NoChangeIn(l1, Len(l1) - 0)
  BY <1>2, <1>3 DEF NoChangeIn
<1>11. Truthful(l, 0)
  BY <1>3 DEF Truthful
<1>12. Fits(<< >>, 0, << >>, es1, d, l1, s, whole, clean, a)
  BY <1>1, <1>2, <1>4, <1>5, <1>6, <1>8, <1>9, <1>10, <1>11 DEF Fits
<1> QED BY <1>7, <1>12 DEF l1, es1

\* The configuration is changed, back or on.  Once it is to go on, nothing that
\* came before matters.
LEMMA FitsChangeBack ==
  ASSUME NEW c, NEW es \in Seq(LogEntry), NEW d, NEW l \in Seq(LogEntry), NEW s, NEW r,
         NEW whole, NEW clean, NEW a, IsReconfiguration(c), c # << >>,
         Head(c).do = "setClusterChange" =>
           r = [index |-> Head(c).index, term |-> Head(c).term, members |-> s.members],
         Head(c).do = "setPeers" =>
           r = [index |-> s.index, term |-> s.term, members |-> Head(c).peers],
         Fits(<< >>, 0, c, es, d, l, s, whole, clean, a)
  PROVE  /\ Fits(<< >>, 0, Tail(c), es, d, l, r, whole, clean, a)
         /\ Known(l, s.index) => Known(l, r.index)
<1>1. Kept(l, 0) = l /\ Len(l) \in Nat /\ Len(l) - 0 = Len(l)
  BY FinalOfAll, LenProperties
<1>2. NoChangeIn(l, Len(l) - 0)
  BY <1>1 DEF NoChangeIn
<1>3. Head(c) = c[1] /\ Len(<< >>) = 0
  OBVIOUS
<1>4. CASE Head(c).do = "setClusterChange"
  <2>1. Len(c) = 2 /\ Tail(c)[1] = c[2] /\ Len(Tail(c)) # 2 /\ Tail(c) # << >>
    BY <1>4, ReconfigurationTail, Zenon
  <2>2. c[1].index < Len(l) /\ Known(l, c[1].index)
    BY <1>1, <2>1, Zenon DEF Fits
  <2>3. r.index = c[1].index /\ r.term = c[1].term
    BY <1>3, <1>4
  <2>4. After(r, Tail(c)) = After(s, c)
    BY <2>1, <2>3 DEF After
  <2> QED BY <1>1, <1>2, <2>1, <2>2, <2>3, <2>4, Zenon DEF Fits
<1>5. CASE Head(c).do = "setPeers"
  <2>1. Tail(c) = << >> /\ Len(c) # 2 /\ Len(Tail(c)) # 2
    BY <1>5, ReconfigurationTail, Zenon
  <2>2. r.index = s.index /\ After(r, Tail(c)) = After(s, c)
    BY <1>3, <1>5, <2>1 DEF After
  <2> QED BY <1>1, <1>2, <2>1, <2>2 DEF Fits
<1> QED BY <1>4, <1>5, ReconfigurationTail

LEMMA FitsChangeOn ==
  ASSUME NEW d, NEW l \in Seq(LogEntry), NEW s, NEW r,
         NEW whole, NEW clean, NEW a, NEW still, NEW yet, IsReconfiguration(d), d # << >>,
         Head(d).do = "setClusterChange" =>
           r = [index |-> Head(d).index, term |-> Head(d).term, members |-> s.members],
         Head(d).do = "setPeers" =>
           r = [index |-> s.index, term |-> s.term, members |-> Head(d).peers],
         Fits(<< >>, 0, << >>, << >>, d, l, s, whole, clean, a)
  PROVE  /\ Fits(<< >>, 0, << >>, << >>, Tail(d), l, r, still, yet, a)
         /\ Known(l, s.index) => Known(l, r.index)
<1>1. Kept(l, 0) = l /\ Len(l) \in Nat /\ Len(l) - 0 = Len(l)
  BY FinalOfAll, LenProperties, EmptySeq
<1>2. NoChangeIn(l, Len(l) - 0) /\ NoChangeIn(<< >>, 0)
  BY <1>1 DEF NoChangeIn
<1>3. Head(d) = d[1] /\ Len(<< >>) = 0
  OBVIOUS
<1>4. Final(l, 0, << >>) = l
  BY <1>1, ConcatEmptySeq DEF Final
<1>5. /\ Leads(l, After(After(s, << >>), d))
      /\ After(After(s, << >>), d).index < Len(l)
  <2>1. Leads(l, After(After(s, << >>), d))
    BY <1>4 DEF Fits
  <2> QED BY <2>1, LeadsIndex DEF Leads
<1>6. CASE Head(d).do = "setClusterChange"
  <2>1. Len(d) = 2 /\ Tail(d)[1] = d[2] /\ Len(Tail(d)) # 2 /\ Tail(d) # << >>
    BY <1>6, ReconfigurationTail, Zenon
  <2>2. Known(l, d[1].index)
    BY <1>4, <2>1, Zenon DEF Fits
  <2>3. r.index = d[1].index /\ r.term = d[1].term
    BY <1>3, <1>6
  <2>4. After(After(r, << >>), Tail(d)) = After(After(s, << >>), d)
    BY <2>1, <2>3 DEF After
  <2> QED BY <1>1, <1>2, <1>4, <1>5, <2>1, <2>2, <2>3, <2>4, Zenon DEF Fits
<1>7. CASE Head(d).do = "setPeers"
  <2>1. Tail(d) = << >> /\ Len(d) # 2 /\ Len(Tail(d)) # 2
    BY <1>7, ReconfigurationTail, Zenon
  <2>2. r.index = s.index /\ After(After(r, << >>), Tail(d)) = After(After(s, << >>), d)
    BY <1>3, <1>7, <2>1 DEF After
  <2> QED BY <1>1, <1>2, <1>4, <1>5, <2>1, <2>2 DEF Fits
<1> QED BY <1>6, <1>7, ReconfigurationTail

-----------------------------------------------------------------------------
(* The configuration a rewind finds. *)

\* Entries that hold no change may be cut off ...
LEMMA LeadsCut ==
  ASSUME NEW l \in Seq(LogEntry), NEW index, NEW term, NEW members,
         NEW j \in 0 .. Len(l), Configured(l, index, term, members), index < j
  PROVE  Configured(Upto(l, j), index, term, members) /\ NoChangeIn(l, j)
<1> DEFINE changes == {k \in DOMAIN l : IsClusterChange(l[k])}
           kept == {k \in DOMAIN Upto(l, j) : IsClusterChange(Upto(l, j)[k])}
<1>1. DOMAIN l = 1 .. Len(l) /\ Len(l) \in Nat
  BY LenProperties
<1>2. Upto(l, j) \in Seq(LogEntry) /\ Len(Upto(l, j)) = j
      /\ \A k \in 1 .. j : Upto(l, j)[k] = l[k]
  BY UptoFacts
<1>3. DOMAIN Upto(l, j) = 1 .. j
  BY <1>2, LenProperties
<1>4. index \in Int /\ NoChangeIn(l, index + 1)
  BY LeadsIndex
<1>5. NoChangeIn(l, j)
  BY <1>1, <1>4 DEF NoChangeIn
<1>6. kept = changes
  <2>1. ASSUME NEW k \in changes PROVE k \in 1 .. j
    BY <1>1, <1>5, <2>1 DEF NoChangeIn
  <2>2. \A k \in 1 .. j : k \in DOMAIN l
    BY <1>1
  <2> QED BY <1>2, <1>3, <2>1, <2>2
<1>7. \A k \in kept : Upto(l, j)[k] = l[k]
  BY <1>2, <1>3
<1>8. Configured(Upto(l, j), index, term, members)
  BY <1>6, <1>7 DEF Configured
<1> QED BY <1>5, <1>8

\* ... and appended.
LEMMA LeadsOn ==
  ASSUME NEW l \in Seq(LogEntry), NEW n \in 0 .. Len(l), NEW es \in Seq(LogEntry),
         NEW index, NEW term, NEW members,
         Configured(Kept(l, n), index, term, members), NoChangeIn(es, 0)
  PROVE  Configured(Final(l, n, es), index, term, members)
<1> DEFINE new == Final(l, n, es)
           old == Kept(l, n)
           m == Len(l) - n
           changes == {k \in DOMAIN old : IsClusterChange(old[k])}
           changed == {k \in DOMAIN new : IsClusterChange(new[k])}
<1>1. /\ old \in Seq(LogEntry) /\ Len(old) = m
      /\ \A k \in 1 .. m : old[k] = l[k]
      /\ new \in Seq(LogEntry) /\ Len(new) = m + Len(es)
      /\ \A k \in 1 .. m : new[k] = l[k]
      /\ \A k \in 1 .. Len(es) : new[m + k] = es[k]
      /\ Len(l) \in Nat /\ Len(es) \in Nat
  BY FinalFacts, Zenon
<1>2. DOMAIN old = 1 .. m /\ DOMAIN new = 1 .. m + Len(es) /\ m \in Nat
  BY <1>1, LenProperties
<1> HIDE DEF new, old, m
<1>3. changed = changes
  <2>1. ASSUME NEW k \in changed PROVE k \in 1 .. m
    <3> SUFFICES ASSUME k > m PROVE FALSE
      BY <1>2, <2>1
    <3> DEFINE i == k - m
    <3>1. i \in 1 .. Len(es) /\ k = m + i /\ 0 < i
      BY <1>1, <1>2, <2>1
    <3> HIDE DEF i
    <3>2. new[k] = es[i]
      BY <1>1, <3>1
    <3> QED BY <2>1, <3>1, <3>2 DEF NoChangeIn
  <2>2. \A k \in 1 .. m : k \in DOMAIN new
    BY <1>1, <1>2
  <2> QED BY <1>1, <1>2, <2>1, <2>2
<1>4. \A k \in changes : new[k] = old[k]
  BY <1>1, <1>2
<1>5. Configured(new, index, term, members)
  BY <1>3, <1>4 DEF Configured, old
<1> QED BY <1>5 DEF new

\* A change in a leader's entries names no earlier one, or one before it.
LEMMA RecordFacts ==
  ASSUME NEW l \in Seq(LogEntry), OfLeader(l), NEW k \in 1 .. Len(l), IsClusterChange(l[k])
  PROVE  LET old == RecordOf(l[k]).oldIndex
         IN old \in Int /\ -1 <= old /\ old < k - 1 /\ Known(l, old)
<1>1. PICK t \in DOMAIN LeaderLogs :
        /\ Len(l) <= Len(LeaderLogs[t])
        /\ \A i \in 1 .. Len(l) : l[i] = LeaderLogs[t][i]
  BY DEF OfLeader
<1> DEFINE L == LeaderLogs[t]
           old == RecordOf(l[k]).oldIndex
<1>2. L \in Seq(LogEntry)
  BY LeaderLogsAssumption
<1>3. Len(l) \in Nat /\ Len(L) \in Nat /\ DOMAIN L = 1 .. Len(L)
  BY <1>2, LenProperties
<1>4. k \in DOMAIN L /\ l[k] = L[k]
  BY <1>1, <1>3
<1>5. old = -1 \/ (old \in 0 .. k - 2 /\ IsClusterChange(L[old + 1]))
  BY <1>4, LeadersPoint
<1> HIDE DEF L, old
<1>6. old \in Int /\ -1 <= old /\ old < k - 1
  BY <1>3, <1>5
<1>7. ASSUME old + 1 \in 1 .. Len(l) PROVE IsClusterChange(l[old + 1])
  <2>1. IsClusterChange(L[old + 1])
    BY <1>5, <1>6, <1>7
  <2> QED BY <1>1, <1>7, <2>1 DEF L
<1>8. Known(l, old)
  BY <1>6, <1>7 DEF Known
<1> QED BY <1>6, <1>8 DEF old

LeadsAt(l, j, c) ==
  Configured(Upto(l, j), c.index, c.term, WithoutAddress(c.cluster, Self))

\* A rewind goes from change to change, back; if it begins at the newest, and the
\* records it reads are right, it finds the configuration of the entries up to prev.
LEMMA RewindFinds ==
  ASSUME NEW l \in Seq(LogEntry), OfLeader(l), NEW prev \in Nat \union {-1}, prev < Len(l),
         NEW c, Known(l, c.index), NEW clean,
         clean => LeadsAt(l, Len(l), c) /\ Truthful(l, Len(l) - 1 - prev)
  PROVE  /\ Known(l, Rewind(l, prev, c).index)
         /\ \/ Rewind(l, prev, c).index <= prev
            \/ c.index >= Len(l) /\ ~HasEntry(l, Rewind(l, prev, c).index)
         /\ clean => LeadsAt(l, prev + 1, Rewind(l, prev, c))
<1> DEFINE Near(k, x) ==
             /\ Known(l, x.index)
             /\ x.index <= prev \/ x.index <= LastIndex(l) - k \/ ~HasEntry(l, x.index)
             /\ c.index < Len(l) => x.index < Len(l)
             /\ clean => \E j \in prev + 1 .. Len(l) : x.index < j /\ LeadsAt(l, j, x)
           G == [k \in Nat |-> {x \in {c} \union
                                  {[index |-> RecordOf(l[i]).oldIndex,
                                    term |-> RecordOf(l[i]).oldTerm,
                                    cluster |-> RecordOf(l[i]).oldCluster] : i \in DOMAIN l} :
                                Near(k, x)}]
<1>1. Len(l) \in Nat /\ DOMAIN l = 1 .. Len(l) /\ prev + 1 \in 0 .. Len(l)
      /\ Len(l) \in prev + 1 .. Len(l) /\ Len(l) \in 0 .. Len(l)
  BY LenProperties
<1>2. c \in G[0]
  <2>1. c.index <= LastIndex(l) - 0 \/ ~HasEntry(l, c.index)
    BY <1>1 DEF Known, HasEntry, LastIndex
  <2>2. ASSUME clean PROVE \E j \in prev + 1 .. Len(l) : c.index < j /\ LeadsAt(l, j, c)
    <3>1. LeadsAt(l, Len(l), c)
      BY <2>2
    <3>2. Upto(l, Len(l)) \in Seq(LogEntry) /\ Len(Upto(l, Len(l))) = Len(l)
      BY <1>1, UptoFacts
    <3>3. c.index < Len(l)
      BY <3>1, <3>2, LeadsIndex DEF LeadsAt
    <3> QED BY <1>1, <3>1, <3>3
  <2>3. Near(0, c)
    BY <2>1, <2>2
  <2> QED BY <2>3
<1>3. ASSUME NEW k \in Nat, NEW x \in G[k] PROVE RewindStep(l, prev, x) \in G[k + 1]
  <2>1. Near(k, x)
    OBVIOUS
  <2>2. CASE x.index > prev /\ HasEntry(l, x.index)
    <3> DEFINE i == x.index + 1
               y == [index |-> RecordOf(l[i]).oldIndex,
                     term |-> RecordOf(l[i]).oldTerm,
                     cluster |-> RecordOf(l[i]).oldCluster]
    <3>1. /\ x.index \in Int /\ i \in 1 .. Len(l) /\ IsClusterChange(l[i])
          /\ i - 1 \in 0 .. Len(l) /\ i - 1 = x.index /\ i - 1 \in prev + 1 .. Len(l)
      BY <1>1, <2>1, <2>2 DEF Known, HasEntry
    <3>2. RewindStep(l, prev, x) = y
      BY <2>2 DEF RewindStep, EntryAt
    <3>3. y.index \in Int /\ -1 <= y.index /\ y.index < i - 1 /\ Known(l, y.index)
      BY <3>1, RecordFacts
    <3>4. clean => LeadsAt(l, i - 1, y)
      <4> SUFFICES ASSUME clean PROVE LeadsAt(l, i - 1, y)
        OBVIOUS
      <4>1. Described(l, i)
        <5> HIDE DEF i, y
        <5>1. Len(l) - (Len(l) - 1 - prev) < i
          BY <1>1, <3>1
        <5> QED BY <3>1, <5>1 DEF Truthful
      <4> QED BY <4>1 DEF Described, LeadsAt, Upto
    <3> HIDE DEF i, y
    <3>5. y.index <= LastIndex(l) - (k + 1) /\ y.index < Len(l)
      BY <1>1, <2>1, <2>2, <3>1, <3>3 DEF LastIndex
    <3>6. Near(k + 1, y)
      BY <3>1, <3>3, <3>4, <3>5
    <3> QED BY <1>1, <3>1, <3>2, <3>6 DEF i, y
  <2>3. CASE ~(x.index > prev /\ HasEntry(l, x.index))
    <3>1. RewindStep(l, prev, x) = x
      BY <2>3 DEF RewindStep
    <3>2. x.index <= prev \/ ~HasEntry(l, x.index)
      BY <2>1, <2>3 DEF Known
    <3>3. Near(k + 1, x)
      BY <2>1, <3>2
    <3> QED BY <3>1, <3>3
  <2> QED BY <2>2, <2>3
<1> DEFINE r == Rewind(l, prev, c)
<1> HIDE DEF G
<1>4. r \in G[Len(l) + 1]
  BY <1>1, <1>2, <1>3, RewindReaches
<1>5. Near(Len(l) + 1, r)
  BY <1>1, <1>4 DEF G
<1> HIDE DEF r
<1>6. r.index \in Int /\ r.index >= -1 /\ c.index \in Int
  BY <1>5 DEF Known
<1>7. r.index <= prev \/ (c.index >= Len(l) /\ ~HasEntry(l, r.index))
  <2>1. r.index < Len(l) => r.index = -1 \/ HasEntry(l, r.index)
    BY <1>1, <1>6 DEF HasEntry
  <2>2. r.index <= prev \/ ~HasEntry(l, r.index)
    BY <1>1, <1>5, <1>6 DEF LastIndex
  <2> QED BY <1>1, <1>5, <1>6, <2>1, <2>2
<1>8. ASSUME clean PROVE LeadsAt(l, prev + 1, r)
  <2>1. PICK j \in prev + 1 .. Len(l) : r.index < j /\ LeadsAt(l, j, r)
    BY <1>5, <1>8
  <2>2. Upto(l, Len(l)) \in Seq(LogEntry) /\ Len(Upto(l, Len(l))) = Len(l)
    BY <1>1, UptoFacts
  <2>3. c.index < Len(l)
    BY <1>8, <2>2, LeadsIndex DEF LeadsAt
  <2>4. r.index < prev + 1
    BY <1>1, <1>6, <1>7, <2>3
  <2>5. j \in 0 .. Len(l) /\ prev + 1 \in 0 .. j
    BY <1>1, <2>1
  <2>6. Upto(l, j) \in Seq(LogEntry) /\ Len(Upto(l, j)) = j
    BY <2>5, UptoFacts
  <2>7. Configured(Upto(Upto(l, j), prev + 1), r.index, r.term, WithoutAddress(r.cluster, Self))
    BY <2>1, <2>4, <2>5, <2>6, LeadsCut DEF LeadsAt
  <2> QED BY <2>5, <2>7, UptoUpto DEF LeadsAt
<1> QED BY <1>5, <1>7, <1>8 DEF r

-----------------------------------------------------------------------------
(* An accepted request: its list leads to the leader's entries, and to the   *)
(* configuration of these.                                                   *)

LEMMA RequestOfLeader ==
  ASSUME NEW m \in Requests
  PROVE  \E t \in DOMAIN LeaderLogs, last \in Nat :
           /\ m = AppendEntriesOf(t, m.prevLogIndex, last)
           /\ m.prevLogIndex \in Nat \union {-1} /\ m.prevLogIndex <= last
           /\ last < Len(LeaderLogs[t]) /\ LeaderLogs[t] \in Seq(LogEntry)
           /\ m.prevLogTerm = TermAt(LeaderLogs[t], m.prevLogIndex)
           /\ m.entries \in Seq(LogEntry) /\ Len(m.entries) = last - m.prevLogIndex
           /\ \A k \in 1 .. Len(m.entries) :
                m.entries[k] = LeaderLogs[t][m.prevLogIndex + 1 + k]
<1>1. PICK t \in DOMAIN LeaderLogs :
        \E e \in (-1 .. LastIndex(LeaderLogs[t])) \X (0 .. LastIndex(LeaderLogs[t])) :
          m = AppendEntriesOf(t, e[1], e[2]) /\ e[1] <= e[2]
  BY DEF Requests
<1>2. PICK e \in (-1 .. LastIndex(LeaderLogs[t])) \X (0 .. LastIndex(LeaderLogs[t])) :
        m = AppendEntriesOf(t, e[1], e[2]) /\ e[1] <= e[2]
  BY <1>1
<1> DEFINE L == LeaderLogs[t]
           prev == e[1]
           last == e[2]
<1>3. L \in Seq(LogEntry) /\ Len(L) \in Nat
  BY LeaderLogsAssumption, LenProperties
<1>4. /\ prev \in Nat \union {-1} /\ last \in Nat /\ prev <= last /\ last < Len(L)
      /\ last <= LastIndex(L)
  BY <1>2, <1>3 DEF LastIndex
<1>5. /\ m.prevLogIndex = prev /\ m.prevLogTerm = TermAt(L, prev)
      /\ m.entries = EntriesFrom(L, prev + 1, last)
      /\ m = AppendEntriesOf(t, prev, last)
  BY <1>2 DEF AppendEntriesOf
<1> HIDE DEF prev, last, L
<1> DEFINE from == prev + 1
<1>6. /\ from \in Nat /\ last \in Int
      /\ (IF from <= last THEN last - from + 1 ELSE 0) = last - prev
  BY <1>4
<1>7. m.entries = EntriesFrom(L, from, last)
  BY <1>5
<1> HIDE DEF from
<1>8. /\ EntriesFrom(L, from, last) \in Seq(LogEntry)
      /\ Len(EntriesFrom(L, from, last)) = IF from <= last THEN last - from + 1 ELSE 0
      /\ \A k \in 1 .. Len(EntriesFrom(L, from, last)) : EntriesFrom(L, from, last)[k] = L[from + k]
  BY <1>3, <1>4, <1>6, EntriesFromType, Zenon
<1>9. Len(m.entries) = last - prev
  BY <1>6, <1>7, <1>8, Zenon
<1>10. \A k \in 1 .. Len(m.entries) : m.entries[k] = L[prev + 1 + k]
  BY <1>7, <1>8 DEF from
<1> QED BY <1>3, <1>4, <1>5, <1>7, <1>8, <1>9, <1>10 DEF L

Matching(l, m) ==
  \/ m.prevLogIndex = -1
  \/ HasEntry(l, m.prevLogIndex) /\ TermAt(l, m.prevLogIndex) = m.prevLogTerm

LEMMA TakesOver ==
  ASSUME NEW l \in Seq(LogEntry), OfLeader(l), NEW m \in Requests, Matching(l, m), NEW n,
         n = Len(l) - 1 - m.prevLogIndex
  PROVE  /\ n \in 0 .. Len(l) /\ Len(l) - n = m.prevLogIndex + 1
         /\ OfLeader(Final(l, n, m.entries))
         /\ Holds(Final(l, n, m.entries), m)
<1> DEFINE prev == m.prevLogIndex
           es == m.entries
<1>1. PICK t \in DOMAIN LeaderLogs, last \in Nat :
           /\ m = AppendEntriesOf(t, prev, last)
           /\ prev \in Nat \union {-1} /\ prev <= last
           /\ last < Len(LeaderLogs[t]) /\ LeaderLogs[t] \in Seq(LogEntry)
           /\ m.prevLogTerm = TermAt(LeaderLogs[t], prev)
           /\ es \in Seq(LogEntry) /\ Len(es) = last - prev
           /\ \A k \in 1 .. Len(es) : es[k] = LeaderLogs[t][prev + 1 + k]
  BY RequestOfLeader
<1> DEFINE L == LeaderLogs[t]
<1>2. /\ Len(l) \in Nat /\ DOMAIN l = 1 .. Len(l) /\ Len(L) \in Nat /\ DOMAIN L = 1 .. Len(L)
  BY <1>1, LenProperties
<1>3. prev < Len(l)
  BY <1>1, <1>2 DEF Matching, HasEntry
<1>4. n \in 0 .. Len(l) /\ Len(l) - n = prev + 1
  <2>1. prev \in Nat \union {-1} /\ Len(l) \in Nat
    BY <1>1, <1>2
  <2> QED BY <2>1, <1>3, RemovedCount
<1>5. \A k \in 1 .. prev + 1 : l[k] = L[k]
  <2>1. CASE prev = -1
    BY <2>1
  <2>2. CASE prev # -1
    <3> DEFINE i == prev + 1
    <3>1. i \in DOMAIN l /\ i \in DOMAIN L /\ i \in 1 .. Len(l)
      BY <1>1, <1>2, <1>3, <2>2
    <3>2. l[i].term = L[i].term
      BY <1>1, <2>2, <3>1 DEF Matching, HasEntry, TermAt, EntryAt
    <3>3. PICK u \in DOMAIN LeaderLogs :
            /\ Len(l) <= Len(LeaderLogs[u])
            /\ \A k \in 1 .. Len(l) : l[k] = LeaderLogs[u][k]
      BY DEF OfLeader
    <3>4. i \in DOMAIN LeaderLogs[u] /\ l[i] = LeaderLogs[u][i]
      <4>1. LeaderLogs[u] \in Seq(LogEntry)
        BY LeaderLogsAssumption
      <4> QED BY <1>2, <3>1, <3>3, <4>1, LenProperties
    <3>5. i \in UNION {DOMAIN LeaderLogs[v] : v \in DOMAIN LeaderLogs}
      BY <3>1
    <3>6. \A k \in 1 .. i : LeaderLogs[t][k] = LeaderLogs[u][k]
      BY <3>1, <3>2, <3>4, <3>5, LeadersMatch, ZenonT(60)
    <3>7. \A k \in 1 .. i : k \in 1 .. Len(l)
      <4>1. Len(l) \in Nat /\ i \in 1 .. Len(l)
        BY <1>2, <3>1
      <4> HIDE DEF i
      <4> QED BY <4>1, IndexBelow, SMTT(30)
    <3> QED BY <3>3, <3>6, <3>7
  <2> QED BY <2>1, <2>2
<1> DEFINE new == Final(l, n, es)
<1>6. /\ new \in Seq(LogEntry) /\ Len(new) = Len(l) - n + Len(es)
      /\ \A k \in 1 .. Len(l) - n : new[k] = l[k]
      /\ \A k \in 1 .. Len(es) : new[Len(l) - n + k] = es[k]
  BY <1>1, <1>4, FinalFacts, Zenon
<1> HIDE DEF new, es, prev, L
<1>7. /\ new \in Seq(LogEntry) /\ Len(new) = last + 1
      /\ \A k \in 1 .. prev + 1 : new[k] = l[k]
      /\ \A k \in 1 .. Len(es) : new[prev + 1 + k] = es[k]
  <2>1. Len(new) = last + 1
    BY <1>1, <1>4, <1>6
  <2>2. /\ \A k \in 1 .. prev + 1 : new[k] = l[k]
        /\ \A k \in 1 .. Len(es) : new[prev + 1 + k] = es[k]
    BY <1>4, <1>6, Zenon
  <2> QED BY <1>6, <2>1, <2>2
<1>8. ASSUME NEW k \in 1 .. last + 1 PROVE new[k] = L[k]
  <2>1. CASE k <= prev + 1
    <3>1. k \in 1 .. prev + 1
      BY <1>1, <2>1
    <3> QED BY <1>5, <1>7, <3>1
  <2>2. CASE ~(k <= prev + 1)
    <3> DEFINE i == k - (prev + 1)
    <3>1. i \in 1 .. Len(es) /\ k = prev + 1 + i
      BY <1>1, <2>2
    <3> HIDE DEF i
    <3>2. new[prev + 1 + i] = es[i] /\ es[i] = L[prev + 1 + i]
      BY <1>1, <1>7, <3>1 DEF L
    <3> QED BY <3>1, <3>2
  <2> QED BY <2>1, <2>2
<1>9. OfLeader(new)
  <2>1. Len(new) <= Len(L)
    BY <1>1, <1>2, <1>7 DEF L
  <2>2. \A k \in 1 .. Len(new) : new[k] = L[k]
    BY <1>7, <1>8
  <2> QED BY <2>1, <2>2 DEF OfLeader, L
<1>10. Holds(new, m)
  <2>1. DOMAIN new = 1 .. last + 1 /\ LastIndex(new) = last
    BY <1>1, <1>7, LenProperties DEF LastIndex
  <2>2. TermAt(new, prev) = TermAt(L, prev)
    <3>1. CASE prev = -1
      BY <1>2, <2>1, <3>1 DEF TermAt, HasEntry, L
    <3>2. CASE prev # -1
      <4>1. prev + 1 \in 1 .. last + 1 /\ prev + 1 \in 1 .. Len(L)
        BY <1>1, <1>2, <3>2 DEF L
      <4>2. prev + 1 \in DOMAIN new /\ prev + 1 \in DOMAIN L
        BY <1>2, <2>1, <4>1 DEF L
      <4> QED BY <1>8, <4>1, <4>2 DEF TermAt, HasEntry, EntryAt
    <3> QED BY <3>1, <3>2
  <2> DEFINE from == prev + 1
             part == EntriesFrom(new, from, last)
  <2>3. /\ from \in Nat /\ last \in Int /\ last <= LastIndex(new)
        /\ (IF from <= last THEN last - from + 1 ELSE 0) = last - prev
    BY <1>1, <2>1
  <2>4. /\ part \in Seq(LogEntry)
        /\ Len(part) = IF from <= last THEN last - from + 1 ELSE 0
        /\ \A k \in 1 .. Len(part) : part[k] = new[from + k]
    <3> HIDE DEF from
    <3> QED BY <1>7, <2>3, EntriesFromType, Zenon
  <2>5. Len(part) = Len(es)
    <3> HIDE DEF from, part
    <3> QED BY <1>1, <2>3, <2>4, Zenon
  <2>6. \A k \in 1 .. Len(es) : part[k] = es[k]
    BY <1>7, <2>4, <2>5
  <2> HIDE DEF part
  <2>7. part = es
    BY <1>1, <2>4, <2>5, <2>6, SeqEqual DEF es
  <2>8. EntriesFrom(new, m.prevLogIndex + 1, LastIndex(new)) = m.entries
    BY <2>1, <2>7 DEF part, es, prev
  <2> QED BY <1>1, <2>2, <2>8 DEF Holds, prev, L
<1> QED BY <1>4, <1>9, <1>10 DEF new, es, prev

LEMMA ConfigureFacts ==
  ASSUME NEW index, NEW term, NEW cluster
  PROVE  /\ Configure(index, term, cluster) # << >> /\ Len(Configure(index, term, cluster)) = 2
         /\ Configure(index, term, cluster)[1].index = index
         /\ \A s : After(s, Configure(index, term, cluster)) =
                     [index |-> index, term |-> term, members |-> WithoutAddress(cluster, Self)]
BY DEF Configure, After

\* the newest change among the entries, if there is one
LEMMA NewestLeads ==
  ASSUME NEW l \in Seq(LogEntry), NEW n \in 0 .. Len(l), NEW es \in Seq(LogEntry),
         NEW k \in 1 .. Len(es), IsClusterChange(es[k]), NoChangeIn(es, k)
  PROVE  /\ Known(Final(l, n, es), Len(l) - n + k - 1)
         /\ Configured(Final(l, n, es), Len(l) - n + k - 1, es[k].term,
                       WithoutAddress(RecordOf(es[k]).newCluster, Self))
<1> DEFINE new == Final(l, n, es)
           m == Len(l) - n
<1>1. /\ new \in Seq(LogEntry) /\ Len(new) = m + Len(es)
      /\ \A i \in 1 .. Len(es) : new[m + i] = es[i]
      /\ Len(l) \in Nat /\ Len(es) \in Nat
  BY FinalFacts, Zenon
<1>2. m \in Nat /\ DOMAIN new = 1 .. Len(new)
  BY <1>1, LenProperties
<1> HIDE DEF new, m
<1>3. m + k \in 1 .. Len(new) /\ new[m + k] = es[k] /\ m + k - 1 \in Int /\ m + k - 1 >= -1
      /\ m + k - 1 + 1 = m + k
  BY <1>1, <1>2
<1>4. ASSUME NEW j \in DOMAIN new, IsClusterChange(new[j]) PROVE j <= m + k
  <2> SUFFICES ASSUME j > m + k PROVE FALSE
    BY <1>1, <1>2
  <2> DEFINE i == j - m
  <2>1. i \in 1 .. Len(es) /\ k < i /\ j = m + i
    BY <1>1, <1>2
  <2> HIDE DEF i
  <2>2. new[j] = es[i]
    BY <1>1, <2>1
  <2> QED BY <1>4, <2>1, <2>2 DEF NoChangeIn
<1> DEFINE changes == {j \in DOMAIN new : IsClusterChange(new[j])}
<1>5. m + k \in changes /\ \A j \in changes : j <= m + k
  BY <1>2, <1>3, <1>4
<1>6. \A j \in changes : (\A i \in changes : i <= j) => j = m + k
  <2> SUFFICES ASSUME NEW j \in changes, \A i \in changes : i <= j PROVE j = m + k
    OBVIOUS
  <2>1. j \in Int /\ j <= m + k /\ m + k <= j
    BY <1>2, <1>5
  <2> QED BY <1>3, <2>1
<1>7. Configured(new, m + k - 1, es[k].term, WithoutAddress(RecordOf(es[k]).newCluster, Self))
  BY <1>3, <1>5, <1>6 DEF Configured
<1>8. Known(new, m + k - 1)
  BY <1>3 DEF Known
<1> QED BY <1>7, <1>8 DEF new, m

LEMMA FitsAccepted ==
  ASSUME NEW l \in Seq(LogEntry), OfLeader(l), NEW m \in Requests, Matching(l, m),
         NEW s, Known(l, s.index), NEW whole, NEW clean, Agree(l, s, whole, clean),
         NEW r, r = Rewind(l, m.prevLogIndex, [index |-> s.index, term |-> s.term,
                                               cluster |-> PlusAddress(s.members, Self)]),
         ~(r.index > m.prevLogIndex),
         NEW n, n = Len(l) - 1 - m.prevLogIndex,
         NEW c, c = (IF s.index > m.prevLogIndex THEN Configure(r.index, r.term, r.cluster)
                     ELSE << >>),
         NEW k \in NewestChange(m), NEW p, m.entries # << >>
  PROVE  Fits(p, n, c, m.entries, ConfigureNewest(m, k), l, s, whole, clean, m)
<1> DEFINE prev == m.prevLogIndex
           es == m.entries
           d == ConfigureNewest(m, k)
           old == Kept(l, n)
           new == Final(l, n, es)
           c0 == [index |-> s.index, term |-> s.term, cluster |-> PlusAddress(s.members, Self)]
<1>1. n \in 0 .. Len(l) /\ Len(l) - n = prev + 1 /\ OfLeader(new) /\ Holds(new, m)
  BY TakesOver
<1>2. prev \in Nat \union {-1} /\ es \in Seq(LogEntry)
  BY RequestFields
<1>3. Len(l) \in Nat /\ Len(es) \in Nat /\ DOMAIN l = 1 .. Len(l) /\ DOMAIN es = 1 .. Len(es)
      /\ prev + 1 \in 0 .. Len(l) /\ prev < Len(l) /\ n <= Len(l) /\ s.index \in Int
      /\ Len(l) \in 0 .. Len(l)
  <2>1. Len(l) \in Nat /\ Len(es) \in Nat /\ DOMAIN l = 1 .. Len(l) /\ DOMAIN es = 1 .. Len(es)
    BY <1>2, LenProperties
  <2>2. s.index \in Int
    BY DEF Known
  <2> HIDE DEF prev, es
  <2>3. ASSUME NEW len \in Nat, n \in 0 .. len, len - n = prev + 1
        PROVE  /\ prev + 1 \in 0 .. len /\ prev < len /\ n <= len /\ len \in 0 .. len
    BY <1>2, <2>3
  <2> QED BY <1>1, <2>1, <2>2, <2>3
<1>4. old = Upto(l, prev + 1)
  BY <1>1 DEF Kept, Upto
<1>5. Len(old) = prev + 1 /\ \A i \in 1 .. prev + 1 : old[i] = l[i]
  BY <1>3, <1>4, UptoFacts
<1>6. ASSUME s.index > prev
      PROVE  /\ c = Configure(r.index, r.term, r.cluster)
             /\ r.index < Len(old) /\ Known(old, r.index)
             /\ clean /\ Truthful(l, n) => LeadsAt(l, prev + 1, r)
  <2>1. clean => LeadsAt(l, Len(l), c0)
    <3> SUFFICES ASSUME clean PROVE LeadsAt(l, Len(l), c0)
      OBVIOUS
    <3> DEFINE changes == {i \in DOMAIN l : IsClusterChange(l[i])}
    <3>1. Configured(l, s.index, s.term, s.members)
      BY DEF Agree, Leads
    <3>2. changes # {}
      BY <1>2, <1>6, <3>1 DEF Configured
    <3>3. PICK i \in changes : \A j \in changes : j <= i
      BY <1>3, <3>2, NewestExists
    <3>4. s.members = WithoutAddress(RecordOf(l[i]).newCluster, Self)
      BY <3>1, <3>3 DEF Configured
    <3>5. RecordOf(l[i]).newCluster \in Cluster /\ Self \in Address
      BY <1>3, <3>3, ElementOfSeq, EntryFields, InitialPeersAssumption
         DEF ClusterChangeCommand, Address
    <3>6. WithoutAddress(PlusAddress(s.members, Self), Self) = s.members
      BY <3>4, <3>5 DEF WithoutAddress, PlusAddress, Cluster
    <3>7. Upto(l, Len(l)) = l
      BY <1>3, UptoFacts, SeqEqual
    <3> QED BY <3>1, <3>6, <3>7 DEF LeadsAt
  <2>2. c0.index = s.index /\ r = Rewind(l, prev, c0)
    OBVIOUS
  <2> HIDE DEF c0
  <2>3. /\ Known(l, Rewind(l, prev, c0).index)
        /\ clean /\ Truthful(l, n) => LeadsAt(l, prev + 1, Rewind(l, prev, c0))
    <3> DEFINE true == clean /\ Truthful(l, n)
    <3>1. true => LeadsAt(l, Len(l), c0) /\ Truthful(l, Len(l) - 1 - prev)
      BY <2>1
    <3> HIDE DEF true
    <3>2. /\ Known(l, Rewind(l, prev, c0).index)
          /\ true => LeadsAt(l, prev + 1, Rewind(l, prev, c0))
      BY <1>2, <1>3, <2>2, <3>1, RewindFinds
    <3> QED BY <3>2 DEF true
  <2>4. r.index \in Int /\ r.index < prev + 1 /\ Known(l, r.index)
    BY <1>2, <2>2, <2>3 DEF Known
  <2>5. Known(old, r.index)
    BY <1>3, <1>5, <2>4 DEF Known
  <2> QED BY <1>5, <1>6, <2>2, <2>3, <2>4, <2>5
<1>7. s.index > prev \/ s.index < Len(old)
  BY <1>2, <1>3, <1>5
<1>8. ASSUME ~(s.index > prev)
      PROVE  /\ c = << >> /\ Len(c) # 2
             /\ clean => Configured(old, s.index, s.term, s.members) /\ NoChangeIn(l, prev + 1)
  <2>1. s.index < prev + 1
    BY <1>2, <1>3, <1>8
  <2>2. clean => Configured(Upto(l, prev + 1), s.index, s.term, s.members)
                 /\ NoChangeIn(l, prev + 1)
    BY <1>3, <2>1, LeadsCut DEF Agree, Leads
  <2>3. c = << >> /\ Len(<< >>) # 2
    BY <1>8
  <2> QED BY <1>4, <2>2, <2>3
<1>9. Len(c) = 2 => s.index > prev
  BY <1>8
<1>10. /\ After(s, c).index \in Int /\ After(s, c).index < prev + 1
       /\ clean /\ Truthful(l, n) => Leads(old, After(s, c))
  <2>1. CASE s.index > prev
    <3>1. After(s, c) = [index |-> r.index, term |-> r.term,
                         members |-> WithoutAddress(r.cluster, Self)]
      BY <1>6, <2>1, ConfigureFacts
    <3>2. r.index \in Int /\ r.index < prev + 1
      BY <1>5, <1>6, <2>1 DEF Known
    <3> QED BY <1>4, <1>6, <2>1, <3>1, <3>2 DEF Leads, LeadsAt
  <2>2. CASE ~(s.index > prev)
    <3>1. After(s, c) = s
      BY <1>8, <2>2 DEF After
    <3>2. s.index < prev + 1
      BY <1>2, <1>3, <2>2
    <3> QED BY <1>3, <1>8, <2>2, <3>1, <3>2 DEF Leads
  <2> QED BY <2>1, <2>2
<1>11. new \in Seq(LogEntry) /\ Len(new) = prev + 1 + Len(es)
  <2> HIDE DEF new, es, prev
  <2>1. new \in Seq(LogEntry) /\ Len(new) = Len(l) - n + Len(es)
    BY <1>1, <1>2, FinalFacts DEF new
  <2> QED BY <1>1, <2>1
<1>12. /\ n <= Len(l) /\ OfLeader(new) /\ (m # NoRequest => Holds(new, m))
       /\ s.index < Len(old) \/ Len(c) = 2 \/ es = << >>
       /\ Len(c) = 2 => c[1].index < Len(old) /\ Known(old, c[1].index)
       /\ c # << >> => es # << >>
       /\ p # << >> => Agree(l, s, whole, clean)
  BY <1>1, <1>3, <1>6, <1>7, <1>9, ConfigureFacts
<1> DEFINE last == After(After(s, c), d)
<1>13. CASE k = 0
  <2>1. d = << >> /\ Len(d) # 2
    BY <1>13 DEF ConfigureNewest
  <2>2. NoChangeIn(es, 0)
    <3> SUFFICES ASSUME NEW i \in 1 .. Len(es), IsClusterChange(es[i]) PROVE FALSE
      BY DEF NoChangeIn
    <3>1. i <= 0
      BY <1>3, <1>13 DEF NewestChange
    <3> QED BY <3>1
  <2>3. last = After(s, c)
    BY <2>1 DEF After
  <2>4. clean /\ Truthful(l, n) => Leads(new, last)
    BY <1>1, <1>2, <1>10, <2>2, <2>3, LeadsOn DEF Leads
  <2>5. last.index < Len(new)
    BY <1>2, <1>3, <1>10, <1>11, <2>3
  <2>6. clean /\ c = << >> => NoChangeIn(l, Len(l) - n)
    <3>1. s.index > prev => c # << >>
      BY <1>6, ConfigureFacts
    <3> QED BY <1>1, <1>8, <3>1
  <2> HIDE DEF d, old, new, es, last
  <2>7. /\ Len(d) = 2 => Known(new, d[1].index)
        /\ d = << >> => NoChangeIn(es, 0)
        /\ d # << >> => Leads(new, last)
        /\ whole => last.index < Len(new)
        /\ clean /\ c = << >> /\ d = << >> => NoChangeIn(l, Len(l) - n)
    BY <2>1, <2>2, <2>5, <2>6
  <2> QED BY <1>12, <2>4, <2>7, Zenon DEF Fits, old, new, d, es, last
<1>14. CASE k # 0
  <2>1. k \in 1 .. Len(es) /\ IsClusterChange(es[k])
    BY <1>3, <1>14 DEF NewestChange
  <2>2. NoChangeIn(es, k)
    <3> SUFFICES ASSUME NEW i \in 1 .. Len(es), k < i, IsClusterChange(es[i]) PROVE FALSE
      BY DEF NoChangeIn
    <3>1. i <= k
      BY <1>3 DEF NewestChange
    <3> QED BY <2>1, <3>1
  <2>3. Len(l) - n + k - 1 = prev + k
    BY <1>1, <1>2, <2>1
  <2>4. d = Configure(prev + k, es[k].term, RecordOf(es[k]).newCluster)
    BY <1>14 DEF ConfigureNewest
  <2>5. /\ Known(new, Len(l) - n + k - 1)
        /\ Configured(new, Len(l) - n + k - 1, es[k].term,
                      WithoutAddress(RecordOf(es[k]).newCluster, Self))
    BY <1>1, <1>2, <2>1, <2>2, NewestLeads
  <2>6. d # << >> /\ d[1].index = prev + k
    BY <2>4, ConfigureFacts
  <2>7. Leads(new, last)
    <3>1. last = [index |-> prev + k, term |-> es[k].term,
                  members |-> WithoutAddress(RecordOf(es[k]).newCluster, Self)]
      BY <2>4, ConfigureFacts
    <3> QED BY <2>3, <2>5, <3>1 DEF Leads
  <2>8. last.index < Len(new)
    BY <1>11, <2>7, LeadsIndex DEF Leads
  <2>9. Known(new, d[1].index)
    BY <2>3, <2>5, <2>6
  <2> HIDE DEF d, old, new, es, last
  <2>10. /\ Len(d) = 2 => Known(new, d[1].index)
         /\ d = << >> => NoChangeIn(es, 0)
         /\ d # << >> => Leads(new, last)
         /\ whole => last.index < Len(new)
         /\ clean /\ c = << >> /\ d = << >> => NoChangeIn(l, Len(l) - n)
         /\ clean /\ Truthful(l, n) => Leads(new, last)
    BY <2>6, <2>7, <2>8, <2>9
  <2> QED BY <1>12, <2>10, Zenon DEF Fits, old, new, d, es, last
<1> QED BY <1>13, <1>14

-----------------------------------------------------------------------------
(* Lists that are empty, or are cut short. *)

LEMMA EmptyList ==
  ASSUME NEW p, NEW n, NEW c, NEW es, NEW d, Remains(p, n, c, es, d),
         ListOf(p, n, c, es, d) = << >>
  PROVE  p = << >> /\ n = 0 /\ c = << >> /\ es = << >> /\ d = << >>
<1> DEFINE afterAppends == AppendLog(es) \o d
           afterChange == c \o afterAppends
           afterRemoves == DeleteLog(n) \o afterChange
<1>1. /\ p \in Seq(Step) /\ c \in Seq(Step) /\ d \in Seq(Step)
      /\ DeleteLog(n) \in Seq(Step) /\ AppendLog(es) \in Seq(Step)
      /\ n \in Nat /\ es \in Seq(LogEntry)
  BY PartsOfList DEF Remains, IsAnswer, IsReconfiguration
<1>2. afterAppends \in Seq(Step) /\ afterChange \in Seq(Step) /\ afterRemoves \in Seq(Step)
  BY <1>1, ConcatProperties
<1>3. p \o afterRemoves = << >>
  BY DEF ListOf
<1>4. \A s, t \in Seq(Step) : s \o t = << >> => s = << >> /\ t = << >>
  BY TailOfConcat, ConcatEmptySeq
<1> HIDE DEF afterRemoves, afterChange, afterAppends
<1>5. p = << >> /\ afterRemoves = << >>
  BY <1>1, <1>2, <1>3, <1>4
<1>6. DeleteLog(n) = << >> /\ afterChange = << >>
  BY <1>1, <1>2, <1>4, <1>5 DEF afterRemoves
<1>7. c = << >> /\ afterAppends = << >>
  BY <1>1, <1>2, <1>4, <1>6 DEF afterChange
<1>8. AppendLog(es) = << >> /\ d = << >>
  BY <1>1, <1>2, <1>4, <1>7 DEF afterAppends
<1>9. n = 0 /\ es = << >>
  BY <1>1, <1>6, <1>8, PartsOfList
<1> QED BY <1>5, <1>7, <1>8, <1>9

\* Does the list change the configuration yet ?
Configuring(s) == \E k \in DOMAIN s : s[k].do \in {"setClusterChange", "setPeers"}

LEMMA ConfiguringConcat ==
  ASSUME NEW s \in Seq(Step), NEW t \in Seq(Step), Configuring(s) \/ Configuring(t)
  PROVE  Configuring(s \o t)
<1>1. /\ DOMAIN (s \o t) = 1 .. Len(s) + Len(t) /\ DOMAIN s = 1 .. Len(s)
      /\ DOMAIN t = 1 .. Len(t) /\ Len(s) \in Nat /\ Len(t) \in Nat
      /\ \A i \in 1 .. Len(s) + Len(t) :
           (s \o t)[i] = IF i <= Len(s) THEN s[i] ELSE t[i - Len(s)]
  BY ConcatProperties, LenProperties
<1>2. ASSUME NEW k \in DOMAIN s PROVE k \in DOMAIN (s \o t) /\ (s \o t)[k] = s[k]
  BY <1>1
<1>3. ASSUME NEW k \in DOMAIN t
      PROVE  Len(s) + k \in DOMAIN (s \o t) /\ (s \o t)[Len(s) + k] = t[k]
  <2>1. k \in 1 .. Len(t) /\ Len(s) + k \in 1 .. Len(s) + Len(t) /\ ~(Len(s) + k <= Len(s))
        /\ Len(s) + k - Len(s) = k
    BY <1>1
  <2> QED BY <1>1, <2>1
<1> QED BY <1>2, <1>3 DEF Configuring

LEMMA Unchanging ==
  ASSUME NEW p, NEW n, NEW c, NEW es, NEW d, Remains(p, n, c, es, d),
         ~Configuring(ListOf(p, n, c, es, d))
  PROVE  c = << >> /\ d = << >>
<1> DEFINE afterAppends == AppendLog(es) \o d
           afterChange == c \o afterAppends
           afterRemoves == DeleteLog(n) \o afterChange
<1>1. /\ p \in Seq(Step) /\ c \in Seq(Step) /\ d \in Seq(Step)
      /\ DeleteLog(n) \in Seq(Step) /\ AppendLog(es) \in Seq(Step)
  BY PartsOfList DEF Remains, IsAnswer, IsReconfiguration
<1>2. afterAppends \in Seq(Step) /\ afterChange \in Seq(Step) /\ afterRemoves \in Seq(Step)
  BY <1>1, ConcatProperties
<1>3. ListOf(p, n, c, es, d) = p \o afterRemoves
  BY DEF ListOf
<1> HIDE DEF afterRemoves, afterChange, afterAppends
<1>4. ~Configuring(afterRemoves)
  BY <1>1, <1>2, <1>3, ConfiguringConcat
<1>5. ~Configuring(afterChange)
  BY <1>1, <1>2, <1>4, ConfiguringConcat DEF afterRemoves
<1>6. ~Configuring(c) /\ ~Configuring(afterAppends)
  BY <1>1, <1>2, <1>5, ConfiguringConcat DEF afterChange
<1>7. ~Configuring(d)
  BY <1>1, <1>2, <1>6, ConfiguringConcat DEF afterAppends
<1>8. ASSUME NEW s, IsReconfiguration(s), s # << >> PROVE Configuring(s)
  <2>1. s \in Seq(Step) /\ (Len(s) = 1 \/ Len(s) = 2)
        /\ s[1].do \in {"setClusterChange", "setPeers"}
    BY <1>8 DEF IsReconfiguration
  <2>2. 1 \in DOMAIN s
    BY <2>1, LenProperties
  <2> QED BY <2>1, <2>2 DEF Configuring
<1> QED BY <1>6, <1>7, <1>8 DEF Remains

\* Two logs with the same changes have the same configuration.
LEMMA LeadsBoth ==
  ASSUME NEW l, NEW r, NEW s, Leads(l, s),
         \A k \in DOMAIN l : IsClusterChange(l[k]) => k \in DOMAIN r /\ r[k] = l[k],
         \A k \in DOMAIN r : IsClusterChange(r[k]) => k \in DOMAIN l /\ r[k] = l[k]
  PROVE  Leads(r, s)
<1> DEFINE before == {k \in DOMAIN l : IsClusterChange(l[k])}
           after == {k \in DOMAIN r : IsClusterChange(r[k])}
<1>1. before = after /\ \A k \in before : l[k] = r[k]
  OBVIOUS
<1>2. /\ before = {} => s.index = -1 /\ s.term = -1 /\ s.members = InitialPeers
      /\ \A k \in before : (\A j \in before : j <= k) =>
           /\ s.index = k - 1 /\ s.term = l[k].term
           /\ s.members = WithoutAddress(RecordOf(l[k]).newCluster, Self)
  BY DEF Leads, Configured
<1> HIDE DEF before
<1>3. /\ after = {} => s.index = -1 /\ s.term = -1 /\ s.members = InitialPeers
      /\ \A k \in after : (\A j \in after : j <= k) =>
           /\ s.index = k - 1 /\ s.term = r[k].term
           /\ s.members = WithoutAddress(RecordOf(r[k]).newCluster, Self)
  BY <1>1, <1>2, Zenon
<1> QED BY <1>3 DEF Leads, Configured

\* A list that changes no configuration may be cut short anywhere.
LEMMA FitsCutShort ==
  ASSUME NEW p, NEW n \in Nat, NEW es \in Seq(LogEntry), NEW l \in Seq(LogEntry), NEW s, NEW a,
         NEW whole, NEW clean, s.index \in Int, Fits(p, n, << >>, es, << >>, l, s, whole, clean, a)
  PROVE  Agree(l, s, whole, clean)
<1> DEFINE new == Final(l, n, es)
           m == Len(l) - n
<1>1. n \in 0 .. Len(l)
  BY LenProperties DEF Fits
<1>2. /\ new \in Seq(LogEntry) /\ Len(new) = m + Len(es)
      /\ \A k \in 1 .. m : new[k] = l[k]
      /\ \A k \in 1 .. Len(es) : new[m + k] = es[k]
      /\ Len(l) \in Nat /\ Len(es) \in Nat
  BY <1>1, FinalFacts, Zenon
<1>3. /\ m \in Nat /\ m <= Len(l) /\ DOMAIN new = 1 .. Len(new) /\ DOMAIN l = 1 .. Len(l)
  BY <1>1, <1>2, LenProperties
<1>4. ASSUME whole PROVE s.index < Len(l)
  <2>1. /\ s.index < Len(new)
        /\ s.index < Len(Kept(l, n)) \/ Len(<< >>) = 2 \/ es = << >>
    BY <1>4 DEF Fits, After
  <2>2. Len(Kept(l, n)) = m
    BY <1>1, FinalFacts, Zenon
  <2>3. Len(<< >>) = 0
    OBVIOUS
  <2> HIDE DEF new, m
  <2>4. CASE es = << >>
    BY <1>2, <1>3, <2>1, <2>3, <2>4
  <2>5. CASE s.index < m
    BY <1>2, <1>3, <2>5
  <2> QED BY <2>1, <2>2, <2>3, <2>4, <2>5
<1>5. NoChangeIn(es, 0) /\ (clean => NoChangeIn(l, m))
  BY DEF Fits
<1>6. ASSUME clean PROVE Leads(new, s)
  <2>1. Truthful(l, n)
    BY <1>5, <1>6 DEF Truthful, NoChangeIn
  <2> QED BY <1>6, <2>1 DEF Fits, After
<1> SUFFICES ASSUME clean PROVE Leads(l, s)
  BY <1>4 DEF Agree
<1> HIDE DEF new, m
<1>7. ASSUME NEW k \in DOMAIN new, IsClusterChange(new[k]) PROVE k \in DOMAIN l /\ l[k] = new[k]
  <2>1. k \in 1 .. m + Len(es)
    BY <1>2, <1>3
  <2>2. CASE k <= m
    <3>1. k \in 1 .. m /\ k \in 1 .. Len(l)
      BY <1>2, <1>3, <2>1, <2>2
    <3> QED BY <1>2, <1>3, <3>1
  <2>3. CASE ~(k <= m)
    <3> DEFINE i == k - m
    <3>1. i \in 1 .. Len(es) /\ 0 < i /\ m + i = k
      BY <1>2, <1>3, <2>1, <2>3
    <3> HIDE DEF i
    <3>2. es[i] = new[k]
      BY <1>2, <3>1
    <3> QED BY <1>5, <1>7, <3>1, <3>2 DEF NoChangeIn
  <2> QED BY <2>2, <2>3
<1>8. ASSUME NEW k \in DOMAIN l, IsClusterChange(l[k]) PROVE k \in DOMAIN new /\ l[k] = new[k]
  <2>1. k \in 1 .. Len(l) /\ ~(m < k)
    BY <1>3, <1>5, <1>8 DEF NoChangeIn
  <2>2. k \in 1 .. m /\ k \in 1 .. m + Len(es)
    BY <1>2, <1>3, <2>1
  <2> QED BY <1>2, <1>3, <2>2
<1> QED BY <1>6, <1>7, <1>8, LeadsBoth

LEMMA OfLeaderPrefix ==
  ASSUME NEW l, NEW r, OfLeader(r), Len(l) \in Nat, Len(r) \in Nat, Len(l) <= Len(r),
         \A k \in 1 .. Len(l) : l[k] = r[k]
  PROVE  OfLeader(l)
<1>1. PICK t \in DOMAIN LeaderLogs :
        /\ Len(r) <= Len(LeaderLogs[t])
        /\ \A k \in 1 .. Len(r) : r[k] = LeaderLogs[t][k]
  BY DEF OfLeader
<1>2. LeaderLogs[t] \in Seq(LogEntry)
  BY LeaderLogsAssumption
<1>3. Len(LeaderLogs[t]) \in Nat
  BY <1>2, LenProperties
<1>4. Len(l) <= Len(LeaderLogs[t])
  BY <1>1, <1>3
<1>5. ASSUME NEW k \in 1 .. Len(l) PROVE l[k] = LeaderLogs[t][k]
  <2>1. k \in 1 .. Len(r)
    OBVIOUS
  <2> QED BY <1>1, <2>1
<1> QED BY <1>4, <1>5 DEF OfLeader

-----------------------------------------------------------------------------
(***************************************************************************)
(* The invariant.  Either the list is an administrator's, or it is what    *)
(* remains of one that fits the log on disk and the configuration.         *)
(***************************************************************************)
Now == [index |-> clusterChange.index, term |-> clusterChange.term, members |-> peers]
Clean == ~torn /\ ~misled

\* The operation in progress is the one at the head of the list.
HeadInProgress ==
  /\ pc \in {"setEntry", "setLastIndex", "appendFailed"} =>
       Head(todo).do = "append" /\ entry = Head(todo).entry
  /\ pc \in {"deleteEntry", "lowerLastIndex", "removeFailed"} =>
       Head(todo).do \in {"remove", "adminRemove"}
  /\ pc = "commit" =>
       \/ Head(todo).do = "append" /\ entry = Head(todo).entry /\ view = Appended
       \/ Head(todo).do \in {"remove", "adminRemove"} /\ view = Removed /\ disk.last # -1

Administered ==
  /\ \A k \in DOMAIN todo : todo[k].do = "adminRemove"
  /\ acked # NoRequest => todo = << >> /\ Holds(Entries, acked)
  /\ Agree(Entries, Now, ~torn, Clean)

Following ==
  \E p, n, c, es, d :
    /\ Remains(p, n, c, es, d) /\ todo = ListOf(p, n, c, es, d)
    /\ Fits(p, n, c, es, d, Entries, Now, ~torn, Clean, acked)

ListInv ==
  /\ OfLeader(Entries)
  /\ Known(Entries, clusterChange.index)
  /\ Administered \/ Following

LEMMA ListInvInit == ListInit => HeadInProgress /\ ListInv
<1> SUFFICES ASSUME ListInit PROVE HeadInProgress /\ ListInv
  OBVIOUS
<1>1. /\ pc = "idle" /\ todo = << >> /\ acked = NoRequest
      /\ clusterChange.index = -1 /\ clusterChange.term = -1 /\ peers = InitialPeers
      /\ disk.last = -1
  BY DEF ListInit, LogInit, NoKeys, NoChange
<1>2. Gapless(disk)
  BY LogInvInit DEF ListInit, LogInv
<1>3. Entries \in Seq(LogEntry) /\ Len(Entries) = 0
  BY <1>1, <1>2, EntriesOfDisk
<1>4. 1 .. Len(Entries) = {} /\ DOMAIN Entries = {}
  BY <1>3, LenProperties
<1>5. OfLeader(Entries)
  <2>1. PICK t \in DOMAIN LeaderLogs : TRUE
    BY LeadersMatch
  <2>2. LeaderLogs[t] \in Seq(LogEntry)
    BY LeaderLogsAssumption
  <2>3. Len(Entries) <= Len(LeaderLogs[t])
    BY <1>3, <2>2, LenProperties
  <2> QED BY <1>4, <2>3 DEF OfLeader
<1>6. Known(Entries, clusterChange.index)
  BY <1>1, <1>4 DEF Known
<1>7. Agree(Entries, Now, ~torn, Clean)
  BY <1>1, <1>3, <1>4 DEF Agree, Leads, Configured, Now
<1>8. DOMAIN todo = {}
  BY <1>1
<1>9. Administered
  BY <1>1, <1>7, <1>8 DEF Administered
<1>10. HeadInProgress
  BY <1>1 DEF HeadInProgress
<1> QED BY <1>5, <1>6, <1>9, <1>10 DEF ListInv

LEMMA LogOfEntries ==
  ASSUME LogInv, pc = "idle"
  PROVE  Log = Entries /\ lastIndex = disk.last /\ Len(Entries) = lastIndex + 1
         /\ Entries \in Seq(LogEntry)
<1>1. Gapless(disk) /\ view = disk /\ lastIndex = disk.last
  BY DEF LogInv
<1> QED BY <1>1, EntriesOfDisk DEF Log, Entries

\* what holds when no action is left
LEMMA AtRestFacts ==
  ASSUME LogInv, ListInv, todo = << >>
  PROVE  /\ acked # NoRequest => Holds(Entries, acked)
         /\ Agree(Entries, Now, ~torn, Clean)
<1>1. CASE Administered
  BY <1>1 DEF Administered
<1>2. CASE Following
  <2>1. PICK p, n, c, es, d :
          /\ Remains(p, n, c, es, d) /\ todo = ListOf(p, n, c, es, d)
          /\ Fits(p, n, c, es, d, Entries, Now, ~torn, Clean, acked)
    BY <1>2 DEF Following
  <2>2. p = << >> /\ n = 0 /\ c = << >> /\ es = << >> /\ d = << >>
    BY <2>1, EmptyList
  <2>3. Fits(<< >>, 0, << >>, << >>, << >>, Entries, Now, ~torn, Clean, acked)
    BY <2>1, <2>2
  <2>4. Entries \in Seq(LogEntry)
    BY EntriesOfDisk DEF LogInv
  <2>5. Final(Entries, 0, << >>) = Entries
    <3>1. Kept(Entries, 0) = Entries
      BY <2>4, EmptySeq, FinalOfAll
    <3> QED BY <2>4, <3>1, ConcatEmptySeq DEF Final
  <2>6. After(After(Now, << >>), << >>) = Now
    BY DEF After
  <2>7. Truthful(Entries, 0)
    BY <2>4, LenProperties DEF Truthful
  <2> QED BY <2>3, <2>5, <2>6, <2>7 DEF Fits, Agree
<1> QED BY <1>1, <1>2 DEF ListInv

\* A list whose parts are at hand fits.
LEMMA AnswerFits ==
  ASSUME NEW p, NEW l \in Seq(LogEntry), OfLeader(l), NEW s, NEW whole, NEW clean,
         Agree(l, s, whole, clean),
         NEW a, a # NoRequest => Holds(l, a)
  PROVE  Fits(p, 0, << >>, << >>, << >>, l, s, whole, clean, a)
<1>1. << >> \in Seq(LogEntry)
  BY EmptySeq
<1>2. Kept(l, 0) = l
  BY <1>1, FinalOfAll
<1>3. Final(l, 0, << >>) = l
  BY <1>2, ConcatEmptySeq DEF Final
<1>4. After(After(s, << >>), << >>) = s
  BY DEF After
<1>5. Len(l) \in Nat /\ Len(<< >>) = 0
  BY LenProperties
<1>6. NoChangeIn(<< >>, 0) /\ NoChangeIn(l, Len(l) - 0) /\ 0 <= Len(l) /\ Len(<< >>) # 2
  BY <1>5 DEF NoChangeIn
<1> QED BY <1>2, <1>3, <1>4, <1>6 DEF Fits, Agree

LEMMA AnswerList ==
  ASSUME NEW m \in Requests
  PROVE  /\ IsAnswer(TermStep(m) \o << [do |-> "reply"] >>)
         /\ Remains(TermStep(m) \o << [do |-> "reply"] >>, 0, << >>, << >>, << >>)
         /\ TermStep(m) \o << [do |-> "reply"] >> =
              ListOf(TermStep(m) \o << [do |-> "reply"] >>, 0, << >>, << >>, << >>)
<1> DEFINE p == TermStep(m) \o << [do |-> "reply"] >>
<1>1. p \in Seq(Step)
  BY TermStepType
<1>2. \A k \in DOMAIN p : p[k].do \in {"setCurrentTerm", "reply"}
  BY DEF TermStep
<1>3. IsAnswer(p)
  BY <1>1, <1>2 DEF IsAnswer
<1> HIDE DEF p
<1>4. << >> \in Seq(Step) /\ << >> \in Seq(LogEntry)
  BY EmptySeq
<1>5. Remains(p, 0, << >>, << >>, << >>)
  BY <1>3, <1>4 DEF Remains, IsReconfiguration
<1>6. ListOf(p, 0, << >>, << >>, << >>) = p
  BY <1>1, <1>4, PartsOfList, ConcatEmptySeq DEF ListOf
<1> QED BY <1>3, <1>5, <1>6 DEF p

-----------------------------------------------------------------------------
(* The handler. *)

LEMMA Reconfigurations ==
  ASSUME NEW index \in Int, NEW term \in Int, NEW cluster \in Cluster
  PROVE  IsReconfiguration(Configure(index, term, cluster))
<1>1. Configure(index, term, cluster) \in Seq(Step)
  BY ConfigureType
<1>2. /\ Len(Configure(index, term, cluster)) = 2
      /\ Configure(index, term, cluster)[1].do = "setClusterChange"
      /\ Configure(index, term, cluster)[2].do = "setPeers"
  BY DEF Configure
<1> QED BY <1>1, <1>2 DEF IsReconfiguration

FromTheLeft(a, b, c, d) == ((a \o b) \o c) \o d
FromTheRight(a, b, c, d) == a \o (b \o (c \o d))

LEMMA EitherWay ==
  ASSUME NEW a \in Seq(Step), NEW b \in Seq(Step), NEW c \in Seq(Step), NEW d \in Seq(Step)
  PROVE  FromTheLeft(a, b, c, d) = FromTheRight(a, b, c, d)
<1> DEFINE ab == a \o b
           cd == c \o d
<1>1. ab \in Seq(Step) /\ cd \in Seq(Step)
  BY ConcatProperties
<1>2. a \o (b \o cd) = ab \o cd
  <2> HIDE DEF cd
  <2> QED BY <1>1, ConcatAssociative, SMTT(30)
<1>3. (ab \o c) \o d = ab \o cd
  <2>1. ab \in Seq(Step)
    BY <1>1
  <2> HIDE DEF ab
  <2> QED BY <2>1, ConcatAssociative, SMTT(30)
<1> QED BY <1>2, <1>3 DEF FromTheLeft, FromTheRight

\* The list of an accepted request, in its parts.
LEMMA AcceptedParts ==
  ASSUME LogInv, pc = "idle", StatusInv, NEW m \in Requests, m.entries # << >>,
         NEW rewound \in Configurations, NEW newest \in NewestChange(m),
         lastIndex - m.prevLogIndex \in Nat
  PROVE  LET p == TermStep(m) \o << [do |-> "reply"] >>
             n == lastIndex - m.prevLogIndex
             c == RewindIfDeleted(m, rewound)
             d == ConfigureNewest(m, newest)
         IN /\ Remains(p, n, c, m.entries, d)
            /\ AcceptedList(m, rewound, newest) = ListOf(p, n, c, m.entries, d)
<1> DEFINE p == TermStep(m) \o << [do |-> "reply"] >>
           n == lastIndex - m.prevLogIndex
           c == RewindIfDeleted(m, rewound)
           d == ConfigureNewest(m, newest)
           es == m.entries
<1>1. es \in Seq(LogEntry) /\ m.prevLogIndex \in Int
  BY RequestFields
<1>2. IsReconfiguration(<< >>)
  BY EmptySeq DEF IsReconfiguration
<1>3. IsReconfiguration(c)
  BY <1>2, ConfigurationFields, Reconfigurations DEF RewindIfDeleted
<1>4. IsReconfiguration(d)
  <2>1. CASE newest = 0
    BY <1>2, <2>1 DEF ConfigureNewest
  <2>2. CASE newest # 0
    <3>1. newest \in DOMAIN m.entries
      BY <2>2 DEF NewestChange
    <3>2. newest \in Int /\ m.entries[newest] \in LogEntry
      BY <1>1, <3>1, LenProperties, ElementOfSeq
    <3>3. m.entries[newest].term \in Int /\ RecordOf(m.entries[newest]).newCluster \in Cluster
      BY <3>2, EntryFields DEF ClusterChangeCommand
    <3>4. m.prevLogIndex + newest \in Int
      BY <1>1, <3>2
    <3> QED BY <2>2, <3>3, <3>4, Reconfigurations DEF ConfigureNewest
  <2> QED BY <2>1, <2>2
<1>5. IsAnswer(p)
  BY AnswerList
<1> HIDE DEF p, n, c, d, es
<1>6. n \in Nat
  BY DEF n
<1>7. Remains(p, n, c, es, d)
  BY <1>1, <1>3, <1>4, <1>5, <1>6 DEF Remains
<1>8. /\ DeleteLog(n) \in Seq(Step) /\ AppendLog(es) \in Seq(Step)
      /\ c \in Seq(Step) /\ d \in Seq(Step)
  BY <1>1, <1>3, <1>4, <1>6, PartsOfList DEF IsReconfiguration
<1>9. FromTheLeft(DeleteLog(n), c, AppendLog(es), d)
        = FromTheRight(DeleteLog(n), c, AppendLog(es), d)
  BY <1>8, EitherWay
<1>10. AcceptedList(m, rewound, newest) = p \o FromTheLeft(DeleteLog(n), c, AppendLog(es), d)
  BY DEF AcceptedList, FromTheLeft, p, n, c, d, es
<1>11. AcceptedList(m, rewound, newest) = ListOf(p, n, c, es, d)
  BY <1>9, <1>10 DEF ListOf, FromTheRight
<1> QED BY <1>7, <1>11 DEF p, n, c, d, es

\* Whether the request is refused or empty, the list only answers.
LEMMA AnswerStep ==
  ASSUME LogInv, ListInv, NEW m \in Requests, AtRest,
         todo' = TermStep(m) \o << [do |-> "reply"] >>,
         UNCHANGED <<logVars, clusterChange, peers, torn, misled, acked>>
  PROVE  ListInv'
<1>1. Entries' = Entries /\ Now' = Now /\ torn' = torn /\ Clean' = Clean /\ acked' = acked
      /\ clusterChange' = clusterChange
  BY DEF logVars, Entries, Now, Clean
<1>2. /\ acked # NoRequest => Holds(Entries, acked)
      /\ Agree(Entries, Now, ~torn, Clean)
  BY AtRestFacts DEF AtRest
<1>3. Entries \in Seq(LogEntry) /\ OfLeader(Entries) /\ Known(Entries, clusterChange.index)
  BY EntriesOfDisk DEF LogInv, ListInv
<1> DEFINE p == TermStep(m) \o << [do |-> "reply"] >>
<1>4. Remains(p, 0, << >>, << >>, << >>) /\ p = ListOf(p, 0, << >>, << >>, << >>)
  BY AnswerList
<1>5. Fits(p, 0, << >>, << >>, << >>, Entries, Now, ~torn, Clean, acked)
  BY <1>2, <1>3, AnswerFits
<1>6. Following'
  <2>1. todo' = p
    OBVIOUS
  <2> HIDE DEF p
  <2>2. /\ Remains(p, 0, << >>, << >>, << >>) /\ todo' = ListOf(p, 0, << >>, << >>, << >>)
        /\ Fits(p, 0, << >>, << >>, << >>, Entries', Now', ~torn', Clean', acked')
    BY <1>1, <1>4, <1>5, <2>1
  <2> QED BY <2>2 DEF Following
<1>7. OfLeader(Entries') /\ Known(Entries', clusterChange'.index)
  BY <1>1, <1>3
<1> QED BY <1>6, <1>7 DEF ListInv

LEMMA AcceptedStep ==
  ASSUME LogInv, StatusInv, ListInv, NEW m \in Requests, FollowerOnAppendEntries(m)
  PROVE  ListInv'
<1>1. /\ pc = "idle" /\ todo = << >> /\ AtRest
      /\ UNCHANGED <<logVars, clusterChange, peers, torn, misled>>
      /\ Accepts(m) /\ ~RewindFails(m)
      /\ acked' = (IF m.entries = << >> THEN acked ELSE m)
  BY DEF FollowerOnAppendEntries, Receive, AtRest, statusVars
<1>2. PICK rewound \in Configurations, newest \in NewestChange(m) :
        rewound = Rewound(m) /\ todo' = AcceptedList(m, rewound, newest)
  BY DEF FollowerOnAppendEntries
<1> DEFINE p == TermStep(m) \o << [do |-> "reply"] >>
           n == lastIndex - m.prevLogIndex
           c == RewindIfDeleted(m, rewound)
           d == ConfigureNewest(m, newest)
<1>3. CASE m.entries = << >>
  <2>1. p \in Seq(Step)
    BY AnswerList DEF IsAnswer
  <2>2. todo' = p /\ acked' = acked
    BY <1>1, <1>2, <1>3, <2>1, ConcatEmptySeq DEF AcceptedList
  <2> QED BY <1>1, <2>2, AnswerStep
<1>4. CASE m.entries # << >>
  <2>1. /\ Entries \in Seq(LogEntry) /\ OfLeader(Entries) /\ Log = Entries
        /\ Len(Entries) = lastIndex + 1 /\ Known(Entries, clusterChange.index)
        /\ lastIndex \in Int
    BY <1>1, LogOfEntries DEF ListInv, LogInv
  <2>2. Agree(Entries, Now, ~torn, Clean)
    BY <1>1, AtRestFacts
  <2>3. Matching(Entries, m) /\ m.prevLogIndex \in Int
    BY <1>1, <2>1, RequestFields DEF Accepts, Matches, Matching
  <2>4. n = Len(Entries) - 1 - m.prevLogIndex
    BY <2>1, <2>3
  <2>5. n \in Nat
    <3>1. n \in 0 .. Len(Entries)
      BY <2>1, <2>3, <2>4, TakesOver
    <3> QED BY <3>1
  <2>6. Remains(p, n, c, m.entries, d) /\ todo' = ListOf(p, n, c, m.entries, d)
    BY <1>1, <1>2, <1>4, <2>5, AcceptedParts
  <2>7. /\ rewound = Rewind(Entries, m.prevLogIndex,
                            [index |-> Now.index, term |-> Now.term,
                             cluster |-> PlusAddress(Now.members, Self)])
        /\ ~(rewound.index > m.prevLogIndex)
        /\ Known(Entries, Now.index)
        /\ c = IF Now.index > m.prevLogIndex
               THEN Configure(rewound.index, rewound.term, rewound.cluster) ELSE << >>
    BY <1>1, <1>2, <1>4, <2>1 DEF Rewound, RewindFails, CurrentConfiguration, Now, RewindIfDeleted
  <2> HIDE DEF n, p, c
  <2>8. Fits(p, n, c, m.entries, d, Entries, Now, ~torn, Clean, m)
    BY <2>1, <2>2, <2>3, <2>4, <2>7, <1>4, FitsAccepted
  <2> HIDE DEF d
  <2>9. /\ Entries' = Entries /\ Now' = Now /\ torn' = torn /\ Clean' = Clean /\ acked' = m
        /\ clusterChange' = clusterChange
    BY <1>1, <1>4 DEF logVars, Entries, Now, Clean
  <2>10. Following'
    <3>1. Fits(p, n, c, m.entries, d, Entries', Now', ~torn', Clean', acked')
      BY <2>8, <2>9
    <3> QED BY <2>6, <3>1 DEF Following
  <2>11. OfLeader(Entries') /\ Known(Entries', clusterChange'.index)
    BY <2>1, <2>9
  <2> QED BY <2>10, <2>11 DEF ListInv
<1> QED BY <1>3, <1>4

-----------------------------------------------------------------------------
(* The executor. *)

\* An action that writes no entry: answer, term, change, peers.
LEMMA StatusStep ==
  ASSUME LogInv, StatusInv, ListInv,
         ReplyAppendEntries \/ SetCurrentTerm \/ SetClusterChange
           \/ SetPeerAddresses \/ SetPeerAddressesUnsaved
  PROVE  ListInv'
<1>1. /\ todo # << >> /\ todo' = Tail(todo) /\ Entries' = Entries /\ acked' = acked
      /\ Head(todo).do \in {"reply", "setCurrentTerm", "setClusterChange", "setPeers"}
      /\ Head(todo).do \in {"reply", "setCurrentTerm"} => Now' = Now
      /\ Head(todo).do = "setClusterChange" =>
           Now' = [index |-> Head(todo).index, term |-> Head(todo).term, members |-> peers]
      /\ Head(todo).do = "setPeers" =>
           Now' = [index |-> Now.index, term |-> Now.term, members |-> Head(todo).peers]
  BY DEF ReplyAppendEntries, SetCurrentTerm, SetClusterChange, SetPeerAddresses, PeersTaken,
         SetPeerAddressesUnsaved, Perform, Done, logVars, statusVars, Entries, Now
\* only the last action of a list may end what is torn or misled
<1>2. ASSUME todo' # << >> PROVE torn' = torn /\ Clean' = Clean
  <2>1. \/ UNCHANGED <<torn, misled>>
        \/ torn' = (torn /\ todo' # << >>) /\ misled' = (misled /\ todo' # << >>)
    BY DEF ReplyAppendEntries, SetCurrentTerm, SetClusterChange, SetPeerAddresses, PeersTaken,
           SetPeerAddressesUnsaved, Done
  <2>2. torn \in BOOLEAN /\ misled \in BOOLEAN
    BY DEF StatusInv
  <2>3. torn' = torn /\ misled' = misled
    BY <1>2, <2>1, <2>2, Zenon
  <2> QED BY <2>3 DEF Clean
<1>3. Head(todo).do # "setPeers" => torn' = torn /\ Clean' = Clean
  BY DEF ReplyAppendEntries, SetCurrentTerm, SetClusterChange, SetPeerAddresses, PeersTaken,
         SetPeerAddressesUnsaved, Perform, Done, Clean
<1>4. /\ Entries \in Seq(LogEntry) /\ OfLeader(Entries) /\ Known(Entries, Now.index)
      /\ Now.members = peers /\ clusterChange'.index = Now'.index
  BY EntriesOfDisk DEF LogInv, ListInv, Now
<1>5. ~Administered
  <2>1. Administered => Head(todo).do = "adminRemove"
    BY <1>1 DEF Administered
  <2> QED BY <1>1, <2>1
<1>6. PICK p, n, c, es, d :
        /\ Remains(p, n, c, es, d) /\ todo = ListOf(p, n, c, es, d)
        /\ Fits(p, n, c, es, d, Entries, Now, ~torn, Clean, acked)
  BY <1>5 DEF ListInv, Following
<1>7. es \in Seq(LogEntry) /\ IsReconfiguration(c) /\ IsReconfiguration(d)
  BY <1>6 DEF Remains
<1>8. \/ /\ p # << >> /\ Head(todo).do \in {"setCurrentTerm", "reply"}
         /\ todo' = ListOf(Tail(p), n, c, es, d) /\ Remains(Tail(p), n, c, es, d)
      \/ /\ p = << >> /\ n > 0 /\ Head(todo).do = "remove"
      \/ /\ p = << >> /\ n = 0 /\ c # << >> /\ Head(todo) = Head(c)
         /\ todo' = ListOf(<< >>, 0, Tail(c), es, d) /\ Remains(<< >>, 0, Tail(c), es, d)
      \/ /\ p = << >> /\ n = 0 /\ c = << >> /\ es # << >>
         /\ Head(todo) = [do |-> "append", entry |-> Head(es)]
      \/ /\ p = << >> /\ n = 0 /\ c = << >> /\ es = << >> /\ d # << >> /\ Head(todo) = Head(d)
         /\ todo' = ListOf(<< >>, 0, << >>, << >>, Tail(d))
         /\ Remains(<< >>, 0, << >>, << >>, Tail(d))
  BY <1>1, <1>6, NextOfList
<1>9. OfLeader(Entries')
  BY <1>1, <1>4
<1>10. CASE /\ p # << >> /\ Head(todo).do \in {"setCurrentTerm", "reply"}
           /\ todo' = ListOf(Tail(p), n, c, es, d) /\ Remains(Tail(p), n, c, es, d)
  <2>1. Now' = Now
    BY <1>1, <1>10
  <2>2. Fits(Tail(p), n, c, es, d, Entries, Now, ~torn, Clean, acked)
    BY <1>6, <1>10, FitsAnswer
  <2>3. Fits(Tail(p), n, c, es, d, Entries', Now', ~torn', Clean', acked')
    BY <1>1, <1>10, <1>3, <2>1, <2>2
  <2>4. Following'
    BY <1>10, <2>3 DEF Following
  <2>5. Known(Entries', clusterChange'.index)
    BY <1>1, <1>4, <2>1
  <2> QED BY <1>9, <2>4, <2>5 DEF ListInv
<1>11. CASE /\ p = << >> /\ n = 0 /\ c # << >> /\ Head(todo) = Head(c)
           /\ todo' = ListOf(<< >>, 0, Tail(c), es, d) /\ Remains(<< >>, 0, Tail(c), es, d)
  <2>1. /\ Head(c).do = "setClusterChange" =>
             Now' = [index |-> Head(c).index, term |-> Head(c).term, members |-> Now.members]
        /\ Head(c).do = "setPeers" =>
             Now' = [index |-> Now.index, term |-> Now.term, members |-> Head(c).peers]
    BY <1>1, <1>4, <1>11
  <2>2. Fits(<< >>, 0, c, es, d, Entries, Now, ~torn, Clean, acked)
    BY <1>6, <1>11
  <2>3. PICK r : r = Now'
    OBVIOUS
  <2>4. /\ Fits(<< >>, 0, Tail(c), es, d, Entries, r, ~torn, Clean, acked)
        /\ Known(Entries, r.index)
    BY <1>4, <1>7, <1>11, <2>1, <2>2, <2>3, FitsChangeBack
  <2>5. todo' # << >>
    <3>1. es # << >>
      BY <1>11, <2>2 DEF Fits
    <3> QED BY <1>11, <3>1, EmptyList
  <2>6. Fits(<< >>, 0, Tail(c), es, d, Entries', Now', ~torn', Clean', acked')
    BY <1>1, <1>2, <2>3, <2>4, <2>5
  <2>7. Following'
    BY <1>11, <2>6 DEF Following
  <2>8. Known(Entries', clusterChange'.index)
    BY <1>1, <1>4, <2>3, <2>4
  <2> QED BY <1>9, <2>7, <2>8 DEF ListInv
<1>12. CASE /\ p = << >> /\ n = 0 /\ c = << >> /\ es = << >> /\ d # << >> /\ Head(todo) = Head(d)
            /\ todo' = ListOf(<< >>, 0, << >>, << >>, Tail(d))
            /\ Remains(<< >>, 0, << >>, << >>, Tail(d))
  <2>1. /\ Head(d).do = "setClusterChange" =>
             Now' = [index |-> Head(d).index, term |-> Head(d).term, members |-> Now.members]
        /\ Head(d).do = "setPeers" =>
             Now' = [index |-> Now.index, term |-> Now.term, members |-> Head(d).peers]
    BY <1>1, <1>4, <1>12
  <2>2. Fits(<< >>, 0, << >>, << >>, d, Entries, Now, ~torn, Clean, acked)
    BY <1>6, <1>12
  <2>3. PICK r : r = Now'
    OBVIOUS
  <2>4. /\ Fits(<< >>, 0, << >>, << >>, Tail(d), Entries, r, ~torn', Clean', acked)
        /\ Known(Entries, r.index)
    BY <1>4, <1>7, <1>12, <2>1, <2>2, <2>3, FitsChangeOn
  <2>5. Fits(<< >>, 0, << >>, << >>, Tail(d), Entries', Now', ~torn', Clean', acked')
    BY <1>1, <2>3, <2>4
  <2>6. Following'
    BY <1>12, <2>5 DEF Following
  <2>7. Known(Entries', clusterChange'.index)
    BY <1>1, <1>4, <2>3, <2>4
  <2> QED BY <1>9, <2>6, <2>7 DEF ListInv
<1> QED BY <1>1, <1>8, <1>10, <1>11, <1>12

\* Without its last entry a log is still a leader's.
LEMMA KeptFacts ==
  ASSUME NEW l \in Seq(LogEntry), Len(l) > 0, OfLeader(l), NEW i, Known(l, i)
  PROVE  /\ OfLeader(Kept(l, 1)) /\ Known(Kept(l, 1), i)
         /\ Kept(l, 1) = Upto(l, Len(l) - 1)
         /\ Len(l) - 1 \in 0 .. Len(l)
<1>1. Len(l) \in Nat
  BY LenProperties
<1>2. 1 \in 0 .. Len(l) /\ << >> \in Seq(LogEntry)
  BY <1>1, EmptySeq
<1>3. /\ Len(Kept(l, 1)) = Len(l) - 1
      /\ \A k \in 1 .. Len(l) - 1 : Kept(l, 1)[k] = l[k]
  BY <1>2, FinalFacts, Zenon
<1> DEFINE r == Kept(l, 1)
<1>4. Len(r) \in Nat /\ Len(r) <= Len(l) /\ \A k \in 1 .. Len(r) : r[k] = l[k]
  BY <1>1, <1>3
<1>5. Kept(l, 1) = Upto(l, Len(l) - 1)
  BY DEF Kept, Upto
<1> HIDE DEF r
<1>6. OfLeader(r)
  BY <1>1, <1>4, OfLeaderPrefix
<1>7. Known(r, i)
  <2>1. ASSUME i + 1 \in 1 .. Len(r) PROVE i + 1 \in 1 .. Len(l) /\ l[i + 1] = r[i + 1]
    BY <1>1, <1>4, <2>1 DEF Known
  <2> QED BY <2>1 DEF Known
<1> QED BY <1>1, <1>5, <1>6, <1>7 DEF r

LEMMA GrownFacts ==
  ASSUME NEW l \in Seq(LogEntry), NEW e \in LogEntry, NEW i, Known(l, i), i < Len(l)
  PROVE  Known(Append(l, e), i)
<1>1. /\ Len(l) \in Nat /\ i \in Int
      /\ \A k \in 1 .. Len(l) : Append(l, e)[k] = l[k]
  BY LenProperties, AppendProperties DEF Known
<1> DEFINE r == Append(l, e)
<1>2. \A k \in 1 .. Len(l) : r[k] = l[k]
  BY <1>1
<1> HIDE DEF r
<1>3. ASSUME i + 1 \in 1 .. Len(r) PROVE i + 1 \in 1 .. Len(l) /\ r[i + 1] = l[i + 1]
  <2>1. i + 1 \in 1 .. Len(l)
    BY <1>1, <1>3
  <2> QED BY <1>2, <2>1
<1>4. Known(r, i)
  BY <1>3 DEF Known
<1> QED BY <1>4 DEF r

\* What a transaction does to the entries when it ends.
LEMMA CommitEntries ==
  ASSUME LogInv, StatusInv, HeadInProgress, CommitEntry
  PROVE  /\ todo # << >> /\ todo' = Tail(todo)
         /\ Now' = Now /\ acked' = acked /\ clusterChange' = clusterChange
         /\ \/ /\ Head(todo).do = "append" /\ Entries' = Append(Entries, Head(todo).entry)
               /\ torn' = torn /\ Clean' = Clean
            \/ /\ Head(todo).do = "remove" /\ Entries' = Kept(Entries, 1) /\ Len(Entries) > 0
               /\ torn' = torn /\ (Clean' => Clean /\ ~Misleads(Len(Entries)))
            \/ /\ Head(todo).do = "adminRemove" /\ Entries' = Kept(Entries, 1)
               /\ Len(Entries) > 0
               /\ torn' = (torn \/ clusterChange.index > Len(Entries) - 2)
               /\ Clean' => Clean
<1>1. /\ pc = "commit" /\ disk' = view /\ Gapless(disk) /\ Gapless(disk') /\ entry \in LogEntry
      /\ Len(Entries) = disk.last + 1 /\ disk.last \in Int
  BY CommitEffect, EntriesOfDisk DEF LogInv, CommitEntry, Commit, Gapless
<1>2. /\ todo # << >> /\ todo' = Tail(todo) /\ Now' = Now /\ acked' = acked
      /\ clusterChange' = clusterChange
      /\ torn' = (torn \/ (Head(todo).do = "adminRemove" /\ clusterChange.index > view.last))
      /\ misled' = (misled \/ (Head(todo).do = "remove" /\ Misleads(Len(Entries))))
  BY <1>1 DEF CommitEntry, StatusInv, statusVars, Now
<1>3. torn \in BOOLEAN /\ misled \in BOOLEAN
  BY DEF StatusInv
<1>4. Head(todo).do # "adminRemove" => torn' = torn
  BY <1>2, <1>3, Zenon
<1>5. Head(todo).do # "remove" => misled' = misled
  BY <1>2, <1>3, Zenon
<1>6. Clean' => Clean /\ ~(Head(todo).do = "remove" /\ Misleads(Len(Entries)))
  BY <1>2, Zenon DEF Clean
<1>7. CASE Head(todo).do = "append" /\ entry = Head(todo).entry /\ view = Appended
  <2>1. Entries' = Append(Entries, entry)
    BY <1>1, <1>7, EntriesAppended DEF Appended
  <2>2. torn' = torn /\ misled' = misled
    BY <1>4, <1>5, <1>7
  <2>3. Clean' = Clean
    BY <2>2 DEF Clean
  <2> QED BY <1>2, <1>7, <2>1, <2>2, <2>3
<1>8. CASE Head(todo).do \in {"remove", "adminRemove"} /\ view = Removed /\ disk.last # -1
  <2>1. Len(Entries) > 0 /\ Entries' = Kept(Entries, 1)
    BY <1>1, <1>8, EntriesRemoved DEF Removed, Kept
  <2>2. view.last = Len(Entries) - 2
    BY <1>1, <1>8 DEF Removed
  <2>3. CASE Head(todo).do = "remove"
    <3>1. torn' = torn /\ (Clean' => Clean /\ ~Misleads(Len(Entries)))
      BY <1>4, <1>6, <2>3
    <3> QED BY <1>2, <2>1, <2>3, <3>1, Zenon
  <2>4. CASE Head(todo).do = "adminRemove"
    <3>1. torn' = (torn \/ clusterChange.index > Len(Entries) - 2)
      BY <1>2, <2>2, <2>4
    <3> QED BY <1>2, <1>6, <2>1, <2>4, <3>1, Zenon
  <2> QED BY <1>8, <2>3, <2>4
<1> QED BY <1>1, <1>7, <1>8 DEF HeadInProgress

LEMMA CommitStep ==
  ASSUME LogInv, StatusInv, HeadInProgress, ListInv, CommitEntry
  PROVE  ListInv'
<1>1. /\ todo # << >> /\ todo' = Tail(todo)
      /\ Now' = Now /\ acked' = acked /\ clusterChange' = clusterChange
  BY CommitEntries
<1>2. /\ Entries \in Seq(LogEntry) /\ OfLeader(Entries) /\ Known(Entries, Now.index)
      /\ Now.index = clusterChange.index
  BY EntriesOfDisk DEF LogInv, ListInv, Now
<1>3. CASE Administered
  <2>1. todo \in Seq(Step) /\ torn \in BOOLEAN
    BY DEF StatusInv
  <2>2. /\ DOMAIN todo = 1 .. Len(todo) /\ DOMAIN Tail(todo) = 1 .. Len(Tail(todo))
        /\ Len(Tail(todo)) = Len(todo) - 1 /\ Len(todo) \in Nat \ {0}
        /\ \A k \in 1 .. Len(Tail(todo)) : Tail(todo)[k] = todo[k + 1]
    BY <1>1, <2>1, HeadTailProperties, LenProperties, EmptySeq
  <2>3. Head(todo).do = "adminRemove"
    BY <1>1, <1>3, <2>2 DEF Administered
  <2>4. \A k \in DOMAIN Tail(todo) : Tail(todo)[k].do = "adminRemove"
    <3> SUFFICES ASSUME NEW k \in DOMAIN Tail(todo) PROVE Tail(todo)[k].do = "adminRemove"
      OBVIOUS
    <3>1. k + 1 \in DOMAIN todo /\ Tail(todo)[k] = todo[k + 1]
      BY <2>2
    <3> QED BY <1>3, <3>1 DEF Administered
  <2>5. /\ Entries' = Kept(Entries, 1) /\ Len(Entries) > 0
        /\ torn' = (torn \/ clusterChange.index > Len(Entries) - 2)
        /\ Clean' => Clean
    BY <2>3, CommitEntries
  <2>6. /\ OfLeader(Entries') /\ Known(Entries', Now.index)
        /\ Entries' = Upto(Entries, Len(Entries) - 1) /\ Len(Entries) - 1 \in 0 .. Len(Entries)
    BY <1>2, <2>5, KeptFacts
  <2>7. Agree(Entries', Now', ~torn', Clean')
    <3>1. Now.index \in Int /\ Len(Entries) \in Nat
      BY <1>2, LenProperties DEF Known
    <3>2. ASSUME ~torn' PROVE Now.index < Len(Entries) - 1
      <4>1. ~(Now.index > Len(Entries) - 2)
        BY <1>2, <2>5, <3>2
      <4> QED BY <3>1, <4>1
    <3>3. Len(Entries') = Len(Entries) - 1
      BY <1>2, <2>6, UptoFacts
    <3>4. ASSUME Clean' PROVE Leads(Entries', Now')
      <4>1. Leads(Entries, Now) /\ ~torn'
        BY <1>3, <2>5, <3>4 DEF Administered, Agree, Clean
      <4>2. Configured(Upto(Entries, Len(Entries) - 1), Now.index, Now.term, Now.members)
        BY <1>2, <2>6, <3>2, <4>1, LeadsCut DEF Leads
      <4> QED BY <1>1, <2>6, <4>2 DEF Leads
    <3> QED BY <1>1, <3>2, <3>3, <3>4 DEF Agree
  <2>8. acked' = NoRequest
    BY <1>1, <1>3 DEF Administered
  <2>9. NoRequest' = NoRequest
    BY DEF NoRequest
  <2>10. \A k \in DOMAIN todo' : todo'[k].do = "adminRemove"
    BY <1>1, <2>4
  <2>11. Administered'
    BY <2>7, <2>8, <2>9, <2>10 DEF Administered
  <2>12. Known(Entries', clusterChange'.index)
    BY <1>1, <1>2, <2>6
  <2> QED BY <2>6, <2>11, <2>12 DEF ListInv
<1>4. ASSUME NEW p, NEW n, NEW c, NEW es, NEW d, Remains(p, n, c, es, d),
             todo = ListOf(p, n, c, es, d),
             Fits(p, n, c, es, d, Entries, Now, ~torn, Clean, acked)
      PROVE  ListInv'
  <2>1. es \in Seq(LogEntry) /\ n \in Nat /\ IsReconfiguration(c) /\ IsReconfiguration(d)
    BY <1>4 DEF Remains
  <2>2. \/ /\ p = << >> /\ n > 0 /\ Head(todo).do = "remove"
           /\ todo' = ListOf(<< >>, n - 1, c, es, d) /\ Remains(<< >>, n - 1, c, es, d)
        \/ /\ p = << >> /\ n = 0 /\ c = << >> /\ es # << >>
           /\ Head(todo) = [do |-> "append", entry |-> Head(es)]
           /\ todo' = ListOf(<< >>, 0, << >>, Tail(es), d)
           /\ Remains(<< >>, 0, << >>, Tail(es), d)
        \/ Head(todo).do \in {"setCurrentTerm", "reply", "setClusterChange", "setPeers"}
    <3>1. c # << >> => Head(c).do \in {"setClusterChange", "setPeers"}
      BY <2>1, ReconfigurationTail
    <3>2. d # << >> => Head(d).do \in {"setClusterChange", "setPeers"}
      BY <2>1, ReconfigurationTail
    <3> QED BY <1>1, <1>4, <3>1, <3>2, NextOfList
  <2>3. CASE /\ p = << >> /\ n > 0 /\ Head(todo).do = "remove"
             /\ todo' = ListOf(<< >>, n - 1, c, es, d) /\ Remains(<< >>, n - 1, c, es, d)
    <3>1. /\ Entries' = Kept(Entries, 1) /\ Len(Entries) > 0 /\ torn' = torn
          /\ Clean' => Clean /\ ~Misleads(Len(Entries))
      BY <2>3, CommitEntries
    <3>2. Fits(<< >>, n - 1, c, es, d, Kept(Entries, 1), Now, ~torn, Clean', acked)
      <4>1. Clean' => Clean /\ (IsClusterChange(Entries[Len(Entries)])
                                  => Described(Entries, Len(Entries)))
        BY <3>1 DEF Misleads
      <4> QED BY <1>2, <1>4, <2>1, <2>3, <4>1, FitsRemove
    <3>3. Fits(<< >>, n - 1, c, es, d, Entries', Now', ~torn', Clean', acked')
      BY <1>1, <3>1, <3>2
    <3>4. Following'
      BY <2>3, <3>3 DEF Following
    <3>5. OfLeader(Kept(Entries, 1)) /\ Known(Kept(Entries, 1), Now.index)
      BY <1>2, <3>1, KeptFacts
    <3>6. OfLeader(Entries') /\ Known(Entries', clusterChange'.index)
      BY <1>1, <1>2, <3>1, <3>5
    <3> QED BY <3>4, <3>6 DEF ListInv
  <2>4. CASE /\ p = << >> /\ n = 0 /\ c = << >> /\ es # << >>
             /\ Head(todo) = [do |-> "append", entry |-> Head(es)]
             /\ todo' = ListOf(<< >>, 0, << >>, Tail(es), d)
             /\ Remains(<< >>, 0, << >>, Tail(es), d)
    <3>1. Head(todo).do = "append" /\ Head(todo).entry = Head(es)
      BY <2>4
    <3>2. Entries' = Append(Entries, Head(es)) /\ torn' = torn /\ Clean' = Clean
      BY <3>1, CommitEntries
    <3>3. Fits(<< >>, 0, << >>, es, d, Entries, Now, ~torn, Clean, acked) /\ Now.index \in Int
      BY <1>2, <1>4, <2>4 DEF Known
    <3>4. /\ Fits(<< >>, 0, << >>, Tail(es), d, Append(Entries, Head(es)), Now, ~torn, Clean, acked)
          /\ Now.index < Len(Entries)
      BY <1>2, <2>1, <2>4, <3>3, FitsAppend
    <3>5. Fits(<< >>, 0, << >>, Tail(es), d, Entries', Now', ~torn', Clean', acked')
      BY <1>1, <3>2, <3>4
    <3>6. Following'
      BY <2>4, <3>5 DEF Following
    <3>7. Head(es) \in LogEntry /\ es \in Seq(LogEntry)
      BY <2>1, <2>4, HeadTailProperties
    <3>8. Known(Append(Entries, Head(es)), Now.index)
      BY <1>2, <3>4, <3>7, GrownFacts
    <3>9. OfLeader(Append(Entries, Head(es)))
      <4> DEFINE r == Final(Entries, 0, es)
                 l == Append(Entries, Head(es))
      <4>1. OfLeader(r)
        BY <3>3 DEF Fits
      <4>2. /\ Len(r) = Len(Entries) + Len(es)
            /\ \A k \in 1 .. Len(Entries) : r[k] = Entries[k]
            /\ \A k \in 1 .. Len(es) : r[Len(Entries) + k] = es[k]
        BY <1>2, <2>1, FinalOfAll
      <4>3. /\ Len(l) = Len(Entries) + 1
            /\ \A k \in 1 .. Len(Entries) : l[k] = Entries[k]
            /\ l[Len(Entries) + 1] = Head(es)
        BY <1>2, <3>7, AppendProperties
      <4>4. Len(Entries) \in Nat /\ Len(es) \in Nat \ {0} /\ Head(es) = es[1]
        BY <1>2, <2>1, <2>4, LenProperties, EmptySeq
      <4> HIDE DEF r, l
      <4>5. 1 \in 1 .. Len(es) /\ Len(l) \in Nat /\ Len(r) \in Nat /\ Len(l) <= Len(r)
        BY <4>2, <4>3, <4>4
      <4>6. r[Len(Entries) + 1] = Head(es)
        BY <4>2, <4>4, <4>5
      <4>7. ASSUME NEW k \in 1 .. Len(l) PROVE l[k] = r[k]
        <5>1. k \in 1 .. Len(Entries) \/ k = Len(Entries) + 1
          BY <4>3, <4>4
        <5> QED BY <4>2, <4>3, <4>6, <5>1
      <4>8. OfLeader(l)
        BY <4>1, <4>5, <4>7, OfLeaderPrefix
      <4> QED BY <4>8 DEF l
    <3>10. OfLeader(Entries') /\ Known(Entries', clusterChange'.index)
      BY <1>1, <1>2, <3>2, <3>8, <3>9
    <3> QED BY <3>6, <3>10 DEF ListInv
  <2>5. Head(todo).do \in {"append", "remove", "adminRemove"}
    BY CommitEntries
  <2> QED BY <2>2, <2>3, <2>4, <2>5
<1> QED BY <1>3, <1>4 DEF ListInv, Following

-----------------------------------------------------------------------------
(* The process ends, or an administrator interferes. *)

\* Cut short between two actions, or in the middle of one, a list leaves log
\* and configuration together unless it had begun and had more to configure.
LEMMA CutShort ==
  ASSUME LogInv, StatusInv, ListInv, ~(Begun /\ Unconfigured)
  PROVE  Agree(Entries, Now, ~torn, Clean)
<1>1. Entries \in Seq(LogEntry) /\ Now.index \in Int
  BY EntriesOfDisk DEF LogInv, ListInv, Known, Now
<1>2. CASE Administered
  BY <1>2 DEF Administered
<1>3. CASE todo = << >>
  BY <1>3, AtRestFacts
<1>4. ASSUME todo # << >>, NEW p, NEW n, NEW c, NEW es, NEW d, Remains(p, n, c, es, d),
             todo = ListOf(p, n, c, es, d),
             Fits(p, n, c, es, d, Entries, Now, ~torn, Clean, acked)
      PROVE  Agree(Entries, Now, ~torn, Clean)
  <2>1. CASE p # << >>
    BY <1>4, <2>1 DEF Fits
  <2>2. CASE p = << >>
    <3>1. IsReconfiguration(c) /\ IsReconfiguration(d) /\ n \in Nat /\ es \in Seq(LogEntry)
      BY <1>4 DEF Remains
    <3>2. /\ c # << >> => Head(c).do \in {"setClusterChange", "setPeers"}
          /\ d # << >> => Head(d).do \in {"setClusterChange", "setPeers"}
      BY <3>1, ReconfigurationTail
    <3>3. \/ Head(todo).do = "remove"
          \/ Head(todo) = Head(c) /\ c # << >>
          \/ Head(todo) = [do |-> "append", entry |-> Head(es)]
          \/ Head(todo) = Head(d) /\ d # << >>
      BY <1>4, <2>2, NextOfList
    <3>4. Head(todo).do \notin {"setCurrentTerm", "reply"}
      BY <3>2, <3>3
    <3>5. ~Unconfigured
      BY <1>4, <3>4 DEF Begun
    <3>6. ~Configuring(ListOf(p, n, c, es, d))
      BY <1>4, <3>5 DEF Unconfigured, Configuring
    <3>7. c = << >> /\ d = << >>
      BY <1>4, <3>6, Unchanging
    <3>8. Fits(p, n, << >>, es, << >>, Entries, Now, ~torn, Clean, acked)
      BY <1>4, <3>7
    <3> QED BY <1>1, <3>1, <3>8, FitsCutShort
  <2> QED BY <2>1, <2>2
<1> QED BY <1>2, <1>3, <1>4 DEF ListInv, Following

LEMMA EndStep ==
  ASSUME LogInv, StatusInv, ListInv, EndProcess
  PROVE  ListInv'
<1>1. /\ disk' = disk /\ todo' = << >> /\ peers' = savedPeers
      /\ torn' = (torn \/ (Begun /\ Unconfigured) \/ peers # savedPeers)
      /\ acked' = (IF AtRest THEN acked ELSE NoRequest)
      /\ clusterChange' = clusterChange /\ misled' = misled
  BY DEF EndProcess, End
<1>2. Entries' = Entries /\ NoRequest' = NoRequest
  BY <1>1 DEF Entries, NoRequest
<1>3. Agree(Entries', Now', ~torn', Clean')
  <2> SUFFICES ASSUME ~torn' PROVE Agree(Entries', Now', ~torn', Clean')
    BY DEF Agree, Clean
  <2>1. ~torn /\ ~(Begun /\ Unconfigured) /\ peers = savedPeers
    BY <1>1
  <2>2. Now' = Now /\ (Clean' => Clean)
    BY <1>1, <2>1 DEF Now, Clean
  <2>3. Agree(Entries, Now, ~torn, Clean)
    BY <2>1, CutShort
  <2> QED BY <1>2, <2>1, <2>2, <2>3 DEF Agree
<1>4. ASSUME acked' # NoRequest PROVE Holds(Entries', acked')
  <2>1. AtRest /\ acked' = acked
    BY <1>1, <1>4
  <2>2. Holds(Entries, acked)
    BY <1>4, <2>1, AtRestFacts DEF AtRest
  <2> QED BY <1>2, <2>1, <2>2
<1>5. \A k \in DOMAIN todo' : todo'[k].do = "adminRemove"
  BY <1>1
<1>6. Administered'
  BY <1>1, <1>2, <1>3, <1>4, <1>5 DEF Administered
<1>7. OfLeader(Entries') /\ Known(Entries', clusterChange'.index)
  BY <1>1, <1>2 DEF ListInv
<1> QED BY <1>6, <1>7 DEF ListInv

\* A failed removal of the administrator's is passed over.
LEMMA PassOverStep ==
  ASSUME StatusInv, ListInv, RemoveGoesOn
  PROVE  ListInv'
<1>1. /\ todo # << >> /\ todo' = Tail(todo) /\ Head(todo).do = "adminRemove"
      /\ Entries' = Entries /\ Now' = Now /\ acked' = acked /\ torn' = torn
      /\ clusterChange' = clusterChange /\ Clean' = Clean
  BY DEF RemoveGoesOn, IgnoreError, Done, StatusInv, statusVars, Entries, Now,
         Clean
<1>2. Administered
  <2> SUFFICES ASSUME NEW p, NEW n, NEW c, NEW es, NEW d, Remains(p, n, c, es, d),
                      todo = ListOf(p, n, c, es, d)
               PROVE  FALSE
    BY DEF ListInv, Following
  <2>1. IsReconfiguration(c) /\ IsReconfiguration(d)
    BY DEF Remains
  <2>2. /\ c # << >> => Head(c).do \in {"setClusterChange", "setPeers"}
        /\ d # << >> => Head(d).do \in {"setClusterChange", "setPeers"}
    BY <2>1, ReconfigurationTail
  <2> QED BY <1>1, <2>2, NextOfList
<1>3. \A k \in DOMAIN Tail(todo) : Tail(todo)[k].do = "adminRemove"
  <2>1. /\ DOMAIN todo = 1 .. Len(todo) /\ DOMAIN Tail(todo) = 1 .. Len(Tail(todo))
        /\ Len(Tail(todo)) = Len(todo) - 1 /\ Len(todo) \in Nat \ {0}
        /\ \A k \in 1 .. Len(Tail(todo)) : Tail(todo)[k] = todo[k + 1]
    BY <1>1, HeadTailProperties, LenProperties, EmptySeq DEF StatusInv
  <2> SUFFICES ASSUME NEW k \in DOMAIN Tail(todo) PROVE Tail(todo)[k].do = "adminRemove"
    OBVIOUS
  <2>2. k + 1 \in DOMAIN todo /\ Tail(todo)[k] = todo[k + 1]
    BY <2>1
  <2> QED BY <1>2, <2>2 DEF Administered
<1>4. /\ acked = NoRequest /\ NoRequest' = NoRequest
      /\ Agree(Entries, Now, ~torn, Clean)
  BY <1>1, <1>2 DEF Administered, NoRequest
<1>5. \A k \in DOMAIN todo' : todo'[k].do = "adminRemove"
  BY <1>1, <1>3
<1>6. acked' = NoRequest' /\ Agree(Entries', Now', ~torn', Clean')
  BY <1>1, <1>4
<1>7. Administered'
  BY <1>5, <1>6 DEF Administered
<1>8. OfLeader(Entries') /\ Known(Entries', clusterChange'.index)
  BY <1>1 DEF ListInv
<1> QED BY <1>7, <1>8 DEF ListInv

LEMMA AdministratorStep ==
  ASSUME LogInv, ListInv, NEW count \in 1 .. lastIndex + 1, RemoveLogs(count)
  PROVE  ListInv'
<1>1. /\ AtRest /\ todo' = [k \in 1 .. count |-> [do |-> "adminRemove"]]
      /\ acked' = NoRequest /\ NoRequest' = NoRequest
      /\ Entries' = Entries /\ Now' = Now /\ torn' = torn /\ clusterChange' = clusterChange
      /\ Clean' = Clean
  BY DEF RemoveLogs, logVars, statusVars, Entries, Now, NoRequest, Clean
<1>2. Agree(Entries, Now, ~torn, Clean)
  BY <1>1, AtRestFacts DEF AtRest
<1>3. \A k \in DOMAIN todo' : todo'[k].do = "adminRemove"
  BY <1>1
<1>4. acked' = NoRequest' /\ Agree(Entries', Now', ~torn', Clean')
  BY <1>1, <1>2
<1>5. Administered'
  BY <1>3, <1>4 DEF Administered
<1>6. OfLeader(Entries') /\ Known(Entries', clusterChange'.index)
  BY <1>1 DEF ListInv
<1> QED BY <1>5, <1>6 DEF ListInv

\* Everything else leaves the list, the disk and the configuration alone.
LEMMA IdleStep ==
  ASSUME ListInv, UNCHANGED <<disk, todo, clusterChange, peers, acked, torn, misled>>
  PROVE  ListInv'
<1>1. Entries' = Entries /\ Now' = Now /\ NoRequest' = NoRequest
  BY DEF Entries, Now, NoRequest
<1>2. /\ todo' = todo /\ acked' = acked /\ torn' = torn /\ clusterChange' = clusterChange
      /\ Clean' = Clean
  BY DEF Clean
<1>3. OfLeader(Entries') /\ Known(Entries', clusterChange'.index)
  BY <1>1, <1>2 DEF ListInv
<1>4. CASE Administered
  BY <1>1, <1>2, <1>4, <1>3 DEF Administered, ListInv
<1>5. ASSUME NEW p, NEW n, NEW c, NEW es, NEW d, Remains(p, n, c, es, d),
             todo = ListOf(p, n, c, es, d),
             Fits(p, n, c, es, d, Entries, Now, ~torn, Clean, acked)
      PROVE  ListInv'
  <2>1. /\ todo' = ListOf(p, n, c, es, d)
        /\ Fits(p, n, c, es, d, Entries', Now', ~torn', Clean', acked')
    BY <1>1, <1>2, <1>5
  <2>2. Following'
    BY <1>5, <2>1 DEF Following
  <2> QED BY <1>3, <2>2 DEF ListInv
<1> QED BY <1>4, <1>5 DEF ListInv, Following

LEMMA HeadInProgressNext ==
  ASSUME LogInv, StatusInv, HeadInProgress, [ListNext]_listAndLogVars
  PROVE  HeadInProgress'
<1>1. CASE pc' \in {"idle", "down"}
  BY <1>1 DEF HeadInProgress
<1>2. CASE AppendEntry
  BY <1>2 DEF AppendEntry, Perform, BeginAppend, listVars, HeadInProgress
<1>3. CASE RemoveEntry
  BY <1>3 DEF RemoveEntry, Perform, BeginRemove, listVars, HeadInProgress
<1>4. CASE WriteKey
  <2>1. todo' = todo /\ disk' = disk /\ entry' = entry
    BY <1>4 DEF WriteKey, Proceed, SetEntry, SetLastIndex, DeleteEntry, LowerLastIndex, Commit,
                listVars
  <2>2. CASE SetEntry
    BY <2>1, <2>2 DEF SetEntry, HeadInProgress
  <2>3. CASE SetLastIndex
    <3>1. view = WithEntry /\ lastIndex = disk.last + 1 /\ pc = "setLastIndex"
      BY <2>3 DEF SetLastIndex, LogInv
    <3>2. view' = Appended'
      BY <2>1, <2>3, <3>1 DEF SetLastIndex, WithEntry, Appended
    <3> QED BY <2>1, <2>3, <3>1, <3>2 DEF SetLastIndex, HeadInProgress
  <2>4. CASE DeleteEntry
    BY <2>1, <2>4 DEF DeleteEntry, HeadInProgress
  <2>5. CASE LowerLastIndex
    <3>1. /\ view = WithoutEntry /\ lastIndex = disk.last /\ disk.last # -1
          /\ pc = "lowerLastIndex"
      BY <2>5 DEF LowerLastIndex, LogInv
    <3>2. view' = Removed'
      BY <2>1, <2>5, <3>1 DEF LowerLastIndex, WithoutEntry, Removed
    <3> QED BY <2>1, <2>5, <3>1, <3>2 DEF LowerLastIndex, HeadInProgress
  <2> QED BY <1>4, <2>2, <2>3, <2>4, <2>5 DEF WriteKey, Proceed, Commit
<1>5. CASE WriteFails
  BY <1>5 DEF WriteFails, AppendFails, RemoveFails, HeadInProgress
<1>6. CASE UNCHANGED listAndLogVars
  BY <1>6 DEF listAndLogVars, listVars, logVars, HeadInProgress, Appended, Removed
<1>7. ASSUME NEW m \in Requests,
             ForwardRefused(m) \/ FollowerOnAppendEntries(m) \/ ForwardPanics(m)
      PROVE  pc' \in {"idle", "down"}
  BY <1>7 DEF ForwardRefused, FollowerOnAppendEntries, ForwardPanics, Receive, AtRest, logVars,
              EndProcess, End
<1>8. CASE ReplyAppendEntries \/ SetCurrentTerm \/ SetClusterChange
           \/ SetPeerAddresses \/ SetPeerAddressesUnsaved
  BY <1>1, <1>8 DEF ReplyAppendEntries, SetCurrentTerm, SetClusterChange, SetPeerAddresses,
                    SetPeerAddressesUnsaved, PeersTaken, Perform, logVars
<1>9. CASE CommitEntry \/ RemoveGoesOn \/ Restart
  BY <1>1, <1>9 DEF CommitEntry, Commit, RemoveGoesOn, IgnoreError, Restart, Recover
<1>10. CASE Panic \/ Crash
  BY <1>1, <1>10 DEF Panic, Crash, EndProcess, End
<1>11. ASSUME NEW count, RemoveLogs(count) PROVE pc' \in {"idle", "down"}
  BY <1>11 DEF RemoveLogs, AtRest, logVars
<1> QED
  BY <1>1, <1>2, <1>3, <1>4, <1>5, <1>6, <1>7, <1>8, <1>9, <1>10, <1>11 DEF ListNext

LEMMA ListInvNext ==
  ASSUME LogInv, StatusInv, HeadInProgress, ListInv, [ListNext]_listAndLogVars
  PROVE  ListInv'
<1>1. ASSUME NEW m \in Requests, ForwardRefused(m) PROVE ListInv'
  BY <1>1, AnswerStep DEF ForwardRefused, Receive, statusVars
<1>2. ASSUME NEW m \in Requests, FollowerOnAppendEntries(m) PROVE ListInv'
  BY <1>2, AcceptedStep
<1>3. ASSUME NEW m \in Requests, ForwardPanics(m) PROVE ListInv'
  BY <1>3, EndStep DEF ForwardPanics
<1>4. CASE ReplyAppendEntries \/ SetCurrentTerm \/ SetClusterChange
           \/ SetPeerAddresses \/ SetPeerAddressesUnsaved
  BY <1>4, StatusStep
<1>5. CASE AppendEntry \/ RemoveEntry \/ WriteKey \/ WriteFails \/ Restart
  BY <1>5, IdleStep
     DEF AppendEntry, BeginAppend, RemoveEntry, BeginRemove, WriteKey, Proceed, SetEntry,
         SetLastIndex, DeleteEntry, LowerLastIndex, Commit, WriteFails, AppendFails, RemoveFails,
         Restart, Recover, listVars, statusVars
<1>6. CASE CommitEntry
  BY <1>6, CommitStep
<1>7. CASE Panic \/ Crash
  BY <1>7, EndStep DEF Panic, Crash
<1>8. CASE RemoveGoesOn
  BY <1>8, PassOverStep
<1>9. ASSUME NEW count \in 1 .. lastIndex + 1, RemoveLogs(count) PROVE ListInv'
  BY <1>9, AdministratorStep
<1>10. CASE UNCHANGED listAndLogVars
  BY <1>10, IdleStep DEF listAndLogVars, listVars, logVars, statusVars
<1> QED BY <1>1, <1>2, <1>3, <1>4, <1>5, <1>6, <1>7, <1>8, <1>9, <1>10 DEF ListNext

LEMMA ListInvAlways == ListSpec => [](LogInv /\ StatusInv /\ HeadInProgress /\ ListInv)
<1>1. ListInit => LogInv /\ StatusInv /\ HeadInProgress /\ ListInv
  BY LogInvInit, StatusInvInit, ListInvInit DEF ListInit
<1>2. LogInv /\ StatusInv /\ HeadInProgress /\ ListInv /\ [ListNext]_listAndLogVars
        => (LogInv /\ StatusInv /\ HeadInProgress /\ ListInv)'
  BY LogInvNext, ListStepIsLogStep, StatusInvNext, HeadInProgressNext, ListInvNext
<1> QED BY <1>1, <1>2, PTL DEF ListSpec

-----------------------------------------------------------------------------
(* What follows from it. *)

\* Whatever list is cut short, by whatever crash or failed write, the entries
\* on the disk are the first ones of one leader's log (follower.go:90-138).
THEOREM DiskIsOfALeader == ListSpec => []PrefixOfALeader
<1>1. LogInv /\ ListInv => PrefixOfALeader
  <2> SUFFICES ASSUME LogInv, ListInv PROVE PrefixOfALeader
    OBVIOUS
  <2>1. Entries \in Seq(LogEntry) /\ Len(Entries) = disk.last + 1 /\ disk.last \in Nat \union {-1}
    BY EntriesOfDisk DEF LogInv, Gapless
  <2>2. PICK t \in DOMAIN LeaderLogs :
          /\ Len(Entries) <= Len(LeaderLogs[t])
          /\ \A k \in 1 .. Len(Entries) : Entries[k] = LeaderLogs[t][k]
    BY DEF ListInv, OfLeader
  <2> DEFINE l == LeaderLogs[t]
             first == EntriesFrom(l, 0, disk.last)
  <2>3. l \in Seq(LogEntry)
    BY LeaderLogsAssumption
  <2>4. Len(l) \in Nat /\ disk.last <= LastIndex(l) /\ disk.last \in Int /\ 0 \in Nat
    BY <2>1, <2>2, <2>3, LenProperties DEF LastIndex
  <2>5. /\ first \in Seq(LogEntry)
        /\ Len(first) = IF 0 <= disk.last THEN disk.last - 0 + 1 ELSE 0
        /\ \A k \in 1 .. Len(first) : first[k] = l[0 + k]
    BY <2>3, <2>4, EntriesFromType, Zenon
  <2>6. \A k \in 1 .. Len(Entries) : Entries[k] = l[k]
    BY <2>2
  <2> HIDE DEF first, l
  <2>7. Len(first) = Len(Entries)
    BY <2>1, <2>5
  <2>8. ASSUME NEW k \in 1 .. Len(Entries) PROVE Entries[k] = first[k]
    BY <2>5, <2>6, <2>7
  <2>9. Entries = first
    BY <2>1, <2>5, <2>7, <2>8, SeqEqual
  <2> QED BY <2>4, <2>9 DEF PrefixOfALeader, l, first
<1> QED BY <1>1, ListInvAlways, PTL

\* What a follower answered "success" to is on its disk once the list is done,
\* although the answer goes out first (follower.go:83-87).
THEOREM AcceptedStays == ListSpec => []AcceptedIsStored
<1>1. LogInv /\ ListInv => AcceptedIsStored
  BY AtRestFacts, LogOfEntries DEF AcceptedIsStored, AtRest, Holds
<1> QED BY <1>1, ListInvAlways, PTL

\* Between two lists the configuration is the one of the newest change of the log,
\* unless since the last change that was taken over a crash, a failed write or the
\* administrator parted the two, or a change was removed that its leader recorded
\* wrongly, as it does the second of two in a row (leader.go:131-147): however often
\* that happens, the next change ends it (follower.go:119-134 and 141-166).
THEOREM StatusFollows == ListSpec => []StatusFollowsLog
<1>1. LogInv /\ ListInv => StatusFollowsLog
  BY AtRestFacts, LogOfEntries DEF StatusFollowsLog, AtRest, Agree, Clean, Leads, Now
<1> QED BY <1>1, ListInvAlways, PTL

\* The search for the configuration before the deleted entries ends for every
\* request, whatever configurations the changes record; only after a crash, a failed
\* write or an administrator's removal may it end where there is no entry
\* (follower.go:105-117).
THEOREM RewindIsFound == ListSpec => []RewindFindsEnd
<1>1. LogInv /\ ListInv => RewindFindsEnd
  <2> SUFFICES ASSUME LogInv, ListInv, AtRest, NEW m \in Requests, Accepts(m), RewindFails(m)
               PROVE  torn /\ ~HasEntry(Log, Rewound(m).index)
    BY DEF RewindFindsEnd
  <2> DEFINE l == Entries
             prev == m.prevLogIndex
             r == Rewind(l, prev, CurrentConfiguration)
  <2>1. /\ l \in Seq(LogEntry) /\ OfLeader(l) /\ Log = l
        /\ CurrentConfiguration.index = clusterChange.index
        /\ Known(l, CurrentConfiguration.index)
        /\ todo = << >> /\ pc = "idle"
    BY LogOfEntries DEF ListInv, AtRest, CurrentConfiguration
  <2>2. Matching(l, m) /\ prev \in Nat \union {-1} /\ r.index > prev /\ r = Rewound(m)
    BY <2>1, RequestFields DEF Accepts, Matches, Matching, RewindFails, Rewound
  <2>3. Len(l) \in Nat
    BY <2>1, LenProperties
  <2>4. prev < Len(l)
    <3> DEFINE n == Len(l) - 1 - prev
    <3>1. n \in 0 .. Len(l)
      BY <2>1, <2>2, TakesOver
    <3> HIDE DEF l, prev
    <3>2. ASSUME NEW len \in Nat, len - 1 - prev \in 0 .. len PROVE prev < len
      BY <2>2, <3>2
    <3> QED BY <2>3, <3>1, <3>2
  <2> HIDE DEF l, prev
  <2>5. /\ Known(l, r.index)
        /\ \/ r.index <= prev
           \/ CurrentConfiguration.index >= Len(l) /\ ~HasEntry(l, r.index)
    <3>1. FALSE => LeadsAt(l, Len(l), CurrentConfiguration) /\ Truthful(l, Len(l) - 1 - prev)
      OBVIOUS
    <3> QED BY <2>1, <2>2, <2>4, <3>1, RewindFinds
  <2>6. CurrentConfiguration.index >= Len(l) /\ ~HasEntry(l, r.index)
    <3>1. r.index \in Int /\ prev \in Int
      BY <2>2, <2>5 DEF Known
    <3> QED BY <2>2, <2>5, <3>1
  <2>7. torn
    <3> SUFFICES ASSUME ~torn PROVE FALSE
      OBVIOUS
    <3>1. Now.index < Len(l)
      BY <2>1, AtRestFacts DEF l, Agree
    <3>2. Now.index \in Int /\ Now.index = CurrentConfiguration.index
      BY <2>1 DEF Now, CurrentConfiguration, Known
    <3> QED BY <2>3, <2>6, <3>1, <3>2
  <2> QED BY <2>1, <2>2, <2>6, <2>7
<1> QED BY <1>1, ListInvAlways, PTL
=============================================================================
