------------------------------- MODULE ActionList -------------------------------
(***************************************************************************)
(* One follower as its disk sees it.  The handler answers an AppendEntries *)
(* with a list of actions; the executor carries them out one at a time,    *)
(* each entry removed or appended in an operation of RaftLog of its own.   *)
(* The process may end between any two writes, and an administrator may    *)
(* remove entries by way of the webapp.                                    *)
(*                                                                         *)
(* SimpleRaft takes the same list in one step and never loses a part of    *)
(* it.  Left out here is what no key on the disk records: role, timers,    *)
(* indices of progress and of commitment.                                  *)
(***************************************************************************)
EXTENDS RaftLog

CONSTANTS
  Self,          \* the follower
  LeaderLogs,    \* term -> the log its leader had in the end
  InitialPeers,  \* the peers it is started with for the first time
  MaxRequests, MaxCrashes, MaxFailures, MaxRemovals  \* bounds

ASSUME LeaderLogsAssumption ==
  DOMAIN LeaderLogs \subseteq Nat /\ LeaderLogs \in [DOMAIN LeaderLogs -> Seq(LogEntry)]

ASSUME InitialPeersAssumption == Self \in Server /\ InitialPeers \in Cluster

\* Is this the configuration of the newest change in the log, or the first one
\* if there is none ?
Configured(l, index, term, members) ==
  LET changes == {k \in DOMAIN l : IsClusterChange(l[k])}
  IN /\ changes = {} => index = -1 /\ term = -1 /\ members = InitialPeers
     /\ \A k \in changes :
          (\A j \in changes : j <= k) =>
             /\ index = k - 1 /\ term = l[k].term
             /\ members = WithoutAddress(RecordOf(l[k]).newCluster, Self)

\* What leaders leave behind: logs that match (LogMatching of SimpleRaft) ...
ASSUME LeadersMatch ==
  /\ DOMAIN LeaderLogs # {}
  /\ \A t, u \in DOMAIN LeaderLogs, i \in UNION {DOMAIN LeaderLogs[v] : v \in DOMAIN LeaderLogs} :
       /\ i \in DOMAIN LeaderLogs[t] /\ i \in DOMAIN LeaderLogs[u]
       /\ LeaderLogs[t][i].term = LeaderLogs[u][i].term
       => \A k \in 1 .. i : LeaderLogs[t][k] = LeaderLogs[u][k]

\* ... and whose changes name no earlier change, or one of the entries before
\* them.  A leader writes the index in its status (leader.go:131-147), which
\* names a change of its log or -1: RewindsEnd of SimpleRaft.  It need not be the
\* newest change, and the peers recorded with it need not be those of that index:
\* a leader never remembers its own change, so the second of two in a row is
\* recorded as if there were none before it (ConfigFollowsLog).  Left out are
\* leaders with a status that a crash or an administrator had torn before.
ASSUME LeadersPoint ==
  \A t \in DOMAIN LeaderLogs : \A k \in DOMAIN LeaderLogs[t] :
    IsClusterChange(LeaderLogs[t][k]) =>
      LET old == RecordOf(LeaderLogs[t][k]).oldIndex
      IN old = -1 \/ (old \in 0 .. k - 2 /\ IsClusterChange(LeaderLogs[t][old + 1]))

\* Does the record of the change at k hold the configuration that the log has
\* before it ?
Described(l, k) ==
  LET record == RecordOf(l[k])
  IN Configured(SubSeq(l, 1, k - 1), record.oldIndex, record.oldTerm,
                WithoutAddress(record.oldCluster, Self))

VARIABLES
  currentTerm, clusterChange,  \* of status; memory and disk agree between two actions
  peers, savedPeers,           \* PeerAddresses() in memory and on disk
  todo,                        \* the actions that remain of the list
  requests, crashes, failures, removals,  \* how many there were
  acked,                       \* history: the last request accepted, until something interferes
  torn,                        \* history: log and configuration were parted by a crash,
                               \* a failed write or the administrator
  misled                       \* history: a change was removed whose record does not hold
                               \* the configuration before it; both last until the next change

statusVars == <<currentTerm, clusterChange, peers, savedPeers>>
boundVars == <<requests, crashes, failures, removals>>
listVars == <<statusVars, todo, boundVars, acked, torn, misled>>

NoChange == [index |-> -1, term |-> -1]
NoRequest == [term |-> 0, prevLogIndex |-> -1, prevLogTerm |-> -1, entries |-> << >>]

\* The leader of the term sends what follows prev, up to the end of its log,
\* which is an entry of its own term.
AppendEntriesOf(term, prev, last) ==
  LET l == LeaderLogs[term]
  IN [term |-> term, prevLogIndex |-> prev, prevLogTerm |-> TermAt(l, prev),
      entries |-> EntriesFrom(l, prev + 1, last)]

Requests ==
  UNION {
    {AppendEntriesOf(term, ends[1], ends[2]) : ends \in
      {e \in (-1 .. LastIndex(LeaderLogs[term])) \X (0 .. LastIndex(LeaderLogs[term])) :
         e[1] <= e[2] /\ TermAt(LeaderLogs[term], e[2]) = term}} :
    term \in DOMAIN LeaderLogs}

ListInit ==
  /\ LogInit
  /\ currentTerm = 0 /\ clusterChange = NoChange
  /\ peers = InitialPeers /\ savedPeers = InitialPeers
  /\ todo = << >>
  /\ requests = 0 /\ crashes = 0 /\ failures = 0 /\ removals = 0
  /\ acked = NoRequest /\ torn = FALSE /\ misled = FALSE

\* the log as Get and LastIndex() give it
Log == [k \in 1 .. lastIndex + 1 |-> view.at[k - 1]]

AtRest == pc = "idle" /\ todo = << >>

-----------------------------------------------------------------------------
(* The handler: FollowerOnAppendEntries, as far as its actions are written   *)
(* to the disk.  The loops of ActionDeleteLog and of ActionAppendLog are    *)
(* unrolled into one removal, or one entry, each.                           *)

Step ==
       [do : {"reply", "remove", "adminRemove"}]
  \cup [do : {"setCurrentTerm"}, term : Nat]
  \cup [do : {"append"}, entry : LogEntry]
  \cup [do : {"setClusterChange"}, index : Int, term : Int]
  \cup [do : {"setPeers"}, peers : Cluster]

\* Mutant of DeleteLog: one entry is left.
DeleteLog_OneLess(count) == [k \in 1 .. count - 1 |-> [do |-> "remove"]]

DeleteLog(count) == [k \in 1 .. count |-> [do |-> "remove"]]

AppendLog(entries) == [k \in DOMAIN entries |-> [do |-> "append", entry |-> entries[k]]]

\* Mutant of Configure: the new peers are not set.
Configure_NoPeers(index, term, cluster) ==
  << [do |-> "setClusterChange", index |-> index, term |-> term] >>

Configure(index, term, cluster) ==
  << [do |-> "setClusterChange", index |-> index, term |-> term],
     [do |-> "setPeers", peers |-> WithoutAddress(cluster, Self)] >>

CurrentConfiguration ==
  [index |-> clusterChange.index, term |-> clusterChange.term,
   cluster |-> PlusAddress(peers, Self)]

Rewound(m) == Rewind(Log, m.prevLogIndex, CurrentConfiguration)

\* where a rewind can end: where it begins, or before an entry of the log
Configurations ==
  {CurrentConfiguration} \cup
  {LET record == RecordOf(Log[k])
   IN [index |-> record.oldIndex, term |-> record.oldTerm, cluster |-> record.oldCluster] :
     k \in DOMAIN Log}

RewindFails(m) == m.entries # << >> /\ Rewound(m).index > m.prevLogIndex

\* Mutant of RewindIfDeleted: the configuration is left alone.
RewindIfDeleted_Never(m, rewound) == << >>

\* back to the configuration before the deleted entries
RewindIfDeleted(m, rewound) ==
  IF clusterChange.index > m.prevLogIndex
  THEN Configure(rewound.index, rewound.term, rewound.cluster)
  ELSE << >>

\* the positions of the newest change among the new entries: one, or 0 for none
NewestChange(m) ==
  LET changes == {k \in DOMAIN m.entries : IsClusterChange(m.entries[k])}
  IN {k \in changes \union {0} : \A j \in changes : j <= k}

\* on to the configuration of that change
ConfigureNewest(m, k) ==
  IF k = 0 THEN << >>
  ELSE Configure(m.prevLogIndex + k, m.entries[k].term, RecordOf(m.entries[k]).newCluster)

TermStep(m) ==
  IF m.term > currentTerm THEN << [do |-> "setCurrentTerm", term |-> m.term] >> ELSE << >>

Matches(m) ==
  \/ m.prevLogIndex = -1
  \/ HasEntry(Log, m.prevLogIndex) /\ TermAt(Log, m.prevLogIndex) = m.prevLogTerm

Accepts(m) == m.term >= currentTerm /\ Matches(m)

AcceptedList(m, rewound, newest) ==
  TermStep(m) \o << [do |-> "reply"] >> \o
  (IF m.entries = << >> THEN << >>
   ELSE DeleteLog(lastIndex - m.prevLogIndex) \o RewindIfDeleted(m, rewound)
        \o AppendLog(m.entries) \o ConfigureNewest(m, newest))

-----------------------------------------------------------------------------
(* The process may end anywhere; the next one reads its status from the disk. *)

\* Is a part of the list left that keeps the configuration in step with the
\* log, and are entries being written or deleted already ?
Unconfigured == \E k \in DOMAIN todo : todo[k].do \in {"setClusterChange", "setPeers"}
Begun == todo # << >> /\ Head(todo).do \notin {"setCurrentTerm", "reply"}

EndProcess ==
  /\ End
  /\ todo' = << >>
  /\ peers' = savedPeers
  /\ torn' = (torn \/ (Begun /\ Unconfigured) \/ peers # savedPeers)
  /\ acked' = IF AtRest THEN acked ELSE NoRequest
  /\ UNCHANGED <<currentTerm, clusterChange, savedPeers, misled>>

-----------------------------------------------------------------------------
(* The executor takes a request ... *)

Receive(m) ==
  /\ AtRest
  /\ requests < MaxRequests /\ requests' = requests + 1
  /\ UNCHANGED <<crashes, failures, removals>>

ForwardRefused(m) ==
  /\ Receive(m) /\ ~Accepts(m)
  /\ todo' = TermStep(m) \o << [do |-> "reply"] >>
  /\ UNCHANGED <<logVars, statusVars, acked, torn, misled>>

FollowerOnAppendEntries(m) ==
  /\ Receive(m) /\ Accepts(m) /\ ~RewindFails(m)
  /\ \E rewound \in Configurations, newest \in NewestChange(m) :
       rewound = Rewound(m) /\ todo' = AcceptedList(m, rewound, newest)
  /\ acked' = IF m.entries = << >> THEN acked ELSE m
  /\ UNCHANGED <<logVars, statusVars, torn, misled>>

\* The search for the previous configuration meets an index without an entry
\* and dereferences nil.  (It would not end if the records led round a cycle:
\* RewindFindsEnd says that they never do.)
ForwardPanics(m) == Receive(m) /\ Accepts(m) /\ RewindFails(m) /\ EndProcess

-----------------------------------------------------------------------------
(* ... and carries out its list, one action after the other. *)

Perform(kind) == pc = "idle" /\ todo # << >> /\ Head(todo).do = kind

Done == todo' = Tail(todo) /\ UNCHANGED <<boundVars, acked, torn, misled>>

ReplyAppendEntries == Perform("reply") /\ Done /\ UNCHANGED <<logVars, statusVars>>

SetCurrentTerm ==
  /\ Perform("setCurrentTerm") /\ Done
  /\ currentTerm' = Head(todo).term
  /\ UNCHANGED <<logVars, clusterChange, peers, savedPeers>>

\* both keys in one transaction
SetClusterChange ==
  /\ Perform("setClusterChange") /\ Done
  /\ clusterChange' = [index |-> Head(todo).index, term |-> Head(todo).term]
  /\ UNCHANGED <<logVars, currentTerm, peers, savedPeers>>

\* If these peers are the last thing that a list does, then it brought a change,
\* and log and configuration are in step again, whatever came before.
PeersTaken ==
  /\ Perform("setPeers")
  /\ todo' = Tail(todo)
  /\ peers' = Head(todo).peers
  /\ torn' = (torn /\ todo' # << >>) /\ misled' = (misled /\ todo' # << >>)
  /\ UNCHANGED <<logVars, currentTerm, clusterChange, acked>>

SetPeerAddresses == PeersTaken /\ savedPeers' = peers' /\ UNCHANGED boundVars

\* The error of Set is not looked at: memory has the new peers, the disk the old.
SetPeerAddressesUnsaved ==
  /\ PeersTaken
  /\ failures < MaxFailures /\ failures' = failures + 1
  /\ UNCHANGED <<savedPeers, requests, crashes, removals>>

\* An entry's action stays at the head until its transaction has ended.
AppendEntry == Perform("append") /\ BeginAppend(Head(todo).entry) /\ UNCHANGED listVars

RemoveEntry ==
  /\ Perform("remove") \/ Perform("adminRemove")
  /\ BeginRemove
  /\ UNCHANGED listVars

WriteKey == pc # "commit" /\ Proceed /\ UNCHANGED listVars

\* the entry about to be removed is a change that a rewind had better not read
Misleads(k) == IsClusterChange(Entries[k]) /\ ~Described(Entries, k)

CommitEntry ==
  /\ Commit
  /\ todo' = Tail(todo)
  /\ torn' = (torn \/ (Head(todo).do = "adminRemove" /\ clusterChange.index > view.last))
  /\ misled' = (misled \/ (Head(todo).do = "remove" /\ Misleads(Len(Entries))))
  /\ UNCHANGED <<statusVars, boundVars, acked>>

WriteFails ==
  /\ failures < MaxFailures /\ failures' = failures + 1
  /\ AppendFails \/ RemoveFails
  /\ UNCHANGED <<statusVars, todo, requests, crashes, removals, acked, torn, misled>>

-----------------------------------------------------------------------------
(* Crash, restart, administrator. *)

\* The executor was told of the error ...
Panic ==
  /\ pc \in {"appendFailed", "removeFailed"} /\ Head(todo).do # "adminRemove"
  /\ EndProcess /\ UNCHANGED boundVars

\* ... the webapp does not look at it.
RemoveGoesOn ==
  /\ IgnoreError /\ Head(todo).do = "adminRemove"
  /\ Done /\ UNCHANGED statusVars

Crash ==
  /\ crashes < MaxCrashes /\ crashes' = crashes + 1
  /\ EndProcess /\ UNCHANGED <<requests, failures, removals>>

Restart == Recover /\ UNCHANGED listVars

\* The webapp's remove-logs, taken while the executor waits for an event: the
\* configuration is left alone.  A count beyond the log counts as all of it.
RemoveLogs(count) ==
  /\ AtRest
  /\ removals < MaxRemovals /\ removals' = removals + 1
  /\ todo' = [k \in 1 .. count |-> [do |-> "adminRemove"]]
  /\ acked' = NoRequest
  /\ UNCHANGED <<logVars, statusVars, requests, crashes, failures, torn, misled>>

ListNext ==
  \/ \E m \in Requests :
       ForwardRefused(m) \/ FollowerOnAppendEntries(m) \/ ForwardPanics(m)
  \/ ReplyAppendEntries \/ SetCurrentTerm \/ SetClusterChange
  \/ SetPeerAddresses \/ SetPeerAddressesUnsaved
  \/ AppendEntry \/ RemoveEntry \/ WriteKey \/ CommitEntry
  \/ WriteFails \/ Panic \/ RemoveGoesOn \/ Crash \/ Restart
  \/ \E count \in 1 .. lastIndex + 1 : RemoveLogs(count)

listAndLogVars == <<logVars, listVars>>

ListSpec == ListInit /\ [][ListNext]_listAndLogVars

-----------------------------------------------------------------------------
(* What holds of it. *)

\* The variables have the types of status and of the list (status.go:19-43).
ListTypeOK ==
  /\ LogTypeOK
  /\ currentTerm \in Nat
  /\ clusterChange \in [index : Int, term : Int]
  /\ peers \in Cluster /\ savedPeers \in Cluster
  /\ todo \in Seq(Step)
  /\ acked \in Requests \union {NoRequest}
  /\ torn \in BOOLEAN /\ misled \in BOOLEAN
  /\ {requests, crashes, failures, removals} \subseteq Nat

\* Whatever is cut short, what is on the disk are the first entries of some
\* leader's log, in the middle of a list too: no crash leaves entries of two
\* leaders that do not follow one another (follower.go:90-138).
PrefixOfALeader ==
  \E term \in DOMAIN LeaderLogs :
    /\ disk.last <= LastIndex(LeaderLogs[term])
    /\ Entries = EntriesFrom(LeaderLogs[term], 0, disk.last)

\* A follower that answered "success" and was left in peace since holds the
\* leader's entries up to the last one sent, and nothing after them; the answer
\* is sent before anything of that is done (follower.go:83-87).
AcceptedIsStored ==
  AtRest /\ acked # NoRequest =>
    /\ TermAt(Log, acked.prevLogIndex) = acked.prevLogTerm
    /\ EntriesFrom(Log, acked.prevLogIndex + 1, LastIndex(Log)) = acked.entries

\* Between two lists the configuration is the one of the newest change in the
\* log, or the first one, although change and peers are written apart from each
\* other and from the entries (follower.go:119-134 and 141-166).  Two things may
\* part them: a crash, a failed write or the administrator, and a removed change
\* that the leader recorded wrongly (leader.go:131-147); and the next change that
\* is taken over brings them together again.
StatusFollowsLog ==
  AtRest /\ ~torn /\ ~misled => Configured(Log, clusterChange.index, clusterChange.term, peers)

\* The search for the configuration before the deleted entries, which checks
\* neither that there is an entry nor that it is a change, finds one for every
\* request that may come next (follower.go:105-117), after a change recorded
\* wrongly too.  Only a torn configuration may lead it to a missing entry, and it
\* never runs for ever.
RewindFindsEnd ==
  AtRest => \A m \in Requests :
    Accepts(m) /\ RewindFails(m) => torn /\ ~HasEntry(Log, Rewound(m).index)
=============================================================================
