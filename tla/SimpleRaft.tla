------------------------------- MODULE SimpleRaft -------------------------------
(***************************************************************************)
(* The raft protocol as simpleraft runs it: the rule handlers of the three *)
(* roles, the executor that carries out the actions they return, and the   *)
(* status they read and write, on every node, over an HTTP network that    *)
(* delays, reorders and loses messages (a lost message is one that is      *)
(* never delivered) but delivers each at most once.                        *)
(*                                                                         *)
(* A node has one executor goroutine, so the handling of an event, with    *)
(* the state-changed sub-actions and the reprocessing it triggers, is one  *)
(* step.  The steps inside an action list and a crash between two of them  *)
(* are below this grain.                                                   *)
(***************************************************************************)
EXTENDS RaftData, Bags

CONSTANTS
  Members,       \* the nodes started with each other as peers; the other nodes
                 \* are started with -default-peers="" and wait to be added
  Faults,        \* which of the fault behaviours below may occur
  MaxElections,  \* bound: candidacies in the whole behaviour
  MaxTerm,       \* bound: no candidacy beyond this term
  MaxLogLen,     \* bound: a leader appends nothing to a log of this length
  MaxTicks,      \* bound: heartbeats in the whole behaviour
  MaxCrashes,    \* bound: process restarts of each node
  MaxChanges     \* bound: cluster-change entries in a leader's log

(***************************************************************************)
(*  lateReply  a reply may arrive after its receiver left the term in      *)
(*             which it asked (round trips longer than an election)        *)
(*  staleTick  a timer may fire once more after it was reset               *)
(*             (executor.timer.Reset does not drain the channel)           *)
(*  stopRun    an administrator may stop and run an executor again         *)
(*  carelessAdmin  an administrator may add a member of the cluster again, *)
(*             or remove an address that is no member                      *)
(***************************************************************************)
ASSUME MembersAssumption == Members \subseteq Server
ASSUME FaultsAssumption == Faults \subseteq {"lateReply", "staleTick", "stopRun", "carelessAdmin"}
ASSUME BoundsAssumption ==
  {MaxElections, MaxTerm, MaxLogLen, MaxTicks, MaxCrashes, MaxChanges} \subseteq Nat

VARIABLES
  \* status: persisted, except state and voteCount
  state, currentTerm, votedFor, voteCount, peers, clusterChange,
  \* status: not persisted
  commitIndex, lastApplied, nextIndex, matchIndex,
  heard,         \* leaderLastHeard is less than MinElectionTimeout ago
  \* the log, and the entries the state machine was taken through
  log, applied,
  \* the process: is it alive, and how often was it started anew
  up, crashes,
  \* requests and replies in flight: bags, one per RPC and direction
  aeRequests, rvRequests, aeReplies, rvReplies,
  elections,     \* candidacies so far (for MaxElections)
  ticks,         \* heartbeats so far (for MaxTicks)
  elected        \* history: which server became leader in which term

electionVars == <<state, votedFor, voteCount>>
clusterVars == <<peers, clusterChange>>
progressVars == <<nextIndex, matchIndex>>
commitVars == <<commitIndex, lastApplied, applied>>
processVars == <<up, crashes>>
historyVars == <<elections, ticks, elected>>
voteMsgs == <<rvRequests, rvReplies>>
appendMsgs == <<aeRequests, aeReplies>>
vars == <<electionVars, currentTerm, clusterVars, progressVars, commitVars, heard,
          log, processVars, voteMsgs, appendMsgs, historyVars>>

\* Mutant of Higher: the newer term is stored without a comparison.
Higher_Unchecked(a, b) == a

Higher(a, b) == IF a > b THEN a ELSE b
Lower(a, b) == IF a < b THEN a ELSE b

-----------------------------------------------------------------------------
(* The network: one more, or one fewer, of a message in flight. *)

BagAdd(bag, m) == bag (+) SetToBag({m})
BagRemove(bag, m) == bag (-) SetToBag({m})

\* the nodes in n's peer list; what is sent to "" reaches nobody
Recipients(n) == {a \in Server : peers[n][a] > 0}

\* One request, one for each recipient, goes out per entry of n's peer list.
\* (the executor's goroutine, and transport.Send, for each destination)
ToPeers(bag, n, requests) == bag (+) [r \in requests |-> peers[n][r.to]]

\* Without the fault "lateReply", a reply that finds its receiver in another
\* term than it asked in is lost.
OnTime(r) == "lateReply" \in Faults \/ r.asked = currentTerm[r.to]

\* Only the process that sent the request can receive the reply.
ReplyTo(request, bag, reply) ==
  IF request.inc = crashes[request.from] /\ OnTime(reply) THEN BagAdd(bag, reply) ELSE bag

ReplyAppendEntries(n, m, success, t) ==
  /\ aeRequests' = BagRemove(aeRequests, m)
  /\ aeReplies' = ReplyTo(m, aeReplies,
       [to |-> m.from, inc |-> m.inc, asked |-> m.term,
        address |-> n, success |-> success, term |-> t])

ReplyRequestVote(m, granted, t) ==
  /\ rvRequests' = BagRemove(rvRequests, m)
  /\ rvReplies' = ReplyTo(m, rvReplies,
       [from |-> m.to, to |-> m.from, inc |-> m.inc, asked |-> m.term,
        voteGranted |-> granted, term |-> t])

-----------------------------------------------------------------------------
(* Status and process. *)

\* SetPeerAddresses also rebuilds the two maps: an address keeps its values
\* if it was in the maps, and starts at 0 and -1 otherwise.
KeepNextIndex(next, cluster) == [a \in Address |-> IF cluster[a] > 0 THEN next[a] ELSE 0]
KeepMatchIndex(match, cluster) == [a \in Address |-> IF cluster[a] > 0 THEN match[a] ELSE -1]

SetPeers(n, cluster) ==
  /\ peers' = [peers EXCEPT ![n] = cluster]
  /\ nextIndex' = [nextIndex EXCEPT ![n] = KeepNextIndex(@, cluster)]
  /\ matchIndex' = [matchIndex EXCEPT ![n] = KeepMatchIndex(@, cluster)]

\* a panic of the executor's goroutine ends the process
Panic(n) == up' = [up EXCEPT ![n] = FALSE]

InitialPeers(n) == IF n \in Members THEN ClusterOf(Members \ {n}) ELSE ClusterOf({None})

\* Status, log and process of every node at the start; those of running are alive.
InitWith(running) ==
  /\ state = [n \in Server |-> "follower"]
  /\ currentTerm = [n \in Server |-> 0]
  /\ votedFor = [n \in Server |-> None]
  /\ voteCount = [n \in Server |-> 0]
  /\ peers = [n \in Server |-> InitialPeers(n)]
  /\ clusterChange = [n \in Server |-> [index |-> -1, term |-> -1]]
  /\ commitIndex = [n \in Server |-> -1]
  /\ lastApplied = [n \in Server |-> -1]
  /\ nextIndex = [n \in Server |-> [a \in Address |-> 0]]
  /\ matchIndex = [n \in Server |-> [a \in Address |-> -1]]
  /\ heard = [n \in Server |-> FALSE]
  /\ log = [n \in Server |-> << >>]
  /\ applied = [n \in Server |-> << >>]
  /\ up = [n \in Server |-> n \in running]
  /\ crashes = [n \in Server |-> 0]
  /\ aeRequests = EmptyBag /\ rvRequests = EmptyBag
  /\ aeReplies = EmptyBag /\ rvReplies = EmptyBag
  /\ elections = 0 /\ ticks = 0
  /\ elected = {}

Init == InitWith(Server)

-----------------------------------------------------------------------------
(* State changes: what entering a role does, run before anything else. *)

\* Mutant of EnterFollower: the role is not changed.
EnterFollower_KeepsRole(n) ==
  /\ UNCHANGED state
  /\ voteCount' = [voteCount EXCEPT ![n] = 0]

\* FollowerOnStateChanged, except for the vote
EnterFollower(n) ==
  /\ state' = [state EXCEPT ![n] = "follower"]
  /\ voteCount' = [voteCount EXCEPT ![n] = 0]

FollowerOnStateChanged(n) ==
  /\ EnterFollower(n)
  /\ votedFor' = [votedFor EXCEPT ![n] = None]

CandidateOnStateChanged(n) ==
  LET Request(a) == [from |-> n, to |-> a, inc |-> crashes[n], term |-> currentTerm[n] + 1,
                     lastLogIndex |-> LastIndex(log[n]),
                     lastLogTerm |-> TermAt(log[n], LastIndex(log[n]))]
  IN /\ elections < MaxElections /\ currentTerm[n] < MaxTerm
     /\ elections' = elections + 1
     /\ state' = [state EXCEPT ![n] = "candidate"]
     /\ currentTerm' = [currentTerm EXCEPT ![n] = @ + 1]
     /\ votedFor' = [votedFor EXCEPT ![n] = n]
     /\ voteCount' = [voteCount EXCEPT ![n] = 1]
     /\ rvRequests' = ToPeers(rvRequests, n, {Request(a) : a \in Recipients(n)})

\* An AppendEntries that carries the entries from `from' on.
AppendEntriesTo(n, a, from, prevTerm) ==
  [from |-> n, to |-> a, inc |-> crashes[n], term |-> currentTerm[n],
   prevLogIndex |-> from - 1, prevLogTerm |-> prevTerm,
   entries |-> EntriesFrom(log[n], from, LastIndex(log[n])),
   leaderCommitIndex |-> commitIndex[n]]

\* Mutant of Heartbeat: names the entry before the last one.
Heartbeat_Early(n, a) ==
  [AppendEntriesTo(n, a, LastIndex(log[n]) + 1, currentTerm[n]) EXCEPT !.prevLogIndex = @ - 1]

\* An empty one after the last entry, said to be of the leader's own term.
Heartbeat(n, a) == AppendEntriesTo(n, a, LastIndex(log[n]) + 1, currentTerm[n])

\* The entry appended here is in none of these heartbeats.
LeaderOnStateChanged(n) ==
  /\ Len(log[n]) < MaxLogLen
  /\ state' = [state EXCEPT ![n] = "leader"]
  /\ log' = [log EXCEPT ![n] = Append(@, NoOpEntry(currentTerm[n]))]
  /\ nextIndex' = [nextIndex EXCEPT ![n] =
       [a \in Address |-> IF peers[n][a] > 0 THEN LastIndex(log[n]) + 1 ELSE @[a]]]
  /\ matchIndex' = [matchIndex EXCEPT ![n] =
       [a \in Address |-> IF peers[n][a] > 0 THEN 0 ELSE @[a]]]
  /\ aeRequests' = ToPeers(aeRequests, n, {Heartbeat(n, a) : a \in Recipients(n)})
  /\ elected' = elected \union {<<currentTerm[n], n>>}

-----------------------------------------------------------------------------
(* Follower. *)

CurrentConfiguration(n) ==
  [index |-> clusterChange[n].index, term |-> clusterChange[n].term,
   cluster |-> PlusAddress(peers[n], n)]

Rewound(n, prev) == Rewind(log[n], prev, CurrentConfiguration(n))

\* where a rewind can end: where it begins, or before an entry of the log
Configurations(n) ==
  {CurrentConfiguration(n)} \cup
  {LET record == RecordOf(log[n][k])
   IN [index |-> record.oldIndex, term |-> record.oldTerm, cluster |-> record.oldCluster] :
     k \in DOMAIN log[n]}

\* No end to the records: the entry pointed at is missing (nil dereference)
\* or they lead round a cycle (the loop never ends).  Either way the executor
\* handles no further event.
RewindFails(n, m) ==
  m.entries # << >> /\ Rewound(n, m.prevLogIndex).index > m.prevLogIndex

\* The handler looks up entries to apply in the message, past its end.
ApplyFails(n, m) ==
  LET last == m.leaderCommitIndex - 1
  IN last > commitIndex[n] /\ last > m.prevLogIndex + Len(m.entries)

\* Mutant of AppendEntriesToLog: conflicting entries are not deleted.
AppendEntriesToLog_NoDelete(n, m) ==
  log' = IF m.entries = << >> THEN log ELSE [log EXCEPT ![n] = @ \o m.entries]

\* Take over the entries: everything after prev is deleted first.
AppendEntriesToLog(n, m) ==
  log' = IF m.entries = << >> THEN log
         ELSE [log EXCEPT ![n] = EntriesFrom(@, 0, m.prevLogIndex) \o m.entries]

\* Mutant of IndexOfEntry: counts from 1 twice.
IndexOfEntry_TooFar(m, k) == m.prevLogIndex + k + 1

\* the log index of the k-th entry of a message
IndexOfEntry(m, k) == m.prevLogIndex + k

\* The newest cluster change among the new entries takes effect at once;
\* without one, a configuration whose entry was deleted is rewound.
ConfigureFrom(n, m, rewound) ==
  LET changes == {k \in DOMAIN m.entries : IsClusterChange(m.entries[k])}
      deleted == m.entries # << >> /\ clusterChange[n].index > m.prevLogIndex
      older == WithoutAddress(rewound.cluster, n)
      next == IF deleted THEN KeepNextIndex(nextIndex[n], older) ELSE nextIndex[n]
      match == IF deleted THEN KeepMatchIndex(matchIndex[n], older) ELSE matchIndex[n]
  IN \/ /\ changes = {} /\ ~deleted
        /\ UNCHANGED <<clusterVars, progressVars>>
     \/ /\ changes = {} /\ deleted
        /\ clusterChange' = [clusterChange EXCEPT ![n] =
             [index |-> rewound.index, term |-> rewound.term]]
        /\ SetPeers(n, older)
     \/ \E k \in changes :
          LET newer == WithoutAddress(RecordOf(m.entries[k]).newCluster, n)
          IN /\ \A j \in changes : j <= k
             /\ clusterChange' = [clusterChange EXCEPT ![n] =
                  [index |-> IndexOfEntry(m, k), term |-> m.entries[k].term]]
             /\ peers' = [peers EXCEPT ![n] = newer]
             /\ nextIndex' = [nextIndex EXCEPT ![n] = KeepNextIndex(next, newer)]
             /\ matchIndex' = [matchIndex EXCEPT ![n] = KeepMatchIndex(match, newer)]

ConfigureFromEntries(n, m) ==
  \E rewound \in Configurations(n) :
    rewound = Rewound(n, m.prevLogIndex) /\ ConfigureFrom(n, m, rewound)

\* The follower applies up to, and without, the leader's commit index, and
\* leaves lastApplied alone.
CommitFromLeader(n, m) ==
  IF m.leaderCommitIndex > commitIndex[n]
  THEN /\ commitIndex' = [commitIndex EXCEPT ![n] =
            Lower(m.leaderCommitIndex, m.prevLogIndex + Len(m.entries))]
       /\ applied' = [applied EXCEPT ![n] =
            @ \o EntriesFrom(log'[n], commitIndex[n] + 1, m.leaderCommitIndex - 1)]
       /\ UNCHANGED lastApplied
  ELSE UNCHANGED commitVars

\* Mutant of Matches: any entry at PrevLogIndex will do.
Matches_AnyTerm(n, m) == m.prevLogIndex = -1 \/ HasEntry(log[n], m.prevLogIndex)

Matches(n, m) ==
  \/ m.prevLogIndex = -1
  \/ TermAt(log[n], m.prevLogIndex) = m.prevLogTerm /\ HasEntry(log[n], m.prevLogIndex)

\* cur is the term the handler reads: a candidate that steps down has set it
\* already, a leader has not.
FollowerOnAppendEntries(n, m, cur) ==
  /\ UNCHANGED <<up, crashes, voteMsgs, historyVars>>
  /\ heard' = [heard EXCEPT ![n] = TRUE]
  /\ currentTerm' = [currentTerm EXCEPT ![n] = Higher(m.term, cur)]
  /\ \/ /\ m.term < cur \/ ~Matches(n, m)
        /\ ReplyAppendEntries(n, m, FALSE, cur)
        /\ UNCHANGED <<log, clusterVars, progressVars, commitVars>>
     \/ /\ m.term >= cur /\ Matches(n, m)
        /\ ~RewindFails(n, m) /\ ~ApplyFails(n, m)
        /\ ReplyAppendEntries(n, m, TRUE, cur)
        /\ AppendEntriesToLog(n, m)
        /\ ConfigureFromEntries(n, m)
        /\ CommitFromLeader(n, m)

\* The handler panics before it returns a single action.
FollowerOnAppendEntriesPanics(n, m, cur) ==
  /\ m.term >= cur /\ Matches(n, m)
  /\ RewindFails(n, m) \/ ApplyFails(n, m)
  /\ Panic(n)
  /\ currentTerm' = [currentTerm EXCEPT ![n] = cur]
  /\ aeRequests' = BagRemove(aeRequests, m)
  /\ UNCHANGED <<aeReplies, log, clusterVars, progressVars, commitVars, heard, crashes,
                 voteMsgs, historyVars>>

\* Mutant of Grants: an earlier vote is not looked at.
Grants_Again(n, m, cur, voted) ==
  /\ ~heard[n]
  /\ m.term >= cur
  /\ AsUpdatedAs(m.lastLogTerm, m.lastLogIndex, log[n])

\* Mutant of Grants: the logs are not compared.
Grants_AnyLog(n, m, cur, voted) ==
  /\ ~heard[n]
  /\ m.term >= cur
  /\ voted \in {None, m.from}

\* voted is the vote the handler reads: none if it has just stepped down.
Grants(n, m, cur, voted) ==
  /\ ~heard[n]
  /\ m.term >= cur
  /\ voted \in {None, m.from}
  /\ AsUpdatedAs(m.lastLogTerm, m.lastLogIndex, log[n])

FollowerOnRequestVote(n, m, cur, voted) ==
  LET granted == Grants(n, m, cur, voted)
  IN /\ currentTerm' = [currentTerm EXCEPT ![n] = IF heard[n] THEN cur ELSE Higher(m.term, cur)]
     /\ votedFor' = [votedFor EXCEPT ![n] = IF granted THEN m.from ELSE voted]
     /\ ReplyRequestVote(m, granted, cur)
     /\ UNCHANGED <<log, clusterVars, progressVars, commitVars, heard, processVars,
                    appendMsgs, historyVars>>

FollowerOnTimeout(n) ==
  /\ state[n] = "follower"
  /\ heard[n] => "staleTick" \in Faults
  /\ CandidateOnStateChanged(n)
  /\ UNCHANGED <<clusterVars, progressVars, commitVars, heard, log, processVars,
                 rvReplies, appendMsgs, ticks, elected>>

-----------------------------------------------------------------------------
(* Candidate. *)

CandidateOnAppendEntries(n, m) ==
  \/ /\ m.term >= currentTerm[n]
     /\ FollowerOnStateChanged(n)
     /\ \/ FollowerOnAppendEntries(n, m, m.term)
        \/ FollowerOnAppendEntriesPanics(n, m, m.term)
  \/ /\ m.term < currentTerm[n]
     /\ ReplyAppendEntries(n, m, FALSE, currentTerm[n])
     /\ UNCHANGED <<electionVars, currentTerm, clusterVars, progressVars, commitVars, heard,
                    log, processVars, voteMsgs, historyVars>>

CandidateOnRequestVote(n, m) ==
  \/ /\ m.term > currentTerm[n]
     /\ EnterFollower(n)
     /\ FollowerOnRequestVote(n, m, m.term, None)
  \/ /\ m.term <= currentTerm[n]
     /\ ReplyRequestVote(m, FALSE, currentTerm[n])
     /\ UNCHANGED <<electionVars, currentTerm, clusterVars, progressVars, commitVars, heard,
                    log, processVars, appendMsgs, historyVars>>

CandidateOnTimeout(n) ==
  /\ state[n] = "candidate"
  /\ FollowerOnStateChanged(n)
  /\ UNCHANGED <<currentTerm, clusterVars, progressVars, commitVars, heard, log, processVars,
                 voteMsgs, appendMsgs, historyVars>>

\* "majority" is half of the peers, whom the list counts without the node.
WinsElection(n) == 2 * (voteCount[n] + 1) > Size(peers[n])

CandidateOnRequestVoteReply(n, r) ==
  /\ UNCHANGED <<clusterVars, commitVars, heard, processVars, rvRequests, aeReplies,
                 elections, ticks>>
  /\ \/ /\ r.term > currentTerm[n]
        /\ currentTerm' = [currentTerm EXCEPT ![n] = r.term]
        /\ FollowerOnStateChanged(n)
        /\ UNCHANGED <<progressVars, log, aeRequests, elected>>
     \/ /\ r.term <= currentTerm[n] /\ ~r.voteGranted
        /\ UNCHANGED <<electionVars, currentTerm, progressVars, log, aeRequests, elected>>
     \/ /\ r.term <= currentTerm[n] /\ r.voteGranted
        /\ voteCount' = [voteCount EXCEPT ![n] = @ + 1]
        /\ \/ WinsElection(n) /\ LeaderOnStateChanged(n)
           \/ ~WinsElection(n) /\ UNCHANGED <<state, progressVars, log, aeRequests, elected>>
        /\ UNCHANGED <<votedFor, currentTerm>>

-----------------------------------------------------------------------------
(* Leader. *)

\* Mutant of LeaderOnAppendEntries: processes the message without stepping down.
LeaderOnAppendEntries_StaysLeader(n, m) ==
  \/ /\ m.term > currentTerm[n]
     /\ UNCHANGED electionVars
     /\ FollowerOnAppendEntries(n, m, currentTerm[n])
  \/ /\ m.term <= currentTerm[n]
     /\ aeRequests' = BagRemove(aeRequests, m)
     /\ UNCHANGED <<electionVars, currentTerm, clusterVars, progressVars, commitVars, heard,
                    log, processVars, voteMsgs, aeReplies, historyVars>>

\* No reply at all to a message of its own term or an older one.
LeaderOnAppendEntries(n, m) ==
  \/ /\ m.term > currentTerm[n]
     /\ FollowerOnStateChanged(n)
     /\ \/ FollowerOnAppendEntries(n, m, currentTerm[n])
        \/ FollowerOnAppendEntriesPanics(n, m, currentTerm[n])
  \/ /\ m.term <= currentTerm[n]
     /\ aeRequests' = BagRemove(aeRequests, m)
     /\ UNCHANGED <<electionVars, currentTerm, clusterVars, progressVars, commitVars, heard,
                    log, processVars, voteMsgs, aeReplies, historyVars>>

LeaderOnRequestVote(n, m) ==
  \/ /\ m.term > currentTerm[n]
     /\ EnterFollower(n)
     /\ FollowerOnRequestVote(n, m, currentTerm[n], None)
  \/ /\ m.term <= currentTerm[n]
     /\ ReplyRequestVote(m, FALSE, currentTerm[n])
     /\ UNCHANGED <<electionVars, currentTerm, clusterVars, progressVars, commitVars, heard,
                    log, processVars, appendMsgs, historyVars>>

\* Half the heartbeat interval has passed: to every peer, what it lacks.
TickRequest(n, a) ==
  IF LastIndex(log[n]) >= nextIndex[n][a]
  THEN AppendEntriesTo(n, a, nextIndex[n][a], TermAt(log[n], nextIndex[n][a] - 1))
  ELSE Heartbeat(n, a)

\* log.Get of a negative index is nil, and the handler dereferences it.
TickFails(n) == \E a \in Address : peers[n][a] > 0 /\ nextIndex[n][a] < 0

LeaderOnTimeout(n) ==
  /\ state[n] = "leader"
  /\ ticks < MaxTicks
  /\ ticks' = ticks + 1
  /\ \/ /\ ~TickFails(n)
        /\ aeRequests' = ToPeers(aeRequests, n, {TickRequest(n, a) : a \in Recipients(n)})
        /\ UNCHANGED up
     \/ /\ TickFails(n)
        /\ Panic(n)
        /\ UNCHANGED aeRequests
  /\ UNCHANGED <<electionVars, currentTerm, clusterVars, progressVars, commitVars, heard,
                 log, crashes, voteMsgs, aeReplies, elections, elected>>

AppendOwn(n, entry) ==
  /\ Len(log[n]) < MaxLogLen
  /\ log' = [log EXCEPT ![n] = Append(@, entry)]

LeaderOnStateMachineCommand(n, c) ==
  /\ state[n] = "leader"
  /\ AppendOwn(n, CommandEntry(currentTerm[n], c))
  /\ UNCHANGED <<electionVars, currentTerm, clusterVars, progressVars, commitVars, heard,
                 processVars, voteMsgs, appendMsgs, historyVars>>

\* The previous change is committed, and so is an entry of the leader's term.
MayChangeCluster(n) ==
  /\ state[n] = "leader"
  /\ commitIndex[n] >= clusterChange[n].index
  /\ TermAt(log[n], commitIndex[n]) = currentTerm[n]
  /\ Len(SelectSeq(log[n], IsClusterChange)) < MaxChanges

AppendChange(n, newCluster) ==
  AppendOwn(n, ChangeEntry(currentTerm[n],
    [oldIndex |-> clusterChange[n].index, oldTerm |-> clusterChange[n].term,
     oldCluster |-> PlusAddress(peers[n], n), newCluster |-> newCluster]))

\* clusterChange itself is not set on the leader.
LeaderOnAddServer(n, a) ==
  /\ MayChangeCluster(n)
  /\ \/ peers[n][a] = 0 /\ SetPeers(n, PlusAddress(peers[n], a))
     \/ peers[n][a] > 0 /\ UNCHANGED <<peers, progressVars>>
  /\ AppendChange(n, PlusAddress(PlusAddress(peers[n], n), a))
  /\ UNCHANGED <<electionVars, currentTerm, clusterChange, commitVars, heard, processVars,
                 voteMsgs, appendMsgs, historyVars>>

\* The executor copies the other addresses to a list one shorter: it panics
\* if a is not in the list, and pads with "" if it is there more than once.
LeaderOnRemoveServer(n, a) ==
  /\ MayChangeCluster(n)
  /\ \/ /\ peers[n][a] > 0
        /\ SetPeers(n, [WithoutAddress(peers[n], a) EXCEPT ![None] = @ + peers[n][a] - 1])
        /\ AppendChange(n, WithoutAddress(PlusAddress(peers[n], n), a))
        /\ UNCHANGED up
     \/ /\ peers[n][a] = 0
        /\ Panic(n)
        /\ UNCHANGED <<peers, progressVars, log>>
  /\ UNCHANGED <<electionVars, currentTerm, clusterChange, commitVars, heard, crashes,
                 voteMsgs, appendMsgs, historyVars>>

-----------------------------------------------------------------------------
(* Leader: progress of the peers. *)

\* a majority of matchIndex >= i, the answering peer's being the last index
Committable(n, peer, i) ==
  LET match == [matchIndex[n] EXCEPT ![peer] = LastIndex(log[n])]
      count == 1 + Size([a \in Address |-> IF match[a] >= i THEN peers[n][a] ELSE 0])
  IN /\ 2 * count >= Size(peers[n]) + 1
     /\ EntryAt(log[n], i).term = currentTerm[n]

\* Apply what is committed; the loop stops at the first index without entry.
ApplyUpTo(n, commit) ==
  IF lastApplied[n] >= commit THEN UNCHANGED <<lastApplied, applied>>
  ELSE /\ lastApplied' = [lastApplied EXCEPT ![n] =
            Lower(commit, Higher(@, LastIndex(log[n])) + 1)]
       /\ applied' = [applied EXCEPT ![n] = @ \o
            EntriesFrom(log[n], lastApplied[n] + 1, Lower(commit, LastIndex(log[n])))]

AdvanceCommit(n, peer) ==
  LET candidates == {i \in (commitIndex[n] + 1) .. LastIndex(log[n]) : Committable(n, peer, i)}
  IN \/ /\ candidates = {}
        /\ UNCHANGED commitIndex
        /\ ApplyUpTo(n, commitIndex[n])
     \/ \E i \in candidates :
          /\ \A j \in candidates : j <= i
          /\ commitIndex' = [commitIndex EXCEPT ![n] = i]
          /\ ApplyUpTo(n, i)

LeaderOnAppendEntriesReply(n, r) ==
  /\ UNCHANGED <<clusterVars, heard, log, processVars, voteMsgs, aeRequests, historyVars>>
  /\ \/ /\ r.term > currentTerm[n]
        /\ currentTerm' = [currentTerm EXCEPT ![n] = r.term]
        /\ FollowerOnStateChanged(n)
        /\ UNCHANGED <<progressVars, commitVars>>
     \/ /\ r.term <= currentTerm[n] /\ ~r.success
        /\ nextIndex' = [nextIndex EXCEPT ![n][r.address] = @ - 1]
        /\ UNCHANGED <<electionVars, currentTerm, matchIndex, commitVars>>
     \/ /\ r.term <= currentTerm[n] /\ r.success
        /\ nextIndex' = [nextIndex EXCEPT ![n][r.address] = LastIndex(log[n]) + 1]
        /\ matchIndex' = [matchIndex EXCEPT ![n][r.address] = LastIndex(log[n])]
        /\ AdvanceCommit(n, r.address)
        /\ UNCHANGED <<electionVars, currentTerm>>

-----------------------------------------------------------------------------
(* The executor's loop: one event, forwarded to the handler of the role. *)

ForwardAppendEntries(m) ==
  LET n == m.to
  IN /\ up[n]
     /\ \/ /\ state[n] = "follower"
           /\ UNCHANGED electionVars
           /\ \/ FollowerOnAppendEntries(n, m, currentTerm[n])
              \/ FollowerOnAppendEntriesPanics(n, m, currentTerm[n])
        \/ state[n] = "candidate" /\ CandidateOnAppendEntries(n, m)
        \/ state[n] = "leader" /\ LeaderOnAppendEntries(n, m)

ForwardRequestVote(m) ==
  LET n == m.to
  IN /\ up[n]
     /\ \/ /\ state[n] = "follower"
           /\ UNCHANGED <<state, voteCount>>
           /\ FollowerOnRequestVote(n, m, currentTerm[n], votedFor[n])
        \/ state[n] = "candidate" /\ CandidateOnRequestVote(n, m)
        \/ state[n] = "leader" /\ LeaderOnRequestVote(n, m)

ForwardAppendEntriesReply(r) ==
  LET n == r.to
  IN /\ up[n] /\ OnTime(r)
     /\ aeReplies' = BagRemove(aeReplies, r)
     /\ \/ state[n] = "leader" /\ LeaderOnAppendEntriesReply(n, r)
        \/ /\ state[n] # "leader"
           /\ UNCHANGED <<electionVars, currentTerm, clusterVars, progressVars, commitVars,
                          heard, log, processVars, voteMsgs, aeRequests, historyVars>>

ForwardRequestVoteReply(r) ==
  LET n == r.to
  IN /\ up[n] /\ OnTime(r)
     /\ rvReplies' = BagRemove(rvReplies, r)
     /\ \/ state[n] = "candidate" /\ CandidateOnRequestVoteReply(n, r)
        \/ /\ state[n] # "candidate"
           /\ UNCHANGED <<electionVars, currentTerm, clusterVars, progressVars, commitVars,
                          heard, log, processVars, rvRequests, appendMsgs, historyVars>>

\* The timer of a node may run out at any moment: its duration is random.
ForwardTick(n) ==
  /\ up[n]
  /\ FollowerOnTimeout(n) \/ CandidateOnTimeout(n) \/ LeaderOnTimeout(n)

\* Is a, as n sees it, another member exactly if it has to be ?
MayAsk(n, a, member) ==
  \/ "carelessAdmin" \in Faults
  \/ a # n /\ (peers[n][a] > 0) = member

\* Requests of clients; nodes that are not the leader answer "not leader".
ForwardClient(n) ==
  /\ up[n]
  /\ \/ \E c \in Command : LeaderOnStateMachineCommand(n, c)
     \/ \E a \in Server : MayAsk(n, a, FALSE) /\ LeaderOnAddServer(n, a)
     \/ \E a \in Server : MayAsk(n, a, TRUE) /\ LeaderOnRemoveServer(n, a)

\* MinElectionTimeout after the last AppendEntries
HeardExpires(n) ==
  /\ heard[n]
  /\ heard' = [heard EXCEPT ![n] = FALSE]
  /\ UNCHANGED <<electionVars, currentTerm, clusterVars, progressVars, commitVars, log,
                 processVars, voteMsgs, appendMsgs, historyVars>>

\* The process of n ends, if it has not panicked before, and a new one reads
\* status and log from the disk and runs the executor, which first enters the
\* follower role.  What was addressed to the old process is lost with it.
Restart(n) ==
  /\ crashes[n] < MaxCrashes
  /\ crashes' = [crashes EXCEPT ![n] = @ + 1]
  /\ up' = [up EXCEPT ![n] = TRUE]
  /\ FollowerOnStateChanged(n)
  /\ commitIndex' = [commitIndex EXCEPT ![n] = -1]
  /\ lastApplied' = [lastApplied EXCEPT ![n] = -1]
  /\ applied' = [applied EXCEPT ![n] = << >>]
  /\ nextIndex' = [nextIndex EXCEPT ![n] = [a \in Address |-> 0]]
  /\ matchIndex' = [matchIndex EXCEPT ![n] = [a \in Address |-> -1]]
  /\ heard' = [heard EXCEPT ![n] = FALSE]
  /\ aeReplies' = [r \in {q \in DOMAIN aeReplies : q.to # n} |-> aeReplies[r]]
  /\ rvReplies' = [r \in {q \in DOMAIN rvReplies : q.to # n} |-> rvReplies[r]]
  /\ UNCHANGED <<currentTerm, clusterVars, log, aeRequests, rvRequests, historyVars>>

\* The administrator stops the executor and runs it again (Stop, Run): all of
\* the status stays but what entering the follower role changes.
StopAndRun(n) ==
  /\ "stopRun" \in Faults /\ up[n]
  /\ FollowerOnStateChanged(n)
  /\ UNCHANGED <<currentTerm, clusterVars, progressVars, commitVars, heard, log, processVars,
                 voteMsgs, appendMsgs, historyVars>>

Next ==
  \/ \E m \in DOMAIN aeRequests : ForwardAppendEntries(m)
  \/ \E m \in DOMAIN rvRequests : ForwardRequestVote(m)
  \/ \E r \in DOMAIN aeReplies : ForwardAppendEntriesReply(r)
  \/ \E r \in DOMAIN rvReplies : ForwardRequestVoteReply(r)
  \/ \E n \in Server : ForwardTick(n)
  \/ \E n \in Server : ForwardClient(n)
  \/ \E n \in Server : HeardExpires(n)
  \/ \E n \in Server : Restart(n)
  \/ \E n \in Server : StopAndRun(n)

Spec == Init /\ [][Next]_vars

-----------------------------------------------------------------------------
(* Types. *)

Role == {"follower", "candidate", "leader"}

ElectionTypeOK ==
  /\ state \in [Server -> Role]
  /\ currentTerm \in [Server -> Nat]
  /\ votedFor \in [Server -> Address]
  /\ voteCount \in [Server -> Nat]

ClusterTypeOK ==
  /\ peers \in [Server -> Cluster]
  /\ clusterChange \in [Server -> [index : Int, term : Int]]
  /\ nextIndex \in [Server -> [Address -> Int]]
  /\ matchIndex \in [Server -> [Address -> Nat \union {-1}]]

LogTypeOK ==
  /\ log \in [Server -> Seq(LogEntry)]
  /\ applied \in [Server -> Seq(LogEntry)]
  /\ commitIndex \in [Server -> Nat \union {-1}]
  /\ lastApplied \in [Server -> Nat \union {-1}]

ProcessTypeOK ==
  /\ heard \in [Server -> BOOLEAN]
  /\ up \in [Server -> BOOLEAN]
  /\ crashes \in [Server -> Nat]

VoteTypeOK ==
  /\ DOMAIN rvRequests \subseteq RequestVoteRequest
  /\ DOMAIN rvReplies \subseteq RequestVoteReply

AppendTypeOK ==
  /\ DOMAIN aeRequests \subseteq AppendEntriesRequest
  /\ DOMAIN aeReplies \subseteq AppendEntriesReply

HistoryTypeOK == elections \in Nat /\ ticks \in Nat /\ elected \subseteq Nat \X Server

\* Every node's status, log and process, and every message in flight, has its
\* type: in particular no node is ever made a vote for a non-address, and no
\* request is sent for an index below -1 (the fields of iface.go:166-192).
TypeOK ==
  /\ ElectionTypeOK /\ ClusterTypeOK /\ LogTypeOK /\ ProcessTypeOK
  /\ VoteTypeOK /\ AppendTypeOK /\ HistoryTypeOK

-----------------------------------------------------------------------------
(* Safety. *)

\* Terms do not decrease along a log, and none is ahead of its node's term:
\* the check on PrevLogTerm and the deletion of what follows keep the follower's
\* log ordered whatever messages reach it, in whatever order
\* (follower.go:44-94).
LogTermsOrdered ==
  \A n \in Server : \A j \in DOMAIN log[n] :
    /\ log[n][j].term <= currentTerm[n]
    /\ \A i \in 1 .. j : log[n][i].term <= log[n][j].term

\* The last entry of a leader is of its own term.  The heartbeats rely on it:
\* they name CurrentTerm() as PrevLogTerm of the last entry (leader.go:263).
LeaderLastEntryOwnTerm ==
  \A n \in Server : state[n] = "leader" =>
    TermAt(log[n], LastIndex(log[n])) = currentTerm[n]

\* In each term at most one server becomes leader, so that a candidate that
\* hears from a leader of its term may take it as authentic (candidate.go:75).
ElectionSafety == \A e \in elected, f \in elected : e[1] = f[1] => e[2] = f[2]

\* Two logs with entries of the same term at an index agree up to that index:
\* what PrevLogIndex and PrevLogTerm are checked for (follower.go:62-80).
LogMatching ==
  \A n \in Server, m \in Server : \A i \in DOMAIN log[n] \cap DOMAIN log[m] :
    log[n][i].term = log[m][i].term => \A j \in 1 .. i : log[n][j] = log[m][j]

\* A node never counts one address twice towards a majority, nor itself among
\* its peers ("does not include the node itself", status.go:306), whatever
\* sequence of records its list was derived from.
PeersCountedOnce ==
  \A n \in Server : peers[n][n] = 0 /\ \A a \in Server : peers[n][a] <= 1

\* clusterChange names an entry of the node's own log that is a cluster change
\* of that term (status.go:374-384), through appends, deletions and rewinds.
ClusterChangeInLog ==
  \A n \in Server : clusterChange[n].index >= 0 =>
    LET i == clusterChange[n].index
    IN /\ HasEntry(log[n], i)
       /\ IsClusterChange(EntryAt(log[n], i))
       /\ EntryAt(log[n], i).term = clusterChange[n].term

\* The search for the configuration to go back to comes to an end: it meets
\* neither a missing entry nor a cycle of records, whichever of the requests in
\* flight arrives next (follower.go:105-117, a loop without a bound).
RewindEnds ==
  \A m \in DOMAIN aeRequests :
    m.term >= currentTerm[m.to] /\ Matches(m.to, m) => ~RewindFails(m.to, m)

\* A node's peers are those of the newest cluster change in its log, or those
\* it was started with: deleting the entry of a configuration brings back the
\* previous one (follower.go:96-99).
ConfigFollowsLog ==
  \A n \in Server :
    LET changes == {k \in DOMAIN log[n] : IsClusterChange(log[n][k])}
    IN IF changes = {}
       THEN peers[n] = InitialPeers(n)
       ELSE \E k \in changes :
              /\ \A j \in changes : j <= k
              /\ peers[n] = WithoutAddress(RecordOf(log[n][k]).newCluster, n)

\* What a leader has committed is held by a majority: a command is replicated
\* "until it is committed (and only then" applied (iface.go:208-210); matchIndex
\* is there to know it, "the last log index where the leader's log matches the
\* peer's log" (status.go:362).
CommittedIsReplicated ==
  \A n \in Server : state[n] = "leader" => \A i \in 0 .. commitIndex[n] :
    LET holders == {m \in Server : HasEntry(log[m], i) /\ EntryAt(log[m], i) = EntryAt(log[n], i)}
    IN 2 * Cardinality(holders) > Size(peers[n]) + 1

\* A node has taken to its state machine every committed command that a later
\* entry is committed after: new commits are an order to apply ("order the state
\* machine to apply the new committed entries", follower.go:180), and the last
\* of them may be late only until the next.
CommittedIsApplied ==
  \A n \in Server : \A i \in 0 .. commitIndex[n] - 1 :
    HasEntry(log[n], i) /\ IsCommand(EntryAt(log[n], i)) =>
      \E k \in DOMAIN applied[n] : applied[n][k] = EntryAt(log[n], i)

\* nextIndex[p] is "the next log index a peer is waiting for" (status.go:352).
NextIndexIsIndex ==
  \A n \in Server, p \in Server :
    state[n] = "leader" /\ peers[n][p] > 0 => nextIndex[n][p] >= 0

-----------------------------------------------------------------------------
(* What a step may never do. *)

\* A node's term never decreases, restarts included (it is persisted,
\* status.go:243).
TermMonotonic == [][\A n \in Server : currentTerm'[n] >= currentTerm[n]]_vars

\* While a node stays leader it keeps its term and its log only grows.
LeaderAppendOnly ==
  [][\A n \in Server : state[n] = "leader" /\ state'[n] = "leader" =>
       /\ currentTerm'[n] = currentTerm[n]
       /\ Len(log'[n]) >= Len(log[n])
       /\ SubSeq(log'[n], 1, Len(log[n])) = log[n]]_vars

\* is l more updated than k: a later last term, or the same and longer ?
MoreUpdated(l, k) ==
  LET last(s) == IF s = << >> THEN 0 ELSE s[Len(s)].term
  IN \/ last(l) > last(k)
     \/ last(l) = last(k) /\ Len(l) > Len(k)

\* When a node becomes leader, a majority has moved to a later term or has a log
\* that is no more updated than its own (follower.go:261-272), although votes
\* were cast before and logs may have changed since.
LeaderUpToDate ==
  [][\A n \in Server : state[n] # "leader" /\ state'[n] = "leader" =>
       LET behind == {m \in Server : \/ currentTerm[m] > currentTerm[n]
                                     \/ ~MoreUpdated(log[m], log[n])}
       IN 2 * Cardinality(behind) > Cardinality(Server)]_vars

=============================================================================
