# simpleraft in TLA+

A verification development for simpleraft, a raft node in Go: TLA+ modules
translated from the source under `src/`, TLC configurations that check them on
small clusters, and theorems checked by TLAPS. Line numbers below are of files
under `src/`.

## 1. The system

| component | files | state | operations |
|---|---|---|---|
| rule handler | `rulehandler/*.go` | none (pure functions) | one handler per role and event; reads log and status, returns a list of actions |
| executor | `executor/executor.go` | timer, two reply channels, stop channels | `Run`'s loop takes one event (message, tick, reply, stop), forwards it to the handler of the role, implements the actions it returns |
| status | `status/status.go` | term, vote, peers, cluster change (each persisted under its own key); role, vote count, commit and applied indices, nextIndex, matchIndex, leaderLastHeard (volatile) | getters and setters; `SetPeerAddresses` rebuilds the two maps |
| raft log | `raftlog/raftlog.go` | lastIndex in memory; one key per entry and one for lastIndex on disk | Append, Update, Remove, Get, LastIndex |
| storage | `storage/storage.go` | an open `modernc.org/kv` database behind a lock file | Get, Set, Delete, nested transactions |
| transport | `transport/transport.go` | HTTP server, receiver channel | Listen, Close, ChangeAddress, Send: one goroutine per request on either side |
| state machine | `statemachine/statemachine.go` | key-value map, in memory only | Apply |
| webapp backend | `webapp/webapp.go` | "executor is running" flag | Run and Stop of the executor, setters on status and log, client commands |
| webapp frontend | `webapp/controller/*.js`, `webapp/view/*.html` | socket and queue, one controller per visit of a view | monitor with the switch and the setters, client form |
| messages | `iface/iface.go` | - | the structs that all of them exchange |
| main | `main.go` | - | default peers, wiring |

How they interact. All nodes run one executor goroutine. An event is handled
by one call of the handler of the node's role, and the actions of the list it
returns are carried out in order; `ActionSetState` runs the state-changed
handler of the new role at once, as a nested list, and `ActionReprocess`
forwards the same message again, to the handler of the new role. Requests are
HTTP POSTs with one goroutine each; the reply comes back on the connection and
is put on a channel of the executor. The webapp's goroutines call setters of
the same status and log, without a lock.

What is hard: requests and replies of different peers, and of the same peer,
overtake one another, since every one has a connection of its own; a reply does
not say which request it answers; a role change happens in the middle of
handling a message; the peer list is itself replicated through the log and taken
back when an entry is deleted; a process may end between any two actions; the
executor may be stopped and run again by an administrator, who may replace the
HTTP server in between; a page may miss the answer it waits for.

What makes each part correct: one leader per term; logs that agree up to a
common entry; commitment only of what a majority holds, once and for ever; a
peer list that always follows the log; entries applied once and in order;
terms, votes and entries that survive a restart before anybody was told of
them; no request left without an answer; Run and Stop that end in the state
asked for; a page that shows what is, and is not locked for ever.

## 2. Modules

| module | what it is |
|---|---|
| `RaftData` | values: addresses, peer lists, entries, records of cluster changes, messages; how a log is read and its configurations rewound |
| `SimpleRaft` | the protocol: all nodes with status, log and process, the network, one action per event |
| `MCSimpleRaft` | initial states and symmetry for TLC |
| `DurableLog` | abstract: what a raft log promises, a sequence that changes by one whole entry at its end |
| `RaftLog` | the log over keys and transactions, one action per write; implements `DurableLog` |
| `ActionList` | a follower's executor over `RaftLog`, one action per action of a list; crashes, failing writes, the administrator's `remove-logs` |
| `MCActionList` | three leaders' logs for TLC |
| `Backend` | the handlers behind the pages, `Run`, `Stop`, the HTTP servers |
| `Webapp` | the pages, composed with `Backend` |
| `MCWebapp` | two pages for TLC |
| `RaftDataProofs` | lemmas about the operators of `RaftData`, `Rewind` included |
| `SimpleRaftProofs`, `ClusterProofs` | type correctness, terms, order of the logs; the lists of peers |
| `LogProofs` | what a leader does to its log; where elections are safe, logs match and a rewind ends |
| `ElectionProofs` | where elections are safe, and what the winner's log is worth |
| `ActionListProofs` | the log and its refinement; the same under the executor, and what lists leave on the disk and in status |
| `WebappProofs`, `AckProofs` | types, flag and switch; acks that are heard |

`ActionList` extends `RaftLog` and adds the executor and the administrator as
its callers; `Webapp` extends `Backend` and adds the pages. `SimpleRaft` takes a
whole list in one step: `ActionList` shows what becomes of a list that is cut
short, and that an undisturbed one ends where `SimpleRaft`'s step does, a log
with the request's entries and the configuration of the newest change
(`AcceptedIsStored`, `StatusFollowsLog`).

### RaftData

Go counts log indices from 0 and says -1 for "none"; entry `i` is `log[i + 1]`.
A peer list is a multiset of addresses: its order matters nowhere, its length
and its duplicates do. `-default-peers=""` yields a list with one empty address
(`main.go:35`), hence `None` among the addresses: a message to it goes nowhere,
but it counts. A command is a model value, a record of a cluster change has its
four fields, and decoding an entry that is no cluster change gives the zero
record, as `json.Unmarshal` leaves it. `Result` of an entry is not represented:
the protocol does not read it.

### SimpleRaft

State: the fields of status, the log, `applied` (the entries the state machine
was taken through), `up` and `crashes` of the process, and four bags of
messages. `elected` is a history variable: who entered the leader role in which
term.

Actions: `ForwardAppendEntries`, `ForwardRequestVote`,
`ForwardAppendEntriesReply`, `ForwardRequestVoteReply`, `ForwardTick` and
`ForwardClient` are the executor's dispatch; each calls the operator named after
the handler of the role (`FollowerOnAppendEntries` and so on), and that operator
states what all the actions of the handler's list do, nested state changes and
reprocessing included. Where the reprocessed handler reads a status that was
changed a moment before (a candidate sets the term before it steps down, a
leader does not), the value is a parameter: `cur`, `voted`. `HeardExpires` is
the passing of `MinElectionTimeout` since the last AppendEntries. `Restart` is
the end of a process and `executor.New` plus the start of `Run` in a new one;
`StopAndRun` is the webapp's switch. Restart, like Run, enters the follower
role, which forgets the persisted vote: that is what the code does.

A panic of the executor's goroutine ends the process: `up` becomes FALSE and only
`Restart` brings the node back. The panics modelled are those of the handlers
and of `ActionRemoveServer`: a nil entry when nextIndex is negative
(`LeaderOnTimeout`), an address to remove that is not there, and
`FollowerOnAppendEntriesPanics`, the lookups beyond the message and the search
for a previous configuration that finds no end. The last one is kept because the
code has it; no run reaches it. `RewindEnds` shows that the search always ends
within the bounds; the lookup beyond the message needs a leader whose commit
index is two ahead of its log (it was truncated by an old request first), which
takes a log of four entries.

Network: a request is delivered at most once, at any time later, or never (loss
is a message that stays in the bag). A reply exists only for the process that
asked: it is dropped if that one has ended. Four behaviours are switched on per
run by the constant `Faults`: `lateReply` (a reply may arrive when its receiver
has left the term it asked in; without it such a reply counts as lost, which
stands for round trips shorter than an election), `staleTick` (the timer's
channel is not drained by `Reset`), `stopRun` and `carelessAdmin` (adds members
again, removes strangers or the leader).

Abstractions: an event with its whole action list is one step, so a crash between
two actions of a list is not in this module but in `ActionList`;
`LeaderOnStateMachineProbe` only reads and is not an action; time is `heard` and
the nondeterministic tick.

### DurableLog, RaftLog, ActionList

`DurableLog` has one variable, the entries that a restart would find, and two
steps. `RaftLog` has what the code has: the keys on disk, the keys as `Get` sees
them inside a transaction, `lastIndex` in memory, and `pc`, the place in
`Append` or `Remove`. `SetEntry`, `SetLastIndex`, `DeleteEntry`, `LowerLastIndex`
and `Commit` are the single calls of storage; `AppendFails` and `RemoveFails` are
an error of the write to come, with the deferred `Rollback`; `End` is the end of
the process anywhere and `Recover` is `New`. `AppendFails` leaves `lastIndex` as
counted up if it was the second write that failed, as the code does; the
executor panics on it, so nobody goes on with the wrong counter. The webapp goes
on after a failed `Remove` (`IgnoreError`), where the counter is still right.
Storage is taken at its word: `Commit` persists a transaction as a whole and does
not fail, `Rollback` undoes it. The refinement maps the abstract entries to
`Entries`, what the keys on disk spell; only `Commit` changes it.

`ActionList`: `FollowerOnAppendEntries` computes the list of actions from log and
status, as the handler does, and the executor performs its head, step by step; a
`DeleteLog` or `AppendLog` of several entries is unrolled into one operation of
`RaftLog` each. `EndProcess` is a crash, or the panic on an error, at any of
these steps. The requests are those the leaders in `LeaderLogs` may have sent,
in any order, any of them late or again: a piece of a leader's log that ends in
an entry of the leader's own term, since heartbeats and sends both reach to the
end of the log, and the log of a leader ends in its term
(`LeaderLastEntryOwnTerm`, proved). Two assumptions say what such logs have in
common. `LeadersMatch`: they match, as `LogMatching` says of `SimpleRaft`'s.
`LeadersPoint`: the index in the record of a change is that of an earlier change,
or -1, as `Chained`, the invariant behind `RewindsEnd`, has it of `SimpleRaft`'s. Which
change that is, and what peers stand beside it, is left open, because leaders do
not always tell the truth: one that makes two changes in a row never remembers
its own (`leader.go:131-147`), so that the second is recorded as if there were none
before it. Left out are leaders whose own status had been parted from their log by
a crash or an administrator.

Two history variables remember what parts configuration and log of the follower.
`torn`: a crash between their writes, the dropped error of `SetPeerAddresses`
(`status.go:327`) once the process has ended, or `remove-logs`, which does not take
the configuration back. `misled`: the deletion of a change whose record does not
hold the configuration before it (`Described`). Both become FALSE again when a list
ends with the configuration of a change it brought (`PeersTaken`), since that one is
taken from the request and from nothing before it. `ForwardPanics` is the search
for the previous configuration that meets a missing entry; like every end of the
process it leaves the next one to read its peers from the disk (`status.go:114-135`).
The writes of one key are single: `SetClusterChange` writes
two keys in one transaction.

### Backend, Webapp

`Backend` is the node's process as the webapp sees it. Each page has a
connection, whose messages go-socket.io handles one after the other, so a handler
that blocks (`call`) blocks its page only. `OnSetIsRunning` is the handler of the
switch up to the send on the stop channel, `TakeStop` is `Run` receiving it with
`transport.Close`, `AfterStop` the handler's end; `BeginRun` is the goroutine `go
Run()` getting to its loop. `server` is what became of `transport.server`,
`orphans` are the servers that `ChangeAddress` replaced while they served. A
client request is posted to the node's own address: `served` by the server,
`abandoned` to an orphan, or refused; the executor's loop takes it (`TakeRequest`),
or `Close` breaks its connection and leaves a goroutine that still offers it to
the next `Run` (`TakeGhost`).

`Webapp` is the browser side. A page is single-threaded: an action is a turn of
its event loop. `link` is the state of the socket, from `connecting` over `greeted`
(node state asked for) and `connected` (the flag `connected`, emits go straight out)
to `ready` (the queue, listeners included, was flushed 200 ms later).
`controllers` are all the controllers ever made, since neither listeners nor
timers of a view that was left are taken away. Every click waits for a second and
then sends (`FireTimer`); the switch sends what it shows by then.

Assumptions about time, and only these: 200 ms end before a timer of 1000 ms that
was started no earlier (`Elapses`), and a goroutine `go Run()` reaches its loop
before the next message of the switch, which is at least a click and a second
away, is handled (`starting = 0` in `OnSetIsRunning`). And one page alone shows the
monitor: with two of them, both handlers may see the flag down and start a `Run`
each, of which the second panics, or see it up and `Stop` twice, of which the
second blocks for ever on a channel nobody receives from any more. The code has
nothing against that.

## 3. What TLC checks

Every run of `SimpleRaft` starts either from the start of all processes or, through
`SpecLed`, from a state in which `First` has just won the first election with the
vote of one other member and its first heartbeats were lost; `Init` leads to it.
(A third member has its vote left. With all votes spent on `First` no follower
could vote again before it has been a candidate itself, as a vote is not
cleared by a later term, and old and new leader would not meet.)
The models stop at their bounds (a leader that may not append or tick any more),
so deadlock is not checked; in `webapp` users stop clicking at their bound. Only
`WebappSpec` assumes fairness.

Passing runs:

| run | instance | properties |
|---|---|---|
| `election` | 5 nodes, one never started; 2 candidacies | `TypeOK`, `ElectionSafety`: at most one leader per term, when replies are not late and the cluster is odd |
| `replication` | 3 nodes, a second election, logs of 2 entries, 2 heartbeats, client commands | `LogMatching`, `LeaderAppendOnly`, `LeaderUpToDate` (whoever wins is no less updated than a majority, or that has moved on) |
| `faults` | 2 nodes, all faults, a restart of each, one cluster change | `LogTermsOrdered`, `LeaderLastEntryOwnTerm`, `TermMonotonic` |
| `membership` | 2 members and a joiner, 2 cluster changes, 2 terms, 3 heartbeats | `PeersCountedOnce`, `ClusterChangeInLog`, `RewindEnds` |
| `executor` | a follower and three leaders with logs of 3, 4 and 3 entries and four cluster changes, two of them by one leader in a row; 4 requests, 2 crashes, 1 failing write, 1 `remove-logs` | `LastIndexAgrees`, `DurableSpec` (the refinement), `PrefixOfALeader` (the disk holds the beginning of some leader's log at every moment), `AcceptedIsStored`, `StatusFollowsLog`, `RewindFindsEnd`, `ListTypeOK` |
| `webapp` | the administrator's page with 3 clicks and another page with 1; 2 addresses | `RunsOnce`, `FlagIsRunning`, `SwitchShowsFlag`, `AckIsHeard`, `WebappTypeOK`; live: `Released`, `RunningListens` |

Bounds. `MaxElections` and `MaxTerm` = 2 allow an old and a new leader, or two
rival candidates of one term, to act at the same time; `MaxLogLen` = 2 holds a
common entry and a conflicting one, or two conflicting ones (with 3 entries the
run `replication` still passes, with 4.9 million states); 2 or 3 heartbeats are enough
for a request to be overtaken by the next and for its reply to come after both.
Five nodes in `election` are the fewest for which a candidate needs more than one
vote of another node (a single one is enough among three, since the list that is
compared with does not contain the node itself). Four of them running suffice to
vote for two candidates. Each of these is reached: every property is violated
under the same bounds once a guard or an assignment it depends on is changed; the
changed operators stand beside the originals as `..._Early`, `..._Again`,
`..._AnyTerm`.

In `executor`, four requests are what it takes to go to a leader's last change,
back behind it, on to another's, and to send one more that finds what a crash has
left; the logs of `MCActionList` are those of a leader that makes two changes in a
row, of an election won across the first of them, with one change built on
another, and of a rival that knows of neither. So a follower deletes changes that
are recorded rightly and wrongly, and takes over another one after each. Two
crashes allow one in the middle of the list that follows a crash. 405,269 states.

In `webapp`, three clicks are on, off and on again, or a save between them, or a
visit and back; the second page's request overlaps with any of them. Two
addresses let an orphan keep, or not, the address that is asked for next. 85,786
states.

Fairness. `WebappSpec` lets users stop clicking, but no goroutine and no turn of a
page is put off for ever (weak fairness of every handler, of `BeginRun`,
`OpenServer` and of a page's `Connect`, `Flush`, `Receive` and `FireTimer`): the Go
scheduler and the browser run what can run, and the connection is not lost.
`TakeRequest` and `TakeStop` have strong fairness: `Run`'s `select` chooses at random
among the channels that are ready each time round, and its loop goes round for
ever (each event's handling ends), so an offer that stands is taken. `TakeGhost` has
no fairness. `Released` says: a form that waits is released, or its ack came before
the page listened, or its request hangs at an orphan of a stopped executor. Both
exceptions are what the code does; `AckIsHeard` narrows the first to a page on
which something was clicked before it was connected. `RunningListens` says that
`Close` leaves a server that opens again; the exception `server = "new"` is an
address that was changed while the executor ran (`transport.go:82`: it takes
effect only at the next start).

Runs that end in a violation. Each shows a behaviour of the code against what
the code's own comments say; `PROJECT.json` quotes them.

| run | property | what happens |
|---|---|---|
| `late_vote` | `ElectionSafety` | a grant asked for in an earlier term is counted in the present one (`candidate.go:187`) |
| `even_cluster` | `ElectionSafety` | in a cluster of four, two votes are a "majority" (`candidate.go:194`) |
| `commit` | `CommittedIsReplicated` | matchIndex is set to the leader's last index of the moment (`leader.go:371`): an entry no other node has is committed |
| `reconfigure` | `ConfigFollowsLog` | the leader does not remember its own cluster change (`leader.go:104-155`): when both of its changes are truncated, the index goes back to -1 at once, but the peers stop at the first change's list |
| `next_index` | `NextIndexIsIndex` | two refusals of old requests take nextIndex below 0 (`leader.go:357`); the next heartbeat panics |
| `apply` | `CommittedIsApplied` | a follower whose commit index rises past a command by single steps never applies it (`follower.go:182`) |

Beside these, `executor.go:642` ends the process when a stranger or the leader
itself is removed, where `iface.go:383-385` and `leader.go:177-179` say it is a
no-op; `LeaderOnRemoveServer` has the panic.

## 4. What is proved

All for every value of the constants (servers, members, faults and bounds;
leaders' logs; pages and addresses), under the `ASSUME`s of the modules: `None` is
no server, members are servers, bounds are naturals, the first address is one of
the addresses, the pages are finitely many and the administrator's was not open
before; leaders' logs consist of entries and match, and the records in them point
to earlier changes (section 2).
Where a theorem needs more, its statement says so.

| theorem | statement | argument |
|---|---|---|
| `TypeCorrect` | `Spec => []TypeOK` | inductive as it stands; one lemma per action (`...Type`), which add up in `TypeNext`. The work is in the indices: `prevLogIndex >= -1` needs the panic guard on negative nextIndex, and that a rewound configuration is a cluster needs that every record of the log is one |
| `TermsNeverDecrease` | `Spec => TermMonotonic` | `NextEffects`: what a step may do to terms, logs and requests, one lemma per action |
| `LogsOrdered` | `Spec => []LogTermsOrdered` | needs `OrderInv`, which adds that requests in flight are ordered as well, carry no term beyond their own, and name a previous term not beyond their first entry's; the step uses `NextEffects` only, not the actions again |
| `LeadersEndInOwnTerm` | `Spec => []LeaderLastEntryOwnTerm` | inductive with `TypeOK`, by `NextLeads`: a node that leads after a step had led with the same log, or has appended one entry of its unchanged term |
| `LeadersAppendOnly` | `Spec => LeaderAppendOnly` | the same lemma |
| `LogsMatch` | `Spec /\ []ElectionSafety => []LogMatching` | no variable remembers the logs that were ever written, so the invariant says that there is a set `W` of them (`WrittenInv`): closed under prefixes, and such that length and last term tell which log it is. Every node's log is in `W`, the entries of every request end a member of it, and the last term of each is one somebody led in, who still has all of it if he leads. A leader that appends adds to `W`; that nobody else adds another log of that length and term is where `ElectionSafety` comes in, and nowhere else |
| `ClusterChangesAreInLog`, `RewindsEnd` | `Spec /\ []ElectionSafety => []ClusterChangeInLog`, the same of `RewindEnds` | the same invariant: the records in a log of `W` are `Chained`, each names an earlier change of the log; and `Rewind` ends because the index falls at each step (`RaftDataProofs`) |
| `ElectionsAreSafe` | `SafeSetting /\ Spec => []ElectionSafety` | see below |
| `LogsMatchWhereSafe` | `SafeSetting /\ Spec => []LogMatching` | the two before it |
| `LeadersAreUpToDate` | `SafeSetting /\ Members = Server /\ Spec => LeaderUpToDate` | the invariant of `ElectionsAreSafe` has for each vote of a present candidate that the voter has moved to a later term, or has a log that is no more updated, or that somebody leads in this term already (`UpToDate`); `Members = Server` since the property counts all servers |
| `PeersAreCountedOnce` | `"carelessAdmin" \notin Faults /\ Spec => []PeersCountedOnce` | needs `OnceInv`, which says the same of every record in a log and in a request: a list of peers may come from any of them, and a record from the list of peers of whoever wrote it. With a careless administrator it is false (a member added twice is counted twice in the records) |
| `LastIndexIsStored` | `LogSpec => []LastIndexAgrees` | needs `LogInv`, which says for each `pc` how view, disk and `lastIndex` stand to each other, e.g. that before `Commit` the view is the disk with one entry more or less |
| `LogIsDurable` | `LogSpec => DurableSpec` | the refinement: from `LogInv`, `Commit` appends or removes one entry of `Entries` and every other step leaves the disk alone |
| `ListTypeCorrect` | `ListSpec => []ListTypeOK` | `LogInv` and `StatusInv`: every list built by the handler consists of typed steps, and whatever is at its head when an operation of the log is in progress is the action that began it |
| `FollowerIndexIsStored`, `FollowerLogIsDurable` | `ListSpec => []LastIndexAgrees`, `ListSpec => DurableSpec` | `ListImplementsLog`: every step of the executor, of a crash and of the administrator is a step of `RaftLog` or leaves its variables alone |
| `DiskIsOfALeader`, `AcceptedStays`, `StatusFollows`, `RewindIsFound` | `ListSpec => []...` of `PrefixOfALeader`, `AcceptedIsStored`, `StatusFollowsLog`, `RewindFindsEnd` | one invariant, `ListInv`: what is left of a list in the making is always a tail of one shape (`ListOf`: so many removals, a term, a rewound configuration, entries, a new configuration), and it fits: the log and the configuration that it ends in are the same before and after each action (`Fits`). With that no step needs to know which request the list was for; a crash leaves the empty tail and sets `torn`. `Fits` has three levels: the index names a change or no entry whatever happened, which is all that `RewindIsFound` needs to end; while nothing is torn it names an entry of the log; and while nothing is torn or misled, and the changes still to be deleted are recorded truthfully, the configuration is the newest change's. Whatever the level, what a list ends in after a change it brought is the newest change's, which is why `StatusFollows` speaks of every follower again after its next change |
| `WebappTypeCorrect` | `WebappSpec => []WebappTypeOK` | `WebappInv`: besides types, that a timer names a controller that exists and that only the administrator's page has the switch |
| `RunsNeverMeet`, `FlagIsTrue` | `WebappSpec => []RunsOnce`, `WebappSpec => []FlagIsRunning` | `ExecutorInv`, a part of `WebappInv`: flag, stop channel, goroutines to begin, the loop and the handler's place have four combinations only. It is needed because the flag and the channel are written in different goroutines |
| `SwitchShows` | `WebappSpec => []SwitchShowsFlag` | needs `ShowInv`: either somebody is still to ask for the flag (a request under way or in the queue, a timer of the switch, a `Stop` at work), or the last answer under way that tells the flag tells it as it is, or there is no such answer and the switch shows it. "Last" is the point: earlier answers may tell anything, and turn the switch back |
| `AcksAreHeard` | `WebappSpec => []AckIsHeard` | needs `AckInv`: by the state of its socket, what may be on its way from and to a page (`GreetedOnce`: the greeting alone before it is connected, and never again, since a second one would undo `ready`; `QuietUntilReady`: nothing that is acknowledged, unless something was clicked early) |

Elections. The code's rules are not raft's: a vote is not tied to a term, a
follower that moves to a later term keeps it, and whoever enters the follower role
forgets it, within a term too; half of the peers are a "majority"; a grant is
counted by whatever candidacy it reaches. `SafeSetting` says where that does no
harm: no late replies, no restart and no `Run` by hand (`MaxCrashes = 0`,
`stopRun`), no reconfiguration (`MaxChanges = 0`), an odd number of members. Every
message may be delayed, lost or overtaken, timers may fire at any moment,
administrators may ask for anything else, and the rest of the nodes may be of any
number. Each condition is needed. The runs `late_vote` and `even_cluster` violate
`ElectionSafety` without the first and the last. A restart loses the vote although
`SetVotedFor` persists it "(necessary for correctness)" (`status.go:262`): `Run`
begins with `FollowerOnStateChanged`, which clears it (`executor.go:149`,
`follower.go:15-18`). `LateVote.cfg` with `Faults = {}`, `MaxTerm = 1`,
`MaxElections = 2` and `MaxCrashes = 1` violates `ElectionSafety` in seven steps: two
members stand in term 1, the third votes for one, is restarted and votes for the
other; with `Faults = {"stopRun"}` and no crash it is the same. A reconfigured
cluster, at last, is even after every other change. The invariant speaks of two sets that no variable remembers,
the ballots ever cast and those counted (`BallotInv(B, C)`): a node casts one ballot
in a term for another node, and none after it was elected; each is asked for once
and granted once, its grant is either on its way or counted, so `voteCount` is the
number of a candidate's voters. Why the forgotten votes do no harm: a vote for
another node stays on record as long as its term lasts (`Cast`), since only a node
that stood in the term itself can change its role to follower in it. Such a node
forgets its own ballot and may cast another, but a candidate that gave up counts no
grants any more; and one that was elected casts none, since its log ends in an entry
of the term (`LastOfElected`) and that of a rival does not.

`LogsMatch` and its two companions take `[]ElectionSafety` as a hypothesis instead
of `SafeSetting`, since that is all they use: restarts, late replies and
reconfigurations are allowed as long as no term happens to have two leaders. The
hypothesis is not empty: `ElectionSafety` holds throughout the instances of the runs
`replication` and `membership` (737,102 states, two changes of the cluster), and
`ElectionsAreSafe` shows it in general for the setting above.

Only model-checked: the liveness of `Released` and `RunningListens`. Liveness under
fairness, and `ENABLED`, are outside what the prover can do. The induction theorems
of the library cannot be used either, but where induction is needed a least
counterexample does: that a set of naturals which is not empty has a least member
follows from the well-foundedness of `<` (`LeastNatural`), and with it
`RaftDataProofs` shows what the one recursive function of the modules, `Rewind`,
returns. No module declares a RECURSIVE operator. The violated properties are, of
course, not theorems.

## 5. What is not modelled, and the plan

Not modelled, and why:

- `webapp/view/js/flat-ui.js` (29,639 lines) and `angular-bootstrap-switch.js` are
  copies of third-party libraries, `directives.js`, `filters.js`, `Model.js` and
  `routes.js` what is left of a template. They are nearly all the JavaScript there
  is, so the share of it that the modules cover is small; of the program's own
  JavaScript, `services.js` and `controllers.js`, the control is modelled.
- In the pages: fields that only show a value, their polling and validation; the
  setters other than the node's address, which differ in nothing the page can see;
  a lost connection and the `error` path, which opens a second socket (an ack
  on its way is lost with the first one).
- What the setters' arbitrary values do to the protocol (`set-current-term` and
  so on): they overwrite status without a lock, and no property could hold.
- `get-logs` reading entries that the executor deletes meanwhile.
- Two pages with the switch (section 2).
- Storage's lock file and `openDBs`, transactions of two goroutines nested into
  one another, a `Commit` that fails.
- `RaftLog.Update`, the results of commands and the probe that reads them; the
  key-value machine; texts of replies; HTTP, seen only as requests and replies.

The plan, in this order:

1. **Client.** `LeaderOnStateMachineProbe`, the key-value machine, results: a
   completed probe reports the command of its term.
2. **Votes at the grain of actions.** `FollowerOnRequestVote` in `ActionList`: the
   reply before the vote is written, the vote forgotten by `Run`.
3. **Replication liveness** under fair delivery, for a leader that stays alone.
4. **More proofs.** `ElectionSafety` for a cluster that is reconfigured by one
   server at a time but stays odd among those who vote; that a
   record in a leader's log points to an earlier change or to none (`LeadersPoint`)
   from the invariant behind `RewindsEnd`, with crashes in the middle of lists.
