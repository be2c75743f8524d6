-------------------------------- MODULE LogProofs --------------------------------
(***************************************************************************)
(* What the logs of a cluster look like.  A leader's log ends in the       *)
(* leader's own term and only grows while it stays leader; where elections *)
(* are safe, logs match, a node's cluster change is in its log, and the    *)
(* search for an earlier one ends.  All rest on what a step may do to      *)
(* roles and to the log of a node that leads after it (Leads), established *)
(* once per action and combined in NextLeads, and on NextEffects.          *)
(***************************************************************************)
EXTENDS SimpleRaftProofs

\* roles and the history of elections are in these tuples of unchanged variables
USE DEF electionVars, historyVars

\* The step makes candidate s the leader of its term.
Wins(s) ==
  /\ state[s] = "candidate" /\ state'[s] = "leader"
  /\ currentTerm' = currentTerm
  /\ elected' = elected \union {<<currentTerm[s], s>>}

\* After the step s leads with the log it led with before, or it has appended
\* one entry of its own, unchanged, term.
LeadsOn(s) ==
  /\ currentTerm'[s] = currentTerm[s]
  /\ state[s] = "leader" \/ Wins(s)
  /\ \/ state[s] = "leader" /\ log'[s] = log[s]
     \/ \E entry \in LogEntry :
          entry.term = currentTerm[s] /\ log'[s] = Append(log[s], entry)

\* After the step s is a candidate: it was one in this term, or the term is new.
RunsOn(s) ==
  \/ state[s] = "candidate" /\ currentTerm'[s] = currentTerm[s] /\ log'[s] = log[s]
  \/ currentTerm'[s] > currentTerm[s]

Leads ==
  /\ \A s \in Server : state'[s] = "leader" => LeadsOn(s)
  /\ \A s \in Server : state'[s] = "candidate" => RunsOn(s)
  /\ elected' = elected \/ \E s \in Server : Wins(s)

LEMMA NothingChanges ==
  ASSUME UNCHANGED <<state, currentTerm, log, elected>>
  PROVE  Leads
BY DEF Leads, LeadsOn, RunsOn

\* A step of one node, after which it does not lead.
LEMMA NoLeader ==
  ASSUME NEW n \in Server, state'[n] # "leader", elected' = elected,
         state'[n] = "candidate" => RunsOn(n),
         \A s \in Server \ {n} :
           state'[s] = state[s] /\ currentTerm'[s] = currentTerm[s] /\ log'[s] = log[s]
  PROVE  Leads
BY DEF Leads, LeadsOn, RunsOn

\* A step of one node that appends an entry of the node's term.
LEMMA OwnEntry ==
  ASSUME TypeOK, NEW n \in Server, NEW entry \in LogEntry, AppendsOwn(n, entry),
         \/ Wins(n)
         \/ state[n] = "leader" /\ state'[n] = "leader" /\ elected' = elected,
         \A s \in Server \ {n} : state'[s] = state[s]
  PROVE  Leads
<1>1. /\ currentTerm' = currentTerm
      /\ log'[n] = Append(log[n], entry)
      /\ \A s \in Server \ {n} : log'[s] = log[s]
  BY DEF AppendsOwn, TypeOK, LogTypeOK
<1>2. LeadsOn(n) /\ state'[n] = "leader"
  BY <1>1 DEF LeadsOn, Wins, AppendsOwn
<1>3. ASSUME NEW s \in Server, s # n
      PROVE  /\ state'[s] = "leader" => LeadsOn(s)
             /\ state'[s] = "candidate" => RunsOn(s)
  BY <1>1, <1>3 DEF LeadsOn, RunsOn
<1>4. ASSUME NEW s \in Server, state'[s] = "leader" PROVE LeadsOn(s)
  BY <1>2, <1>3, <1>4 DEF LeadsOn, Wins
<1>5. ASSUME NEW s \in Server, state'[s] = "candidate" PROVE RunsOn(s)
  BY <1>2, <1>3, <1>5 DEF RunsOn
<1>6. elected' = elected \/ \E s \in Server : Wins(s)
  OBVIOUS
<1> QED
  BY <1>4, <1>5, <1>6 DEF Leads

-----------------------------------------------------------------------------
(* Messages. *)

LEMMA FollowerOnAppendEntriesLeads ==
  ASSUME TypeOK, NEW m, m.to \in Server, NEW cur,
         state'[m.to] = "follower", \A s \in Server \ {m.to} : state'[s] = state[s],
         \/ FollowerOnAppendEntries(m.to, m, cur)
         \/ FollowerOnAppendEntriesPanics(m.to, m, cur)
  PROVE  Leads
<1>1. \E t : currentTerm' = [currentTerm EXCEPT ![m.to] = t]
  BY Zenon DEF FollowerOnAppendEntries, FollowerOnAppendEntriesPanics
<1>2. log' = log \/ AppendEntriesToLog(m.to, m)
  BY Zenon DEF FollowerOnAppendEntries, FollowerOnAppendEntriesPanics
<1>3. \A s \in Server \ {m.to} : currentTerm'[s] = currentTerm[s] /\ log'[s] = log[s]
  BY <1>1, <1>2 DEF AppendEntriesToLog, TypeOK, ElectionTypeOK, LogTypeOK
<1>4. elected' = elected
  BY Zenon DEF FollowerOnAppendEntries, FollowerOnAppendEntriesPanics
<1> QED
  BY <1>3, <1>4, NoLeader

LEMMA EntersFollower ==
  ASSUME TypeOK, NEW n \in Server, EnterFollower(n) \/ FollowerOnStateChanged(n)
  PROVE  /\ state'[n] = "follower"
         /\ \A s \in Server \ {n} : state'[s] = state[s]
BY DEF EnterFollower, FollowerOnStateChanged, TypeOK, ElectionTypeOK

LEMMA ForwardAppendEntriesLeads ==
  ASSUME TypeOK, NEW m \in DOMAIN aeRequests, ForwardAppendEntries(m)
  PROVE  Leads
<1> DEFINE n == m.to
<1>0. n \in Server
  BY AppendRequestFields DEF TypeOK
<1>1. CASE state[n] = "follower" /\ UNCHANGED state
  BY <1>0, <1>1, FollowerOnAppendEntriesLeads DEF ForwardAppendEntries
<1>2. ASSUME NEW cur, FollowerOnStateChanged(n),
             \/ FollowerOnAppendEntries(n, m, cur)
             \/ FollowerOnAppendEntriesPanics(n, m, cur)
      PROVE  Leads
  BY <1>0, <1>2, EntersFollower, FollowerOnAppendEntriesLeads
<1>3. CASE UNCHANGED <<state, currentTerm, log, elected>>
  BY <1>3, NothingChanges
<1> QED
  BY <1>1, <1>2, <1>3
  DEF ForwardAppendEntries, CandidateOnAppendEntries, LeaderOnAppendEntries

LEMMA ForwardRequestVoteLeads ==
  ASSUME TypeOK, NEW m \in DOMAIN rvRequests, ForwardRequestVote(m)
  PROVE  Leads
<1> DEFINE n == m.to
<1>0. n \in Server
  BY VoteRequestFields DEF TypeOK
<1>1. ASSUME NEW cur, NEW voted, FollowerOnRequestVote(n, m, cur, voted),
             state'[n] = "follower", \A s \in Server \ {n} : state'[s] = state[s]
      PROVE  Leads
  <2>1. /\ \A s \in Server \ {n} : currentTerm'[s] = currentTerm[s]
        /\ log' = log /\ elected' = elected
    BY <1>0, <1>1 DEF FollowerOnRequestVote, TypeOK, ElectionTypeOK
  <2> QED
    BY <1>0, <1>1, <2>1, NoLeader
<1>2. CASE state[n] = "follower"
  BY <1>0, <1>1, <1>2 DEF ForwardRequestVote
<1>3. CASE state[n] = "candidate" /\ CandidateOnRequestVote(n, m)
  BY <1>0, <1>1, <1>3, EntersFollower, NothingChanges DEF CandidateOnRequestVote
<1>4. CASE state[n] = "leader" /\ LeaderOnRequestVote(n, m)
  BY <1>0, <1>1, <1>4, EntersFollower, NothingChanges DEF LeaderOnRequestVote
<1> QED
  BY <1>2, <1>3, <1>4 DEF ForwardRequestVote

\* A node that enters the follower role, its log and other nodes' terms unchanged.
LEMMA StepsDown ==
  ASSUME TypeOK, NEW n \in Server, FollowerOnStateChanged(n), UNCHANGED <<log, elected>>,
         \/ UNCHANGED currentTerm
         \/ \E t : currentTerm' = [currentTerm EXCEPT ![n] = t]
  PROVE  Leads
<1>1. \A s \in Server \ {n} : currentTerm'[s] = currentTerm[s]
  BY DEF TypeOK, ElectionTypeOK
<1> QED
  BY <1>1, EntersFollower, NoLeader

LEMMA ForwardAppendEntriesReplyLeads ==
  ASSUME TypeOK, NEW r \in DOMAIN aeReplies, ForwardAppendEntriesReply(r)
  PROVE  Leads
<1> DEFINE n == r.to
<1>0. n \in Server
  BY DEF TypeOK, AppendTypeOK, AppendEntriesReply
<1>1. UNCHANGED <<log, elected>>
  BY DEF ForwardAppendEntriesReply, LeaderOnAppendEntriesReply
<1>2. \/ UNCHANGED <<state, currentTerm>>
      \/ /\ FollowerOnStateChanged(n)
         /\ currentTerm' = [currentTerm EXCEPT ![n] = r.term]
  BY DEF ForwardAppendEntriesReply, LeaderOnAppendEntriesReply
<1> QED
  BY <1>0, <1>1, <1>2, NothingChanges, StepsDown

LEMMA ForwardRequestVoteReplyLeads ==
  ASSUME TypeOK, NEW r \in DOMAIN rvReplies, ForwardRequestVoteReply(r)
  PROVE  Leads
<1> DEFINE n == r.to
<1>0. n \in Server /\ currentTerm[n] \in Nat
  BY DEF TypeOK, VoteTypeOK, RequestVoteReply, ElectionTypeOK
<1>1. CASE /\ state[n] = "candidate" /\ LeaderOnStateChanged(n)
           /\ UNCHANGED <<currentTerm, peers, clusterChange>>
  <2>1. /\ NoOpEntry(currentTerm[n]) \in LogEntry /\ NoOpEntry(currentTerm[n]).term = currentTerm[n]
        /\ PointsAt(NoOpEntry(currentTerm[n]), clusterChange[n])
    BY <1>0, EntryTypes, PlainEntriesPointNowhere
  <2>2. AppendsOwn(n, NoOpEntry(currentTerm[n]))
    BY <1>1, <2>1, PlainEntries DEF LeaderOnStateChanged, AppendsOwn
  <2>3. \A s \in Server \ {n} : state'[s] = state[s]
    BY <1>0, <1>1 DEF LeaderOnStateChanged, TypeOK, ElectionTypeOK
  <2>4. Wins(n)
    BY <1>0, <1>1 DEF Wins, LeaderOnStateChanged, TypeOK, ElectionTypeOK
  <2> QED
    BY <1>0, <2>1, <2>2, <2>3, <2>4, OwnEntry
<1>2. CASE UNCHANGED <<state, currentTerm, log, elected>>
  BY <1>2, NothingChanges
<1>3. CASE /\ FollowerOnStateChanged(n)
           /\ currentTerm' = [currentTerm EXCEPT ![n] = r.term]
           /\ UNCHANGED <<log, elected>>
  BY <1>0, <1>3, StepsDown
<1> QED
  BY <1>1, <1>2, <1>3 DEF ForwardRequestVoteReply, CandidateOnRequestVoteReply, clusterVars

-----------------------------------------------------------------------------
(* Timers and clients. *)

LEMMA ForwardTickLeads ==
  ASSUME TypeOK, NEW n \in Server, ForwardTick(n)
  PROVE  Leads
<1>1. CASE FollowerOnTimeout(n)
  <2>1. /\ state' = [state EXCEPT ![n] = "candidate"]
        /\ currentTerm' = [currentTerm EXCEPT ![n] = currentTerm[n] + 1]
        /\ UNCHANGED <<log, elected>>
    BY <1>1 DEF FollowerOnTimeout, CandidateOnStateChanged
  <2>2. /\ state'[n] # "leader" /\ RunsOn(n)
        /\ \A s \in Server \ {n} : state'[s] = state[s] /\ currentTerm'[s] = currentTerm[s]
    BY <2>1 DEF TypeOK, ElectionTypeOK, RunsOn
  <2> QED
    BY <2>1, <2>2, NoLeader
<1>2. CASE CandidateOnTimeout(n)
  BY <1>2, StepsDown DEF CandidateOnTimeout
<1>3. CASE LeaderOnTimeout(n)
  BY <1>3, NothingChanges DEF LeaderOnTimeout
<1> QED
  BY <1>1, <1>2, <1>3 DEF ForwardTick

LEMMA ForwardClientLeads ==
  ASSUME TypeOK, NEW n \in Server, ForwardClient(n)
  PROVE  Leads
<1>1. /\ UNCHANGED <<state, currentTerm, elected>>
      /\ state[n] = "leader"
      /\ UNCHANGED log \/ \E entry \in LogEntry : AppendsOwn(n, entry)
  BY ForwardClientAppends
<1>2. ASSUME NEW entry \in LogEntry, AppendsOwn(n, entry) PROVE Leads
  BY <1>1, <1>2, OwnEntry
<1> QED
  BY <1>1, <1>2, NothingChanges

LEMMA NextLeads ==
  ASSUME TypeOK, [Next]_vars
  PROVE  Leads
<1>1. ASSUME NEW n \in Server, HeardExpires(n) \/ Restart(n) \/ StopAndRun(n) PROVE Leads
  BY <1>1, NothingChanges, StepsDown DEF HeardExpires, Restart, StopAndRun
<1>2. CASE UNCHANGED vars
  BY <1>2, NothingChanges DEF vars
<1> QED
  BY <1>1, <1>2, ForwardAppendEntriesLeads, ForwardRequestVoteLeads,
     ForwardAppendEntriesReplyLeads, ForwardRequestVoteReplyLeads, ForwardTickLeads,
     ForwardClientLeads DEF Next

-----------------------------------------------------------------------------
LEMMA OwnTermInit == Init => LeaderLastEntryOwnTerm
BY DEF Init, InitWith, LeaderLastEntryOwnTerm

LEMMA OwnTermNext ==
  TypeOK /\ LeaderLastEntryOwnTerm /\ [Next]_vars => LeaderLastEntryOwnTerm'
<1> SUFFICES ASSUME TypeOK, LeaderLastEntryOwnTerm, [Next]_vars,
                    NEW s \in Server, state'[s] = "leader"
             PROVE  TermAt(log'[s], LastIndex(log'[s])) = currentTerm'[s]
  BY DEF LeaderLastEntryOwnTerm
<1>1. LeadsOn(s)
  BY NextLeads DEF Leads
<1>2. CASE state[s] = "leader" /\ log'[s] = log[s]
  BY <1>1, <1>2 DEF LeadsOn, LeaderLastEntryOwnTerm
<1>3. ASSUME NEW entry \in LogEntry, entry.term = currentTerm[s], log'[s] = Append(log[s], entry)
      PROVE  TermAt(log'[s], LastIndex(log'[s])) = currentTerm'[s]
  <2>1. log[s] \in Seq(LogEntry) /\ Len(log[s]) \in Nat
    BY DEF TypeOK, LogTypeOK
  <2>2. /\ Len(log'[s]) = Len(log[s]) + 1
        /\ log'[s][Len(log[s]) + 1] = entry
        /\ DOMAIN log'[s] = 1 .. Len(log[s]) + 1
    BY <1>3, <2>1
  <2> QED
    BY <1>1, <1>3, <2>1, <2>2 DEF LeadsOn, TermAt, HasEntry, EntryAt, LastIndex
<1> QED
  BY <1>1, <1>2, <1>3 DEF LeadsOn

\* The last entry of a leader's log is of the leader's term: entering the role
\* appends a no-op of the term (leader.go:13-24), every later entry is of it
\* (leader.go:142, 205, 283), and whoever changes term or log otherwise has
\* left the role (leader.go:71-76, 344-350).
THEOREM LeadersEndInOwnTerm == Spec => []LeaderLastEntryOwnTerm
BY OwnTermInit, OwnTermNext, TypeCorrect, PTL DEF Spec

LEMMA PrefixOfAppend ==
  ASSUME NEW S, NEW seq \in Seq(S), NEW e \in S
  PROVE  SubSeq(Append(seq, e), 1, Len(seq)) = seq
<1>1. \A i \in 1 .. Len(seq) : Append(seq, e)[i] = seq[i] /\ seq[i] \in S
  OBVIOUS
<1>2. /\ SubSeq(Append(seq, e), 1, Len(seq)) \in Seq(S)
      /\ Len(SubSeq(Append(seq, e), 1, Len(seq))) = Len(seq)
      /\ \A i \in 1 .. Len(seq) : SubSeq(Append(seq, e), 1, Len(seq))[i] = seq[i]
  BY <1>1, SubSeqProperties
<1> QED
  BY <1>2, SeqEqual

LEMMA LeaderGrows ==
  ASSUME TypeOK, [Next]_vars, NEW n \in Server, state'[n] = "leader"
  PROVE  /\ currentTerm'[n] = currentTerm[n]
         /\ Len(log'[n]) >= Len(log[n])
         /\ SubSeq(log'[n], 1, Len(log[n])) = log[n]
<1>1. LeadsOn(n)
  BY NextLeads DEF Leads
<1>2. log[n] \in Seq(LogEntry) /\ Len(log[n]) \in Nat
  BY DEF TypeOK, LogTypeOK
<1>3. CASE log'[n] = log[n]
  <2>1. SubSeq(log[n], 1, Len(log[n])) = log[n]
    BY <1>2, SubSeqFull
  <2> QED
    BY <1>1, <1>2, <1>3, <2>1 DEF LeadsOn
<1>4. ASSUME NEW entry \in LogEntry, log'[n] = Append(log[n], entry)
      PROVE  /\ Len(log'[n]) >= Len(log[n])
             /\ SubSeq(log'[n], 1, Len(log[n])) = log[n]
  <2>1. Len(log'[n]) = Len(log[n]) + 1
    BY <1>2, <1>4
  <2> QED
    BY <1>2, <1>4, <2>1, PrefixOfAppend
<1> QED
  BY <1>1, <1>2, <1>3, <1>4 DEF LeadsOn

\* A leader changes neither its term nor an entry of its log: all it does to the
\* log is to append (leader.go:22-24, 139, 202, 281); a truncation is always the
\* work of a follower.
THEOREM LeadersAppendOnly == Spec => LeaderAppendOnly
<1>1. TypeOK /\ [Next]_vars =>
        [\A n \in Server : state[n] = "leader" /\ state'[n] = "leader" =>
           /\ currentTerm'[n] = currentTerm[n]
           /\ Len(log'[n]) >= Len(log[n])
           /\ SubSeq(log'[n], 1, Len(log[n])) = log[n]]_vars
  BY LeaderGrows
<1> QED
  BY <1>1, TypeCorrect, PTL DEF Spec, LeaderAppendOnly

-----------------------------------------------------------------------------
(***************************************************************************)
(* Who has become leader.                                                  *)
(***************************************************************************)
ElectedInv ==
  /\ \A e \in elected : /\ e[1] <= currentTerm[e[2]]
                        /\ state[e[2]] = "candidate" => e[1] < currentTerm[e[2]]
  /\ \A s \in Server : state[s] = "leader" => <<currentTerm[s], s>> \in elected

LEMMA ElectedInit == Init => ElectedInv
BY DEF Init, InitWith, ElectedInv

LEMMA ElectedNext == TypeOK /\ ElectedInv /\ [Next]_vars => ElectedInv'
<1> SUFFICES ASSUME TypeOK, ElectedInv, [Next]_vars PROVE ElectedInv'
  OBVIOUS
<1>1. Leads /\ TermsGrow
  BY NextLeads, NextEffects DEF Effects
<1>2. \A s \in Server : currentTerm[s] \in Nat /\ currentTerm'[s] \in Nat
  BY TypeNext DEF TypeOK, ElectionTypeOK
<1>3. ASSUME NEW s \in Server, state'[s] = "leader" PROVE <<currentTerm'[s], s>> \in elected'
  BY <1>1, <1>3 DEF Leads, LeadsOn, Wins, ElectedInv
<1>4. ASSUME NEW e \in elected
      PROVE  /\ e[1] <= currentTerm'[e[2]]
             /\ state'[e[2]] = "candidate" => e[1] < currentTerm'[e[2]]
  <2>1. e[1] \in Nat /\ e[2] \in Server
    BY DEF TypeOK, HistoryTypeOK
  <2> QED
    BY <1>1, <1>2, <2>1 DEF Leads, RunsOn, TermsGrow, ElectedInv
<1>5. ASSUME NEW s \in Server, Wins(s)
      PROVE  currentTerm[s] <= currentTerm'[s] /\ state'[s] # "candidate"
  BY <1>2, <1>5 DEF Wins
<1>6. \A e \in elected' : /\ e[1] <= currentTerm'[e[2]]
                          /\ state'[e[2]] = "candidate" => e[1] < currentTerm'[e[2]]
  <2>1. CASE elected' = elected
    BY <1>4, <2>1
  <2>2. ASSUME NEW s \in Server, elected' = elected \union {<<currentTerm[s], s>>}, Wins(s)
        PROVE  \A e \in elected' : /\ e[1] <= currentTerm'[e[2]]
                                   /\ state'[e[2]] = "candidate" => e[1] < currentTerm'[e[2]]
    BY <1>4, <1>5, <2>2
  <2> QED
    BY <1>1, <2>1, <2>2 DEF Leads, Wins
<1> QED
  BY <1>3, <1>6 DEF ElectedInv

-----------------------------------------------------------------------------
(***************************************************************************)
(* The logs that have been written.  No variable remembers them; the       *)
(* invariant says that there is a set W of them.  Where two servers never  *)
(* lead in one term, the length of a log in W and the term of its last     *)
(* entry tell which log it is.                                             *)
(***************************************************************************)
\* an index and a term that name a cluster change of l
Describes(l, i, t) ==
  i >= 0 => HasEntry(l, i) /\ IsClusterChange(EntryAt(l, i)) /\ EntryAt(l, i).term = t

\* The record of every cluster change of l names an earlier one of l.
Chained(l) ==
  \A k \in DOMAIN l : IsClusterChange(l[k]) =>
    /\ RecordOf(l[k]).oldIndex < k - 1
    /\ Describes(l, RecordOf(l[k]).oldIndex, RecordOf(l[k]).oldTerm)

Written(W) ==
  /\ W \subseteq Seq(LogEntry)
  /\ << >> \in W
  /\ \A p \in W : \A k \in 0 .. Len(p) : SubSeq(p, 1, k) \in W
  /\ \A p \in W, q \in W :
       p # << >> /\ Len(p) = Len(q) /\ p[Len(p)].term = q[Len(q)].term => p = q
  /\ \A p \in W : Chained(p)

\* The last entry of a written log is of a term in which somebody led: whoever
\* still leads in it has all of that log.
Owned(W) ==
  \A p \in W : p # << >> =>
    \E n \in Server :
      /\ <<p[Len(p)].term, n>> \in elected
      /\ state[n] = "leader" /\ currentTerm[n] = p[Len(p)].term => Len(p) <= Len(log[n])

\* The entries of a request end a written log, and follow its previous entry.
Carried(m, W) ==
  m.entries # << >> =>
    \E p \in W :
      /\ Len(p) = m.prevLogIndex + 1 + Len(m.entries)
      /\ \A k \in 1 .. Len(m.entries) : m.entries[k] = p[m.prevLogIndex + 1 + k]
      /\ m.prevLogIndex >= 0 => p[m.prevLogIndex + 1].term = m.prevLogTerm

WrittenInv(W) ==
  /\ Written(W) /\ Owned(W)
  /\ \A n \in Server : log[n] \in W
  /\ \A m \in DOMAIN aeRequests : Carried(m, W)

LogInv == TypeOK /\ ElectedInv /\ ClusterChangeInLog /\ \E W : WrittenInv(W)

LEMMA PrefixFacts ==
  ASSUME NEW p \in Seq(LogEntry), NEW k \in 0 .. Len(p)
  PROVE  /\ SubSeq(p, 1, k) \in Seq(LogEntry)
         /\ Len(SubSeq(p, 1, k)) = k
         /\ \A i \in 1 .. k : SubSeq(p, 1, k)[i] = p[i]
<1>1. \A i \in 1 .. k : p[i] \in LogEntry
  BY LenProperties, ElementOfSeq
<1>2. 1 \in Int /\ k \in Int /\ k - 1 + 1 = k
  BY LenProperties
<1>3. /\ SubSeq(p, 1, k) \in Seq(LogEntry)
      /\ Len(SubSeq(p, 1, k)) = IF 1 <= k THEN k - 1 + 1 ELSE 0
      /\ \A i \in 1 .. k - 1 + 1 : SubSeq(p, 1, k)[i] = p[1 + i - 1]
  BY <1>1, <1>2, SubSeqProperties
<1>4. \A i \in 1 .. k : i \in 1 .. k - 1 + 1 /\ 1 + i - 1 = i
  BY <1>2
<1> QED
  BY <1>2, <1>3, <1>4

LEMMA SamePrefix ==
  ASSUME NEW W, Written(W), NEW p \in W, NEW q \in W, NEW i \in DOMAIN p \cap DOMAIN q,
         p[i].term = q[i].term
  PROVE  \A j \in 1 .. i : p[j] = q[j]
<1>1. p \in Seq(LogEntry) /\ q \in Seq(LogEntry)
  BY DEF Written
<1>2. i \in 1 .. i /\ i \in 0 .. Len(p) /\ i \in 0 .. Len(q)
  BY <1>1, LenProperties
<1> DEFINE pi == SubSeq(p, 1, i)
           qi == SubSeq(q, 1, i)
<1>3. pi \in W /\ qi \in W
  BY <1>2 DEF Written
<1>4. /\ Len(pi) = i /\ \A j \in 1 .. i : pi[j] = p[j]
      /\ Len(qi) = i /\ \A j \in 1 .. i : qi[j] = q[j]
  BY <1>1, <1>2, PrefixFacts
<1> HIDE DEF pi, qi
<1>5. pi # << >>
  BY <1>2, <1>4
<1>6. pi = qi
  BY <1>2, <1>3, <1>4, <1>5 DEF Written
<1> QED
  BY <1>4, <1>6

\* An entry that follows a written log gives a written log.
LEMMA GrownWritten ==
  ASSUME NEW W, Written(W), NEW l \in W, NEW e \in LogEntry,
         Chained(Append(l, e)),
         \A q \in W : Len(q) = Len(l) + 1 => q[Len(q)].term # e.term
  PROVE  Written(W \union {Append(l, e)})
<1> DEFINE longer == Append(l, e)
           V == W \union {longer}
<1>1. l \in Seq(LogEntry) /\ Len(l) \in Nat
  BY LenProperties DEF Written
<1>2. /\ longer \in Seq(LogEntry) /\ Len(longer) = Len(l) + 1
      /\ \A j \in 1 .. Len(l) : longer[j] = l[j]
      /\ longer[Len(l) + 1] = e
  BY <1>1, AppendProperties
<1>3. Chained(longer)
  OBVIOUS
<1> HIDE DEF longer
<1>4. ASSUME NEW k \in 0 .. Len(longer) PROVE SubSeq(longer, 1, k) \in V
  <2>1. CASE k = Len(longer)
    BY <1>2, <2>1, SubSeqFull
  <2>2. CASE k # Len(longer)
    <3>1. k \in 0 .. Len(l)
      BY <1>1, <1>2, <2>2
    <3>2. /\ SubSeq(l, 1, k) \in Seq(LogEntry) /\ Len(SubSeq(l, 1, k)) = k
          /\ \A j \in 1 .. k : SubSeq(l, 1, k)[j] = l[j]
      BY <1>1, <3>1, PrefixFacts
    <3>3. /\ SubSeq(longer, 1, k) \in Seq(LogEntry) /\ Len(SubSeq(longer, 1, k)) = k
          /\ \A j \in 1 .. k : SubSeq(longer, 1, k)[j] = longer[j]
      BY <1>2, PrefixFacts
    <3>4. \A j \in 1 .. k : j \in 1 .. Len(l)
      BY <1>1, <3>1
    <3>5. SubSeq(longer, 1, k) = SubSeq(l, 1, k)
      <4>1. \A j \in 1 .. k : SubSeq(longer, 1, k)[j] = SubSeq(l, 1, k)[j]
        BY <1>2, <3>2, <3>3, <3>4
      <4> QED
        BY <3>2, <3>3, <4>1, SeqEqual
    <3>6. SubSeq(l, 1, k) \in W
      BY <3>1 DEF Written
    <3> QED
      BY <3>5, <3>6
  <2> QED
    BY <2>1, <2>2
<1>5. \A p \in V : \A k \in 0 .. Len(p) : SubSeq(p, 1, k) \in V
  BY <1>4 DEF Written
<1>6. V \subseteq Seq(LogEntry) /\ << >> \in V /\ \A p \in V : Chained(p)
  BY <1>2, <1>3 DEF Written
<1>7. \A q \in W : Len(q) = Len(longer) => q[Len(q)].term # longer[Len(longer)].term
  BY <1>2
<1>8. \A p \in V, q \in V :
        p # << >> /\ Len(p) = Len(q) /\ p[Len(p)].term = q[Len(q)].term => p = q
  BY <1>7 DEF Written
<1> HIDE DEF V
<1>9. Written(V)
  BY <1>5, <1>6, <1>8 DEF Written
<1> QED
  BY <1>9 DEF V, longer

\* Its record names a cluster change of the log it follows.
LEMMA GrownChained ==
  ASSUME NEW l \in Seq(LogEntry), NEW e \in LogEntry, NEW change,
         change.index \in Int, Chained(l), PointsAt(e, change),
         Describes(l, change.index, change.term)
  PROVE  Chained(Append(l, e))
<1> DEFINE longer == Append(l, e)
<1>1. Len(l) \in Nat /\ DOMAIN l = 1 .. Len(l) /\ \A j \in DOMAIN l : l[j] \in LogEntry
  BY LenProperties, ElementOfSeq
<1>2. /\ longer \in Seq(LogEntry) /\ Len(longer) = Len(l) + 1
      /\ \A j \in 1 .. Len(l) : longer[j] = l[j]
      /\ longer[Len(l) + 1] = e
  BY AppendProperties
<1>3. DOMAIN longer = 1 .. Len(l) + 1
  BY <1>2, LenProperties
<1> HIDE DEF longer
<1>4. ASSUME NEW i \in Int, NEW t, Describes(l, i, t) PROVE Describes(longer, i, t)
  <2>1. i >= 0 => i + 1 \in 1 .. Len(l) /\ i + 1 \in DOMAIN longer
    BY <1>1, <1>3, <1>4 DEF Describes, HasEntry
  <2> QED
    BY <1>2, <1>4, <2>1 DEF Describes, HasEntry, EntryAt
<1>5. \A k \in DOMAIN l : RecordOf(l[k]).oldIndex \in Int
  BY <1>1, EntryFields DEF ClusterChangeCommand
<1>6. ASSUME NEW k \in DOMAIN longer, IsClusterChange(longer[k])
      PROVE  /\ RecordOf(longer[k]).oldIndex < k - 1
             /\ Describes(longer, RecordOf(longer[k]).oldIndex, RecordOf(longer[k]).oldTerm)
  <2>1. CASE k \in DOMAIN l
    <3>1. longer[k] = l[k]
      BY <1>1, <1>2, <2>1
    <3> QED
      BY <1>4, <1>5, <1>6, <2>1, <3>1 DEF Chained
  <2>2. CASE k \notin DOMAIN l
    <3>1. k = Len(l) + 1 /\ longer[k] = e
      BY <1>1, <1>2, <1>3, <2>2
    <3>2. change.index < Len(l)
      BY <1>1 DEF Describes, HasEntry
    <3>3. RecordOf(e).oldIndex = change.index /\ RecordOf(e).oldTerm = change.term
      BY <1>6, <3>1 DEF PointsAt
    <3> QED
      BY <1>1, <1>4, <3>1, <3>2, <3>3
  <2> QED
    BY <2>1, <2>2
<1>7. Chained(longer)
  BY <1>6 DEF Chained
<1> QED
  BY <1>7 DEF longer

\* A leader sends the end of its own log.
LEMMA SentCarried ==
  ASSUME TypeOK, NEW W, NEW n \in Server, log[n] \in W, NEW a \in Server, NEW from \in Nat
  PROVE  Carried(AppendEntriesTo(n, a, from, TermAt(log[n], from - 1)), W)
<1> DEFINE m == AppendEntriesTo(n, a, from, TermAt(log[n], from - 1))
           l == log[n]
<1>1. /\ l \in Seq(LogEntry) /\ Len(l) \in Nat /\ DOMAIN l = 1 .. Len(l)
  BY LogFields
<1>2. /\ TermAt(l, from - 1) \in Nat \union {-1}
      /\ HasEntry(l, from - 1) => TermAt(l, from - 1) = l[from].term
  BY <1>1, TermAtType, from - 1 + 1 = from
<1>3. /\ m.entries \in Seq(LogEntry)
      /\ \A k \in 1 .. Len(m.entries) : m.entries[k] = l[from + k]
      /\ m.prevLogIndex = from - 1 /\ m.prevLogTerm = TermAt(l, from - 1)
  BY <1>2, AppendEntriesToType DEF TypeOK, AppendEntriesRequest
<1>4. Len(m.entries) = IF from <= LastIndex(l) THEN LastIndex(l) - from + 1 ELSE 0
  <2>1. m.entries = EntriesFrom(l, from, LastIndex(l))
    BY DEF AppendEntriesTo
  <2>2. LastIndex(l) \in Int /\ LastIndex(l) <= LastIndex(l)
    BY <1>1 DEF LastIndex
  <2> QED
    BY <1>1, <2>1, <2>2, EntriesFromType
<1> HIDE DEF m
<1>5. ASSUME m.entries # << >>
      PROVE  /\ Len(l) = m.prevLogIndex + 1 + Len(m.entries)
             /\ \A k \in 1 .. Len(m.entries) : m.entries[k] = l[m.prevLogIndex + 1 + k]
             /\ m.prevLogIndex >= 0 => l[m.prevLogIndex + 1].term = m.prevLogTerm
  <2>1. Len(m.entries) # 0
    BY <1>3, <1>5, EmptySeq
  <2>2. from <= LastIndex(l) /\ Len(m.entries) = LastIndex(l) - from + 1
    BY <1>4, <2>1
  <2>3. Len(l) = from + Len(m.entries) /\ m.prevLogIndex + 1 = from
    BY <1>1, <1>3, <2>2 DEF LastIndex
  <2>4. m.prevLogIndex >= 0 => HasEntry(l, from - 1)
    BY <1>1, <1>3, <2>2 DEF LastIndex, HasEntry
  <2> QED
    BY <1>2, <1>3, <2>3, <2>4
<1>6. Carried(m, W)
  BY <1>5 DEF Carried
<1> QED
  BY <1>6 DEF m

\* What a follower takes over leaves it with the log the leader sent the end of.
LEMMA TakenOverWritten ==
  ASSUME TypeOK, NEW W, Written(W), NEW m \in DOMAIN aeRequests, Carried(m, W),
         log[m.to] \in W, Matches(m.to, m), AppendEntriesToLog(m.to, m), m.entries # << >>
  PROVE  log'[m.to] \in W
<1> DEFINE n == m.to
           prev == m.prevLogIndex
           l == log[n]
           new == log'[n]
<1>1. n \in Server /\ prev \in Nat \union {-1} /\ m.entries \in Seq(LogEntry)
  BY AppendRequestFields DEF TypeOK
<1>2. Len(m.entries) \in Nat \ {0}
  BY <1>1, LenProperties, EmptySeq
<1>3. /\ new \in Seq(LogEntry)
      /\ Len(new) = prev + 1 + Len(m.entries)
      /\ \A k \in 1 .. prev + 1 : new[k] = l[k]
      /\ \A k \in 1 .. Len(m.entries) : new[prev + 1 + k] = m.entries[k]
      /\ prev <= LastIndex(l)
  BY <1>1, AppendEntriesToLogEffect DEF TypeOK
<1>4. /\ l \in Seq(LogEntry) /\ Len(l) \in Nat /\ DOMAIN l = 1 .. Len(l)
      /\ HasEntry(l, prev) => TermAt(l, prev) = l[prev + 1].term
  BY <1>1, LogFields, TermAtType
<1>5. PICK p \in W :
        /\ Len(p) = prev + 1 + Len(m.entries)
        /\ \A k \in 1 .. Len(m.entries) : m.entries[k] = p[prev + 1 + k]
        /\ prev >= 0 => p[prev + 1].term = m.prevLogTerm
  BY DEF Carried
<1>6. p \in Seq(LogEntry) /\ DOMAIN p = 1 .. Len(p)
  BY LenProperties DEF Written
<1> HIDE DEF new, prev, l, n
<1>7. \A k \in 1 .. prev + 1 : l[k] = p[k]
  <2>1. CASE prev >= 0
    <3>1. HasEntry(l, prev) /\ TermAt(l, prev) = m.prevLogTerm
      BY <1>1, <2>1 DEF Matches, l, n, prev
    <3>2. prev + 1 \in DOMAIN l \cap DOMAIN p
      <4>1. prev + 1 \in 1 .. (prev + 1) + Len(m.entries)
        <5>1. prev + 1 \in Nat /\ prev + 1 > 0 /\ Len(m.entries) \in Nat
          BY <1>1, <1>2, <2>1
        <5> QED
          BY <5>1, IndexOfFirst, Zenon
      <4> QED
        BY <1>5, <1>6, <3>1, <4>1 DEF HasEntry
    <3>3. l[prev + 1].term = p[prev + 1].term
      BY <1>4, <1>5, <2>1, <3>1
    <3>4. l \in W
      BY DEF l, n
    <3> QED
      BY <3>2, <3>3, <3>4, SamePrefix
  <2> QED
    BY <1>1, <2>1
<1>8. ASSUME NEW k \in 1 .. Len(new) PROVE new[k] = p[k]
  <2>1. CASE k <= prev + 1
    <3>1. k \in 1 .. prev + 1
      BY <1>1, <1>2, <1>3, <2>1
    <3> QED
      BY <1>3, <1>7, <3>1
  <2>2. CASE ~(k <= prev + 1)
    <3>1. k - (prev + 1) \in 1 .. Len(m.entries) /\ (prev + 1) + (k - (prev + 1)) = k
      <4>1. prev + 1 \in Nat /\ Len(m.entries) \in Nat
        BY <1>1, <1>2
      <4>2. Len(new) = (prev + 1) + Len(m.entries)
        BY <1>3
      <4>3. k \in 1 .. (prev + 1) + Len(m.entries)
        BY <4>2, Zenon
      <4> QED
        BY <2>2, <4>1, <4>3, IndexOfBoth, Zenon
    <3>2. new[prev + 1 + (k - (prev + 1))] = p[prev + 1 + (k - (prev + 1))]
      BY <1>3, <1>5, <3>1
    <3> QED
      BY <3>1, <3>2
  <2> QED
    BY <2>1, <2>2
<1>9. new = p
  BY <1>3, <1>5, <1>6, <1>8, SeqEqual
<1> QED
  BY <1>9 DEF new, n

-----------------------------------------------------------------------------
(***************************************************************************)
(* The search for an earlier configuration: each step goes to a cluster    *)
(* change of the log that is nearer its beginning, so it stops in time.    *)
(***************************************************************************)
LEMMA RewindDescribes ==
  ASSUME NEW l \in Seq(LogEntry), Chained(l), NEW prev \in Nat \union {-1},
         NEW c, c.index \in Int, Describes(l, c.index, c.term)
  PROVE  /\ Rewind(l, prev, c).index \in Int
         /\ Rewind(l, prev, c).index <= prev
         /\ Describes(l, Rewind(l, prev, c).index, Rewind(l, prev, c).term)
<1> DEFINE Near(k, x) == /\ x.index \in Int
                         /\ Describes(l, x.index, x.term)
                         /\ x.index <= prev \/ x.index <= LastIndex(l) - k
           G == [k \in Nat |-> {x \in {c} \union
                                  {[index |-> RecordOf(l[i]).oldIndex,
                                    term |-> RecordOf(l[i]).oldTerm,
                                    cluster |-> RecordOf(l[i]).oldCluster] : i \in DOMAIN l} :
                                Near(k, x)}]
<1>1. /\ Len(l) \in Nat /\ DOMAIN l = 1 .. Len(l)
      /\ \A i \in DOMAIN l : RecordOf(l[i]).oldIndex \in Int
  BY LenProperties, ElementOfSeq, EntryFields DEF ClusterChangeCommand
<1>2. c \in G[0]
  <2>1. c.index <= prev \/ c.index <= LastIndex(l) - 0
    BY <1>1 DEF Describes, HasEntry, LastIndex
  <2> QED
    BY <2>1
<1>3. ASSUME NEW k \in Nat, NEW x \in G[k] PROVE RewindStep(l, prev, x) \in G[k + 1]
  <2>1. Near(k, x)
    OBVIOUS
  <2>2. CASE x.index > prev /\ HasEntry(l, x.index)
    <3> DEFINE i == x.index + 1
               y == [index |-> RecordOf(l[i]).oldIndex,
                     term |-> RecordOf(l[i]).oldTerm,
                     cluster |-> RecordOf(l[i]).oldCluster]
    <3>1. x.index >= 0 /\ i \in DOMAIN l /\ IsClusterChange(l[i])
      BY <2>1, <2>2 DEF Describes, HasEntry, EntryAt
    <3>2. RewindStep(l, prev, x) = y
      BY <2>2 DEF RewindStep, EntryAt
    <3>3. y.index < i - 1 /\ y.index \in Int /\ Describes(l, y.index, y.term)
      BY <1>1, <3>1 DEF Chained
    <3>4. y.index <= LastIndex(l) - (k + 1)
      BY <1>1, <2>1, <2>2, <3>3 DEF LastIndex
    <3>5. Near(k + 1, y)
      BY <3>3, <3>4
    <3> QED
      BY <3>1, <3>2, <3>5
  <2>3. CASE ~(x.index > prev /\ HasEntry(l, x.index))
    <3>1. RewindStep(l, prev, x) = x
      BY <2>3 DEF RewindStep
    <3>2. x.index <= prev
      BY <2>1, <2>3 DEF Describes
    <3>3. Near(k + 1, x)
      BY <2>1, <3>2
    <3> QED
      BY <3>1, <3>3
  <2> QED
    BY <2>2, <2>3
<1> DEFINE r == Rewind(l, prev, c)
<1> HIDE DEF G
<1>4. r \in G[Len(l) + 1]
  BY <1>1, <1>2, <1>3, RewindReaches
<1>5. Near(Len(l) + 1, r)
  BY <1>1, <1>4 DEF G
<1>6. r.index <= prev
  BY <1>1, <1>5 DEF LastIndex
<1> QED
  BY <1>5, <1>6

LEMMA RewoundDescribed ==
  ASSUME TypeOK, NEW n \in Server, Chained(log[n]),
         Describes(log[n], clusterChange[n].index, clusterChange[n].term),
         NEW prev \in Nat \union {-1}
  PROVE  /\ Rewound(n, prev).index \in Int
         /\ Rewound(n, prev).index <= prev
         /\ Describes(log[n], Rewound(n, prev).index, Rewound(n, prev).term)
<1> DEFINE c == CurrentConfiguration(n)
<1>1. c.index = clusterChange[n].index /\ c.term = clusterChange[n].term
  BY DEF CurrentConfiguration
<1>2. c.index \in Int /\ log[n] \in Seq(LogEntry)
  BY <1>1 DEF TypeOK, ClusterTypeOK, LogTypeOK
<1> HIDE DEF c
<1>3. /\ Rewind(log[n], prev, c).index \in Int
      /\ Rewind(log[n], prev, c).index <= prev
      /\ Describes(log[n], Rewind(log[n], prev, c).index, Rewind(log[n], prev, c).term)
  BY <1>1, <1>2, RewindDescribes
<1> QED
  BY <1>3 DEF Rewound, c

\* A follower that takes over entries: its configuration is that of the newest
\* cluster change among them, the one it had, or the one the rewind found.
LEMMA ConfiguredDescribed ==
  ASSUME TypeOK, NEW m \in DOMAIN aeRequests, TakesOver(m), Chained(log[m.to]),
         Describes(log[m.to], clusterChange[m.to].index, clusterChange[m.to].term)
  PROVE  /\ Describes(log'[m.to], clusterChange'[m.to].index, clusterChange'[m.to].term)
         /\ \A s \in Server \ {m.to} : clusterChange'[s] = clusterChange[s] /\ log'[s] = log[s]
<1> DEFINE n == m.to
           prev == m.prevLogIndex
           l == log[n]
           new == log'[n]
           rewound == Rewound(n, prev)
           changes == {k \in DOMAIN m.entries : IsClusterChange(m.entries[k])}
           deleted == m.entries # << >> /\ clusterChange[n].index > prev
<1>1. /\ n \in Server /\ prev \in Nat \union {-1} /\ m.entries \in Seq(LogEntry)
      /\ Len(m.entries) \in Nat /\ DOMAIN m.entries = 1 .. Len(m.entries)
  BY AppendRequestFields, LenProperties DEF TypeOK
<1>2. /\ new \in Seq(LogEntry) /\ DOMAIN new = 1 .. Len(new) /\ Len(new) \in Nat
      /\ \A s \in Server \ {n} : log'[s] = log[s]
      /\ m.entries = << >> => log' = log
      /\ m.entries # << >> =>
           /\ Len(new) = prev + 1 + Len(m.entries)
           /\ \A k \in 1 .. prev + 1 : new[k] = l[k]
           /\ \A k \in 1 .. Len(m.entries) : new[prev + 1 + k] = m.entries[k]
  <2>1. log' \in [Server -> Seq(LogEntry)]
    BY <1>1, AppendEntriesToLogEffect DEF TakesOver, TypeOK
  <2> QED
    BY <1>1, <2>1, AppendEntriesToLogEffect, LenProperties DEF TakesOver, TypeOK
<1>3. /\ rewound.index \in Int /\ rewound.index <= prev
      /\ Describes(l, rewound.index, rewound.term)
  BY <1>1, RewoundDescribed
<1>4. clusterChange[n].index \in Int /\ clusterChange \in [Server -> [index : Int, term : Int]]
  BY <1>1 DEF TypeOK, ClusterTypeOK
<1>5. ConfigureFrom(n, m, rewound)
  BY DEF TakesOver, ConfigureFromEntries
<1> HIDE DEF n, prev, l, new, rewound
<1>6. ASSUME NEW i \in Int, NEW t, Describes(l, i, t), m.entries = << >> \/ i <= prev
      PROVE  Describes(new, i, t)
  <2>1. CASE m.entries = << >>
    BY <1>2, <1>6, <2>1 DEF l, new
  <2>2. CASE m.entries # << >> /\ i >= 0
    <3>1. i + 1 \in 1 .. prev + 1 /\ i + 1 \in DOMAIN new
      <4>1. i + 1 \in 1 .. prev + 1
        BY <1>1, <1>6, <2>2
      <4>2. Len(new) = prev + 1 + Len(m.entries)
        BY <1>2, <2>2
      <4>3. Len(new) \in Nat
        BY <1>2
      <4>4. prev \in Int /\ Len(m.entries) \in Nat
        BY <1>1
      <4>5. i + 1 \in Int /\ 1 <= i + 1 /\ i + 1 <= prev + 1
        BY <4>1, <4>4
      <4>6. \A a \in Int, b \in Int, c \in Nat, d \in Nat : a <= b + 1 /\ d = b + 1 + c => a <= d
        OBVIOUS
      <4>7. i + 1 <= Len(new)
        BY <4>2, <4>3, <4>4, <4>5, <4>6, Zenon
      <4>8. i + 1 \in 1 .. Len(new)
        BY <4>3, <4>5, <4>7
      <4> QED
        BY <1>2, <4>1, <4>8
    <3>2. new[i + 1] = l[i + 1]
      BY <1>2, <2>2, <3>1
    <3> QED
      BY <1>6, <2>2, <3>1, <3>2 DEF Describes, HasEntry, EntryAt
  <2>3. CASE ~(i >= 0)
    BY <2>3 DEF Describes
  <2> QED
    BY <2>1, <2>2, <2>3
<1>7. CASE changes = {} /\ ~deleted
  <2>1. clusterChange' = clusterChange
    BY <1>5, <1>7 DEF ConfigureFrom, prev, clusterVars
  <2>2. m.entries = << >> \/ clusterChange[n].index <= prev
    BY <1>1, <1>4, <1>7
  <2> QED
    BY <1>2, <1>4, <1>6, <2>1, <2>2 DEF l, n, new
<1>8. CASE changes = {} /\ deleted
  <2>1. clusterChange' = [clusterChange EXCEPT ![n] = [index |-> rewound.index, term |-> rewound.term]]
    BY <1>5, <1>8 DEF ConfigureFrom, prev
  <2>2. /\ clusterChange'[n].index = rewound.index /\ clusterChange'[n].term = rewound.term
        /\ \A s \in Server \ {n} : clusterChange'[s] = clusterChange[s]
    BY <1>1, <1>4, <2>1
  <2> QED
    BY <1>2, <1>3, <1>6, <2>2 DEF n, new
<1>9. CASE changes # {}
  <2>1. PICK k \in changes :
          clusterChange' = [clusterChange EXCEPT ![n] =
            [index |-> IndexOfEntry(m, k), term |-> m.entries[k].term]]
    BY <1>5, <1>9 DEF ConfigureFrom
  <2>2. /\ clusterChange'[n].index = prev + k /\ clusterChange'[n].term = m.entries[k].term
        /\ \A s \in Server \ {n} : clusterChange'[s] = clusterChange[s]
    BY <1>1, <1>4, <2>1 DEF IndexOfEntry, prev
  <2>3. k \in 1 .. Len(m.entries) /\ IsClusterChange(m.entries[k]) /\ m.entries # << >>
    BY <1>1
  <2>4. prev + 1 + k \in DOMAIN new /\ new[prev + 1 + k] = m.entries[k] /\ prev + k + 1 = prev + 1 + k
    <3>1. /\ Len(new) = prev + 1 + Len(m.entries)
          /\ new[prev + 1 + k] = m.entries[k]
      BY <1>2, <2>3
    <3>2. /\ prev + 1 + k \in 1 .. prev + 1 + Len(m.entries)
          /\ prev + k + 1 = prev + 1 + k
      <4>1. prev \in Int /\ prev >= -1 /\ Len(m.entries) \in Nat
        BY <1>1
      <4> QED
        BY <2>3, <4>1, IndexOfSecond, Zenon
    <3>3. DOMAIN new = 1 .. Len(new)
      BY <1>2, <2>3
    <3> QED
      BY <3>1, <3>2, <3>3, Zenon
  <2>5. Describes(new, prev + k, m.entries[k].term)
    BY <2>3, <2>4 DEF Describes, HasEntry, EntryAt
  <2> QED
    BY <1>2, <2>2, <2>5 DEF n, new
<1> QED
  BY <1>7, <1>8, <1>9

-----------------------------------------------------------------------------
(* One step: the set of written logs grows by what a leader appends. *)

\* What a step leaves of W: every written log stays owned.
LEMMA StillOwned ==
  ASSUME TypeOK, ElectedInv, [Next]_vars, NEW W, Owned(W), W \subseteq Seq(LogEntry)
  PROVE  Owned(W)'
<1>1. Leads
  BY NextLeads
<1>2. ASSUME NEW p \in W, p # << >>
      PROVE  \E n \in Server :
               /\ <<p[Len(p)].term, n>> \in elected'
               /\ state'[n] = "leader" /\ currentTerm'[n] = p[Len(p)].term => Len(p) <= Len(log'[n])
  <2>1. PICK n \in Server :
          /\ <<p[Len(p)].term, n>> \in elected
          /\ state[n] = "leader" /\ currentTerm[n] = p[Len(p)].term => Len(p) <= Len(log[n])
    BY <1>2 DEF Owned
  <2>2. <<p[Len(p)].term, n>> \in elected'
    BY <1>1, <2>1 DEF Leads, Wins
  <2>3. ASSUME state'[n] = "leader", currentTerm'[n] = p[Len(p)].term
        PROVE  Len(p) <= Len(log'[n])
    <3>1. currentTerm[n] = p[Len(p)].term /\ (state[n] = "leader" \/ state[n] = "candidate")
      BY <1>1, <2>3 DEF Leads, LeadsOn, Wins
    <3>2. state[n] # "candidate"
      <4>1. currentTerm[n] \in Nat
        BY LogFields
      <4>2. state[n] = "candidate" => currentTerm[n] < currentTerm[n]
        BY <2>1, <3>1 DEF ElectedInv
      <4> QED
        BY <4>1, <4>2
    <3>3. Len(log[n]) <= Len(log'[n])
      BY <2>3, LeaderGrows
    <3>4. Len(p) \in Nat /\ Len(log[n]) \in Nat /\ Len(log'[n]) \in Nat
      <4>1. log'[n] \in Seq(LogEntry) /\ log[n] \in Seq(LogEntry)
        BY TypeNext DEF TypeOK, LogTypeOK
      <4> QED
        BY <4>1, LenProperties
    <3> QED
      BY <2>1, <3>1, <3>2, <3>3, <3>4
  <2> QED
    BY <2>1, <2>2, <2>3
<1> QED
  BY <1>2 DEF Owned

\* Every request is carried by what carried the requests before it or is sent.
LEMMA StillCarried ==
  ASSUME TypeOK, [Next]_vars, NEW W, WrittenInv(W)
  PROVE  \A m \in DOMAIN aeRequests' : Carried(m, W)
<1>1. RequestsSent
  BY NextEffects DEF Effects
<1>2. ASSUME NEW m, m.entries = << >> PROVE Carried(m, W)
  BY <1>2 DEF Carried
<1>3. \A n \in Server : log[n] \in W
  BY DEF WrittenInv
<1> QED
  BY <1>1, <1>2, <1>3, SentCarried DEF RequestsSent, WrittenInv

LEMMA AppendedWritten ==
  ASSUME TypeOK, ElectedInv, ElectionSafety', ClusterChangeInLog, [Next]_vars,
         NEW W, WrittenInv(W),
         NEW n \in Server, NEW entry \in LogEntry, AppendsOwn(n, entry), state'[n] = "leader",
         NEW V, V = W \union {Append(log[n], entry)}
  PROVE  WrittenInv(V)' /\ ClusterChangeInLog'
<1> DEFINE l == log[n]
           longer == Append(l, entry)
<1>1. /\ l \in Seq(LogEntry) /\ l \in W /\ Len(l) \in Nat /\ currentTerm[n] \in Nat
      /\ DOMAIN l = 1 .. Len(l)
  BY LogFields DEF WrittenInv
<1>2. /\ longer \in Seq(LogEntry) /\ Len(longer) = Len(l) + 1
      /\ \A j \in 1 .. Len(l) : longer[j] = l[j]
      /\ longer[Len(l) + 1] = entry /\ longer # << >>
      /\ DOMAIN longer = 1 .. Len(l) + 1
  BY <1>1, AppendProperties, LenProperties
<1>3. /\ log' = [log EXCEPT ![n] = longer] /\ log'[n] = longer
      /\ \A s \in Server \ {n} : log'[s] = log[s]
      /\ currentTerm' = currentTerm /\ clusterChange' = clusterChange
      /\ entry.term = currentTerm[n] /\ PointsAt(entry, clusterChange[n])
  BY DEF AppendsOwn, TypeOK, LogTypeOK
<1>4. Leads /\ ElectedInv'
  BY NextLeads, ElectedNext
<1>5. <<currentTerm[n], n>> \in elected'
  BY <1>3, <1>4 DEF ElectedInv
<1>6. state[n] = "leader" \/ state[n] = "candidate"
  BY <1>4 DEF Leads, LeadsOn, Wins
<1>7. Written(W) /\ Owned(W)
  BY DEF WrittenInv
<1>8. ASSUME NEW q \in W, Len(q) = Len(l) + 1 PROVE q[Len(q)].term # entry.term
  <2> SUFFICES ASSUME q[Len(q)].term = currentTerm[n] PROVE FALSE
    BY <1>3
  <2>1. q # << >>
    BY <1>1, <1>8
  <2>2. PICK s \in Server :
          /\ <<currentTerm[n], s>> \in elected
          /\ state[s] = "leader" /\ currentTerm[s] = currentTerm[n] => Len(q) <= Len(log[s])
    BY <1>7, <2>1 DEF Owned
  <2>3. <<currentTerm[n], s>> \in elected'
    BY <1>4, <2>2 DEF Leads, Wins
  <2>4. s = n
    BY <1>5, <2>3 DEF ElectionSafety
  <2>5. state[n] # "candidate"
    <3>1. state[n] = "candidate" => currentTerm[n] < currentTerm[n]
      BY <2>2, <2>4 DEF ElectedInv
    <3> QED
      BY <1>1, <3>1
  <2> QED
    BY <1>1, <1>6, <1>8, <2>2, <2>4, <2>5
<1>9. Describes(l, clusterChange[n].index, clusterChange[n].term) /\ clusterChange[n].index \in Int
  BY DEF ClusterChangeInLog, Describes, TypeOK, ClusterTypeOK
<1>10. Chained(l) /\ Chained(longer)
  <2>1. Chained(l)
    BY <1>1, <1>7 DEF Written
  <2> QED
    BY <1>1, <1>3, <1>9, <2>1, GrownChained
<1>11. Written(V)
  BY <1>1, <1>7, <1>8, <1>10, GrownWritten
<1>12. Owned(V)'
  <2>1. Owned(W)'
    BY <1>7, StillOwned DEF Written
  <2>2. <<longer[Len(longer)].term, n>> \in elected' /\ Len(longer) <= Len(log'[n])
    BY <1>1, <1>2, <1>3, <1>5
  <2>3. V = W \union {longer}
    OBVIOUS
  <2> HIDE DEF longer
  <2> QED
    BY <2>1, <2>2, <2>3 DEF Owned
<1>13. \A s \in Server : log'[s] \in V
  BY <1>3 DEF WrittenInv
<1>14. \A m \in DOMAIN aeRequests' : Carried(m, V)
  BY StillCarried DEF Carried
<1>15. ClusterChangeInLog'
  <2>1. \A s \in Server \ {n} : clusterChange'[s] = clusterChange[s] /\ log'[s] = log[s]
    BY <1>3
  <2>2. Describes(log'[n], clusterChange'[n].index, clusterChange'[n].term)
    <3>1. clusterChange[n].index >= 0 =>
            clusterChange[n].index + 1 \in 1 .. Len(l) /\ clusterChange[n].index + 1 \in DOMAIN longer
      BY <1>1, <1>2, <1>9 DEF Describes, HasEntry
    <3> QED
      BY <1>2, <1>3, <1>9, <3>1 DEF Describes, HasEntry, EntryAt
  <2> QED
    BY <2>1, <2>2 DEF ClusterChangeInLog, Describes
<1>16. WrittenInv(V)'
  BY <1>11, <1>12, <1>13, <1>14 DEF WrittenInv
<1> QED
  BY <1>15, <1>16

LEMMA TakenOverStaysWritten ==
  ASSUME TypeOK, ElectedInv, ClusterChangeInLog, [Next]_vars, NEW W, WrittenInv(W),
         NEW m \in DOMAIN aeRequests, TakesOver(m)
  PROVE  WrittenInv(W)' /\ ClusterChangeInLog'
<1> DEFINE n == m.to
<1>1. n \in Server
  BY AppendRequestFields DEF TypeOK
<1>2. Written(W) /\ Owned(W) /\ Carried(m, W) /\ \A s \in Server : log[s] \in W
  BY DEF WrittenInv
<1>3. Chained(log[n])
  BY <1>1, <1>2 DEF Written
<1>4. Describes(log[n], clusterChange[n].index, clusterChange[n].term)
  BY <1>1 DEF ClusterChangeInLog, Describes
<1>5. /\ Describes(log'[n], clusterChange'[n].index, clusterChange'[n].term)
      /\ \A s \in Server \ {n} : clusterChange'[s] = clusterChange[s] /\ log'[s] = log[s]
  BY <1>3, <1>4, ConfiguredDescribed
<1>6. log'[n] \in W
  <2>1. CASE m.entries = << >>
    BY <1>1, <1>2, <2>1 DEF TakesOver, AppendEntriesToLog
  <2>2. CASE m.entries # << >>
    BY <1>1, <1>2, <2>2, TakenOverWritten DEF TakesOver
  <2> QED
    BY <2>1, <2>2
<1>7. \A s \in Server : log'[s] \in W
  BY <1>2, <1>5, <1>6
<1>8. Owned(W)'
  BY <1>2, StillOwned DEF Written
<1>9. \A q \in DOMAIN aeRequests' : Carried(q, W)
  BY StillCarried
<1>10. ClusterChangeInLog'
  BY <1>5 DEF ClusterChangeInLog, Describes
<1> QED
  BY <1>2, <1>7, <1>8, <1>9, <1>10 DEF WrittenInv

LEMMA LogNext == ElectionSafety /\ ElectionSafety' /\ LogInv /\ [Next]_vars => LogInv'
<1> SUFFICES ASSUME ElectionSafety', LogInv, [Next]_vars PROVE LogInv'
  OBVIOUS
<1>1. TypeOK /\ ElectedInv /\ ClusterChangeInLog
  BY DEF LogInv
<1>2. PICK W : WrittenInv(W)
  BY DEF LogInv
<1>3. TypeOK' /\ ElectedInv'
  BY <1>1, TypeNext, ElectedNext
<1>4. LogChanges
  BY <1>1, NextEffects DEF Effects
<1>5. CASE UNCHANGED <<log, peers, clusterChange>>
  <2>1. Written(W) /\ Owned(W) /\ \A s \in Server : log'[s] \in W
    BY <1>2, <1>5 DEF WrittenInv
  <2>2. Owned(W)'
    BY <1>1, <2>1, StillOwned DEF Written
  <2>3. \A m \in DOMAIN aeRequests' : Carried(m, W)
    BY <1>1, <1>2, StillCarried
  <2>4. WrittenInv(W)'
    BY <2>1, <2>2, <2>3 DEF WrittenInv
  <2>5. ClusterChangeInLog'
    BY <1>1, <1>5 DEF ClusterChangeInLog
  <2> QED
    BY <1>3, <2>4, <2>5 DEF LogInv
<1>6. ASSUME NEW n \in Server, NEW entry \in LogEntry, AppendsOwn(n, entry), state'[n] = "leader"
      PROVE  LogInv'
  <2>1. PICK V : V = W \union {Append(log[n], entry)}
    OBVIOUS
  <2>2. WrittenInv(V)' /\ ClusterChangeInLog'
    BY <1>1, <1>2, <1>6, <2>1, AppendedWritten
  <2> QED
    BY <1>3, <2>2 DEF LogInv
<1>7. ASSUME NEW m \in DOMAIN aeRequests, TakesOver(m) PROVE LogInv'
  <2>1. WrittenInv(W)' /\ ClusterChangeInLog'
    BY <1>1, <1>2, <1>7, TakenOverStaysWritten
  <2> QED
    BY <1>3, <2>1 DEF LogInv
<1> QED
  BY <1>4, <1>5, <1>6, <1>7 DEF LogChanges

LEMMA LogInit == Init => LogInv
<1> SUFFICES ASSUME Init PROVE LogInv
  OBVIOUS
<1>1. TypeOK /\ ElectedInv
  BY TypeInit, ElectedInit
<1>2. ClusterChangeInLog
  BY DEF Init, InitWith, ClusterChangeInLog
<1>3. << >> \in Seq(LogEntry) /\ Len(<< >>) = 0 /\ DOMAIN << >> = {}
  OBVIOUS
<1>4. Written({<< >>})
  <2>1. \A k \in 0 .. 0 : SubSeq(<< >>, 1, k) = << >>
    BY <1>3, SubSeqFull
  <2> QED
    BY <1>3, <2>1 DEF Written, Chained
<1>5. Owned({<< >>})
  BY DEF Owned
<1>6. \A n \in Server : log[n] \in {<< >>}
  BY DEF Init, InitWith
<1>7. \A m \in DOMAIN aeRequests : Carried(m, {<< >>})
  BY DEF Init, InitWith, EmptyBag, SetToBag
<1>8. WrittenInv({<< >>})
  BY <1>4, <1>5, <1>6, <1>7 DEF WrittenInv
<1> QED
  BY <1>1, <1>2, <1>8 DEF LogInv

\* where elections are safe, the invariant holds
LEMMA LogInvariant == Spec /\ []ElectionSafety => []LogInv
<1>1. Init => LogInv
  BY LogInit
<1>2. ElectionSafety /\ ElectionSafety' /\ LogInv /\ [Next]_vars => LogInv'
  BY LogNext
<1> QED
  BY <1>1, <1>2, PTL DEF Spec

\* Two logs with entries of one term at one index agree up to there, whatever
\* requests are lost, reordered, or sent by an earlier process: the comparison of
\* PrevLogTerm and the deletion of what follows PrevLogIndex are enough
\* (follower.go:62-94), if one term never has two leaders.  The theorem asks for
\* nothing else; where that holds is the subject of module ElectionProofs.
THEOREM LogsMatch == Spec /\ []ElectionSafety => []LogMatching
<1>1. LogInv => LogMatching
  <2> SUFFICES ASSUME LogInv, NEW n \in Server, NEW m \in Server,
                      NEW i \in DOMAIN log[n] \cap DOMAIN log[m],
                      log[n][i].term = log[m][i].term
               PROVE  \A j \in 1 .. i : log[n][j] = log[m][j]
    BY DEF LogMatching
  <2>1. PICK W : Written(W) /\ \A s \in Server : log[s] \in W
    BY DEF LogInv, WrittenInv
  <2> QED
    BY <2>1, SamePrefix
<1> QED
  BY <1>1, LogInvariant, PTL

\* Under the same condition, a node's configuration is always that of a cluster
\* change in its log, the index and the term recorded with it being the entry's
\* (follower.go:99-131), or that it was started with.
THEOREM ClusterChangesAreInLog == Spec /\ []ElectionSafety => []ClusterChangeInLog
<1>1. LogInv => ClusterChangeInLog
  BY DEF LogInv
<1> QED
  BY <1>1, LogInvariant, PTL

\* And the loop that looks for the configuration to go back to ends without a
\* missing entry (follower.go:105-117): the record of a change was made by a
\* leader whose log had the change it names, so that change is in every log
\* that has the record, and nearer its beginning.
THEOREM RewindsEnd == Spec /\ []ElectionSafety => []RewindEnds
<1>1. LogInv => RewindEnds
  <2> SUFFICES ASSUME LogInv, NEW m \in DOMAIN aeRequests PROVE ~RewindFails(m.to, m)
    BY DEF RewindEnds
  <2>1. TypeOK /\ ClusterChangeInLog
    BY DEF LogInv
  <2>2. m.to \in Server /\ m.prevLogIndex \in Nat \union {-1}
    BY <2>1, AppendRequestFields DEF TypeOK
  <2>3. Chained(log[m.to])
    BY <2>2 DEF LogInv, WrittenInv, Written
  <2>4. Describes(log[m.to], clusterChange[m.to].index, clusterChange[m.to].term)
    BY <2>1, <2>2 DEF ClusterChangeInLog, Describes
  <2>5. Rewound(m.to, m.prevLogIndex).index \in Int /\ Rewound(m.to, m.prevLogIndex).index <= m.prevLogIndex
    BY <2>1, <2>2, <2>3, <2>4, RewoundDescribed
  <2> QED
    BY <2>2, <2>5 DEF RewindFails
<1> QED
  BY <1>1, LogInvariant, PTL

=============================================================================
