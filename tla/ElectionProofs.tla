------------------------------ MODULE ElectionProofs ------------------------------
(***************************************************************************)
(* Where elections are safe: in a cluster of an odd number of members that *)
(* is not reconfigured, as long as no process is restarted or run again    *)
(* and no reply arrives after its receiver has left the term it asked in.  *)
(* Without one of these a term may have two leaders: the runs late_vote    *)
(* and even_cluster show it for replies and numbers, a voter that is       *)
(* restarted forgets its vote (as one that is stopped and run by hand      *)
(* does), and every other change of a cluster makes its number even.       *)
(* Messages may still be lost, delayed and reordered, timers may fire      *)
(* early, processes may end.                                               *)
(***************************************************************************)
EXTENDS LogProofs, FiniteSetTheorems

SafeSetting ==
  /\ "lateReply" \notin Faults /\ "stopRun" \notin Faults
  /\ MaxCrashes = 0 /\ MaxChanges = 0
  /\ IsFiniteSet(Members) /\ Cardinality(Members) % 2 = 1

-----------------------------------------------------------------------------
(* Without a change in any log or request, the cluster stays as it was. *)

Plain(l) == \A k \in DOMAIN l : ~IsClusterChange(l[k])

FixedInv ==
  /\ \A n \in Server : /\ peers[n] = InitialPeers(n)
                       /\ clusterChange[n].index = -1
                       /\ Plain(log[n])
  /\ \A m \in DOMAIN aeRequests : Plain(m.entries)

LEMMA FixedInit == Init => FixedInv
<1> SUFFICES ASSUME Init PROVE FixedInv
  OBVIOUS
<1>1. DOMAIN << >> = {}
  OBVIOUS
<1> QED
  BY <1>1 DEF Init, InitWith, FixedInv, Plain, EmptyBag, SetToBag

\* a request that a leader without changes in its log sends has none
LEMMA SentPlain ==
  ASSUME TypeOK, NEW n \in Server, NEW a \in Server, NEW from \in Nat, Plain(log[n])
  PROVE  Plain(AppendEntriesTo(n, a, from, TermAt(log[n], from - 1)).entries)
<1> DEFINE m == AppendEntriesTo(n, a, from, TermAt(log[n], from - 1))
<1>1. log[n] \in Seq(LogEntry) /\ from - 1 \in Int
  BY LogFields
<1>2. TermAt(log[n], from - 1) \in Nat \union {-1}
  BY <1>1, TermAtType
<1>3. /\ m.entries \in Seq(LogEntry)
      /\ \A k \in 1 .. Len(m.entries) : from + k \in DOMAIN log[n] /\ m.entries[k] = log[n][from + k]
  BY <1>2, AppendEntriesToType DEF TypeOK, AppendEntriesRequest
<1> HIDE DEF m
<1>4. DOMAIN m.entries = 1 .. Len(m.entries)
  BY <1>3, LenProperties
<1> QED
  BY <1>3, <1>4 DEF Plain, m

LEMMA TakenOverPlain ==
  ASSUME TypeOK, FixedInv, NEW m \in DOMAIN aeRequests, TakesOver(m)
  PROVE  /\ UNCHANGED <<peers, clusterChange>>
         /\ Plain(log'[m.to])
         /\ \A s \in Server \ {m.to} : log'[s] = log[s]
<1> DEFINE n == m.to
           prev == m.prevLogIndex
<1>1. /\ n \in Server /\ prev \in Nat \union {-1}
      /\ m.entries \in Seq(LogEntry) /\ Len(m.entries) \in Nat
      /\ DOMAIN m.entries = 1 .. Len(m.entries)
  BY AppendRequestFields, LenProperties DEF TypeOK
<1>2. Plain(m.entries) /\ Plain(log[n]) /\ clusterChange[n].index = -1
  BY <1>1 DEF FixedInv
<1>3. UNCHANGED <<peers, clusterChange>>
  <2>1. PICK rewound \in Configurations(n) : ConfigureFrom(n, m, rewound)
    BY DEF TakesOver, ConfigureFromEntries
  <2>2. ~(clusterChange[n].index > prev)
    BY <1>1, <1>2
  <2>3. {k \in DOMAIN m.entries : IsClusterChange(m.entries[k])} = {}
    BY <1>2 DEF Plain
  <2> QED
    BY <2>1, <2>2, <2>3 DEF ConfigureFrom, clusterVars
<1>4. /\ log' \in [Server -> Seq(LogEntry)]
      /\ \A s \in Server \ {n} : log'[s] = log[s]
      /\ m.entries = << >> => log' = log
      /\ m.entries # << >> =>
           /\ Len(log'[n]) = prev + 1 + Len(m.entries)
           /\ \A k \in 1 .. prev + 1 : log'[n][k] = log[n][k]
           /\ \A k \in 1 .. Len(m.entries) : log'[n][prev + 1 + k] = m.entries[k]
      /\ prev <= LastIndex(log[n])
  BY <1>1, AppendEntriesToLogEffect DEF TakesOver, TypeOK
<1>5. Plain(log'[n])
  <2>1. CASE m.entries = << >>
    BY <1>2, <1>4, <2>1
  <2>2. CASE m.entries # << >>
    <3> SUFFICES ASSUME NEW k \in DOMAIN log'[n] PROVE ~IsClusterChange(log'[n][k])
      BY DEF Plain
    <3>1. /\ log'[n] \in Seq(LogEntry)
          /\ DOMAIN log'[n] = 1 .. Len(log'[n]) /\ Len(log'[n]) = prev + 1 + Len(m.entries)
      BY <1>1, <1>4, <2>2, LenProperties
    <3>2. CASE k <= prev + 1
      <4>1. k \in 1 .. prev + 1 /\ k \in DOMAIN log[n]
        BY <1>1, <1>4, <3>1, <3>2, LogFields DEF LastIndex
      <4> QED
        BY <1>2, <1>4, <2>2, <4>1 DEF Plain
    <3>3. CASE ~(k <= prev + 1)
      <4>1. k - (prev + 1) \in 1 .. Len(m.entries) /\ prev + 1 + (k - (prev + 1)) = k
        <5>1. \A a \in Int, b \in Nat : \A c \in 1 .. a + b :
                ~(c <= a) => c - a \in 1 .. b /\ a + (c - a) = c
          OBVIOUS
        <5>2. prev + 1 \in Int /\ k \in 1 .. prev + 1 + Len(m.entries)
          BY <1>1, <3>1
        <5> HIDE DEF prev
        <5> QED
          BY <1>1, <3>3, <5>1, <5>2, Zenon
      <4>2. log'[n][prev + 1 + (k - (prev + 1))] = m.entries[k - (prev + 1)]
        BY <1>4, <2>2, <4>1
      <4> QED
        BY <1>1, <1>2, <4>1, <4>2 DEF Plain
    <3> QED
      BY <3>2, <3>3
  <2> QED
    BY <2>1, <2>2
<1> QED
  BY <1>3, <1>4, <1>5

LEMMA FixedNext ==
  ASSUME SafeSetting, TypeOK, FixedInv, [Next]_vars
  PROVE  FixedInv'
<1>1. LogChanges /\ RequestsSent
  BY NextEffects DEF Effects
<1>2. /\ UNCHANGED <<peers, clusterChange>>
      /\ \A s \in Server : Plain(log'[s])
  <2>1. CASE UNCHANGED <<log, peers, clusterChange>>
    BY <2>1 DEF FixedInv
  <2>2. ASSUME NEW n \in Server, NEW entry \in LogEntry, AppendsOwn(n, entry)
        PROVE  /\ UNCHANGED <<peers, clusterChange>>
               /\ \A s \in Server : Plain(log'[s])
    <3>1. ~(Len(SelectSeq(log[n], IsClusterChange)) < 0)
      <4>1. Len(SelectSeq(log[n], IsClusterChange)) \in Nat
        BY LogFields
      <4> QED
        BY <4>1
    <3>2. /\ UNCHANGED <<peers, clusterChange>> /\ ~IsClusterChange(entry)
          /\ log' = [log EXCEPT ![n] = Append(log[n], entry)]
      BY <2>2, <3>1 DEF AppendsOwn, SafeSetting
    <3>3. Plain(Append(log[n], entry))
      <4>1. /\ DOMAIN Append(log[n], entry) = 1 .. Len(log[n]) + 1
            /\ \A k \in 1 .. Len(log[n]) : Append(log[n], entry)[k] = log[n][k]
            /\ Append(log[n], entry)[Len(log[n]) + 1] = entry
            /\ Len(log[n]) \in Nat /\ DOMAIN log[n] = 1 .. Len(log[n])
        BY LogFields, AppendProperties, LenProperties
      <4> QED
        BY <3>2, <4>1 DEF Plain, FixedInv
    <3>4. \A s \in Server : log'[s] = IF s = n THEN Append(log[n], entry) ELSE log[s]
      BY <3>2 DEF TypeOK, LogTypeOK
    <3> QED
      BY <3>2, <3>3, <3>4 DEF FixedInv
  <2>3. ASSUME NEW m \in DOMAIN aeRequests, TakesOver(m)
        PROVE  /\ UNCHANGED <<peers, clusterChange>>
               /\ \A s \in Server : Plain(log'[s])
    BY <2>3, TakenOverPlain DEF FixedInv
  <2> QED
    BY <1>1, <2>1, <2>2, <2>3 DEF LogChanges
<1>3. \A m \in DOMAIN aeRequests' : Plain(m.entries)
  <2>1. \A m : m.entries = << >> => Plain(m.entries)
    BY DEF Plain
  <2> QED
    BY <1>1, <2>1, SentPlain DEF RequestsSent, Sends, FixedInv
<1> QED
  BY <1>2, <1>3 DEF FixedInv

-----------------------------------------------------------------------------
(* The peers of a member are the other members, each counted once. *)

LEMMA OtherMembers ==
  ASSUME NEW n \in Server
  PROVE  \A a \in Address : InitialPeers(n)[a] =
           IF n \in Members THEN IF a \in Members \ {n} THEN 1 ELSE 0
                            ELSE IF a = None THEN 1 ELSE 0
BY DEF InitialPeers, ClusterOf

LEMMA SizeOfMembers ==
  ASSUME IsFiniteSet(Members), NEW n \in Members
  PROVE  Size(InitialPeers(n)) = Cardinality(Members) - 1
<1> DEFINE cluster == InitialPeers(n)
           others == Members \ {n}
           occurrences == UNION {{a} \X (1 .. cluster[a]) : a \in Address}
           f == [a \in others |-> <<a, 1>>]
<1>1. n \in Server /\ others \subseteq Address
  BY MembersAssumption DEF Address
<1>2. \A a \in Address : cluster[a] = IF a \in others THEN 1 ELSE 0
  BY <1>1, OtherMembers
<1> HIDE DEF cluster
<1>3. occurrences = {<<a, 1>> : a \in others}
  <2>1. 1 .. 1 = {1} /\ 1 .. 0 = {}
    OBVIOUS
  <2>2. ASSUME NEW x \in occurrences PROVE x \in {<<a, 1>> : a \in others}
    <3>1. PICK a \in Address : x \in {a} \X (1 .. cluster[a])
      OBVIOUS
    <3>2. a \in others /\ x \in {a} \X {1}
      BY <1>2, <2>1, <3>1
    <3> QED
      BY <3>2
  <2>3. ASSUME NEW a \in others PROVE <<a, 1>> \in occurrences
    <3>1. a \in Address /\ 1 \in 1 .. cluster[a]
      BY <1>1, <1>2, <2>1
    <3> QED
      BY <3>1
  <2> QED
    BY <2>2, <2>3
<1>4. f \in Bijection(others, occurrences)
  BY <1>3 DEF Bijection, Injection, Surjection, IsInjective
<1>5. IsFiniteSet(others) /\ Cardinality(others) = Cardinality(Members) - 1
  BY FS_RemoveElement
<1>6. Cardinality(occurrences) = Cardinality(others)
  <2>1. ExistsBijection(others, occurrences)
    BY <1>4 DEF ExistsBijection
  <2> HIDE DEF others, occurrences
  <2> QED
    BY <1>5, <2>1, FS_Bijection
<1> QED
  BY <1>5, <1>6 DEF Size, cluster

-----------------------------------------------------------------------------
(* Requests to append come from leaders, and the log of a server that was   *)
(* elected in its current term ends in that term.                           *)

SentInv == \A m \in DOMAIN aeRequests : <<m.term, m.from>> \in elected /\ m.from # m.to

LastOfElected ==
  \A e \in elected : e[1] = currentTerm[e[2]] =>
    TermAt(log[e[2]], LastIndex(log[e[2]])) = e[1]

LEMMA SentNext ==
  ASSUME TypeOK, ElectedInv, FixedInv, SentInv, [Next]_vars
  PROVE  SentInv'
<1>1. RequestsSent /\ Leads /\ ElectedInv'
  BY NextEffects, NextLeads, ElectedNext DEF Effects
<1>2. elected \subseteq elected'
  BY <1>1 DEF Leads, Wins
<1>3. ASSUME NEW n \in Server, NEW m, Sends(n, m)
      PROVE  <<m.term, m.from>> \in elected' /\ m.from # m.to
  <2>1. <<m.term, m.from>> \in elected'
    BY <1>1, <1>3 DEF Sends, ElectedInv
  <2>2. peers[n][n] = 0
    <3>1. n \in Address /\ n # None
      BY NoneAssumption DEF Address
    <3> QED
      BY <3>1, OtherMembers DEF FixedInv
  <2> QED
    BY <1>3, <2>1, <2>2 DEF Sends, Recipients
<1> QED
  BY <1>1, <1>2, <1>3 DEF SentInv, RequestsSent, Sends

LEMMA LastNext ==
  ASSUME TypeOK, ElectedInv, SentInv, ElectionSafety, LeaderLastEntryOwnTerm, LastOfElected,
         [Next]_vars
  PROVE  LastOfElected'
<1>1. LogChanges /\ TermsGrow /\ Leads /\ LeaderLastEntryOwnTerm' /\ TypeOK'
  BY NextEffects, NextLeads, OwnTermNext, TypeNext DEF Effects
<1> SUFFICES ASSUME NEW e \in elected', e[1] = currentTerm'[e[2]]
             PROVE  TermAt(log'[e[2]], LastIndex(log'[e[2]])) = e[1]
  BY DEF LastOfElected
<1> DEFINE s == e[2]
<1>2. s \in Server /\ e[1] \in Nat
  BY <1>1 DEF TypeOK, HistoryTypeOK
<1>3. CASE state'[s] = "leader"
  BY <1>1, <1>2, <1>3 DEF LeaderLastEntryOwnTerm
<1>4. CASE state'[s] # "leader"
  <2>1. e \in elected
    BY <1>1, <1>4 DEF Leads, Wins
  <2>2. e[1] <= currentTerm[s] /\ currentTerm[s] <= currentTerm'[s] /\ currentTerm[s] \in Nat
    BY <1>1, <1>2, <2>1 DEF ElectedInv, TermsGrow, TypeOK, ElectionTypeOK
  <2>3. e[1] = currentTerm[s]
    BY <1>2, <2>2
  <2>4. TermAt(log[s], LastIndex(log[s])) = e[1]
    BY <2>1, <2>3 DEF LastOfElected
  <2>5. log'[s] = log[s]
    <3>1. ASSUME NEW n \in Server, NEW entry \in LogEntry, AppendsOwn(n, entry),
                 state'[n] = "leader"
          PROVE  log'[s] = log[s]
      BY <1>2, <1>4, <3>1 DEF AppendsOwn, TypeOK, LogTypeOK
    <3>2. ASSUME NEW m \in DOMAIN aeRequests, TakesOver(m)
          PROVE  log'[s] = log[s]
      <4>1. CASE m.to = s
        <5>1. m.term = e[1] /\ <<m.term, m.from>> \in elected /\ m.from # s
          BY <3>2, <4>1 DEF TakesOver, SentInv
        <5> QED
          BY <2>1, <5>1 DEF ElectionSafety
      <4>2. CASE m.to # s
        BY <1>2, <3>2, <4>2 DEF TakesOver, AppendEntriesToLog, TypeOK, LogTypeOK
      <4> QED
        BY <4>1, <4>2
    <3> QED
      BY <1>1, <3>1, <3>2 DEF LogChanges
  <2> QED
    BY <2>4, <2>5
<1> QED
  BY <1>3, <1>4

-----------------------------------------------------------------------------
(***************************************************************************)
(* What a step does to votes: nothing (Aside), or a node stands for        *)
(* election, casts a vote for another node, or counts a vote it was given. *)
(***************************************************************************)
USE DEF electionVars, historyVars, voteMsgs

SingleVotes ==
  /\ \A m \in DOMAIN rvRequests : rvRequests[m] = 1
  /\ \A r \in DOMAIN rvReplies : r.voteGranted => rvReplies[r] = 1

\* A follower keeps its role and its vote for a server as long as its term.
KeepsVote(s) ==
  state[s] = "follower" /\ currentTerm'[s] = currentTerm[s] =>
    /\ state'[s] = "follower"
    /\ votedFor[s] \in Server => votedFor'[s] = votedFor[s]

KeepsCount(s) ==
  state'[s] = "candidate" =>
    /\ state[s] = "candidate" /\ currentTerm'[s] = currentTerm[s]
    /\ voteCount'[s] = voteCount[s]

OldRequests == \A m \in DOMAIN rvRequests' : m \in DOMAIN rvRequests /\ rvRequests'[m] = 1

OldReplies ==
  \A r \in DOMAIN rvReplies' : r.voteGranted => r \in DOMAIN rvReplies /\ rvReplies'[r] = 1

Aside ==
  /\ \A s \in Server : KeepsVote(s) /\ KeepsCount(s)
  /\ elected' = elected
  /\ OldRequests /\ OldReplies

\* the reply that grants the vote m asks for, from a voter of term t
GrantingReply(m, t) ==
  [from |-> m.to, to |-> m.from, inc |-> m.inc, asked |-> m.term,
   voteGranted |-> TRUE, term |-> t]

CastsVote(m) ==
  LET n == m.to
  IN /\ state'[n] = "follower" /\ votedFor'[n] = m.from
     /\ currentTerm[n] <= m.term /\ currentTerm'[n] = m.term
     /\ state[n] # "follower" => currentTerm[n] < m.term
     /\ state[n] = "follower" => votedFor[n] \in {None, m.from}
     /\ AsUpdatedAs(m.lastLogTerm, m.lastLogIndex, log[n]) /\ log' = log
     /\ \A s \in Server \ {n} : KeepsVote(s) /\ KeepsCount(s)
     /\ elected' = elected
     /\ OldRequests /\ m \notin DOMAIN rvRequests'
     /\ \E t \in Nat : \A r \in DOMAIN rvReplies' : r.voteGranted =>
          \/ r \in DOMAIN rvReplies /\ rvReplies'[r] = 1
          \/ r = GrantingReply(m, t) /\ (r \notin DOMAIN rvReplies => rvReplies'[r] = 1)

CountsVote(r) ==
  LET n == r.to
  IN /\ state[n] = "candidate" /\ r.voteGranted /\ r.asked = currentTerm[n]
     /\ currentTerm' = currentTerm /\ voteCount'[n] = voteCount[n] + 1
     /\ \/ state'[n] = "candidate" /\ elected' = elected
        \/ /\ state'[n] = "leader" /\ WinsElection(n)
           /\ elected' = elected \union {<<currentTerm[n], n>>}
     /\ \A s \in Server \ {n} : KeepsVote(s) /\ KeepsCount(s)
     /\ OldRequests /\ OldReplies /\ r \notin DOMAIN rvReplies'

LEMMA BagRemoveOne ==
  ASSUME NEW bag, NEW x, NEW m \in DOMAIN BagRemove(bag, x), bag[m] = 1
  PROVE  m \in DOMAIN bag /\ m # x /\ BagRemove(bag, x)[m] = 1
<1> DEFINE one == SetToBag({x})
           rest == [e \in DOMAIN bag |-> IF e \in DOMAIN one THEN bag[e] - one[e] ELSE bag[e]]
<1>1. DOMAIN one = {x} /\ one[x] = 1
  BY DEF SetToBag
<1>2. BagRemove(bag, x) = [e \in {d \in DOMAIN rest : rest[d] > 0} |-> rest[e]]
  BY DEF BagRemove, (-)
<1>3. m \in DOMAIN rest /\ rest[m] > 0 /\ BagRemove(bag, x)[m] = rest[m]
  BY <1>2
<1>4. rest[m] = IF m = x THEN 1 - 1 ELSE 1
  BY <1>1, <1>3
<1>5. m \in DOMAIN bag
  BY <1>3
<1> HIDE DEF rest
<1> QED
  BY <1>3, <1>4, <1>5

LEMMA BagAddOne ==
  ASSUME NEW bag, NEW x
  PROVE  /\ x \notin DOMAIN bag => BagAdd(bag, x)[x] = 1
         /\ \A m \in DOMAIN bag : m # x /\ bag[m] = 1 => BagAdd(bag, x)[m] = 1
<1>1. /\ DOMAIN SetToBag({x}) = {x} /\ SetToBag({x})[x] = 1
  BY DEF SetToBag
<1>2. BagAdd(bag, x) = [e \in DOMAIN bag \union {x} |->
        (IF e \in DOMAIN bag THEN bag[e] ELSE 0) + (IF e = x THEN 1 ELSE 0)]
  BY <1>1 DEF BagAdd, (+)
<1>3. \A e \in DOMAIN bag \union {x} : BagAdd(bag, x)[e] =
        (IF e \in DOMAIN bag THEN bag[e] ELSE 0) + (IF e = x THEN 1 ELSE 0)
  BY <1>2
<1> QED
  BY <1>3

\* A step that leaves the votes alone.
LEMMA StaysAside ==
  ASSUME SingleVotes, UNCHANGED <<electionVars, currentTerm, voteMsgs, elected>>
  PROVE  Aside
BY DEF Aside, KeepsVote, KeepsCount, OldRequests, OldReplies, SingleVotes

\* A step of one node, into the follower role unless it was in it before.
LEMMA FallsAside ==
  ASSUME TypeOK, SingleVotes, NEW n \in Server, state'[n] = "follower",
         state[n] = "follower" => UNCHANGED votedFor,
         \A s \in Server \ {n} : /\ state'[s] = state[s] /\ currentTerm'[s] = currentTerm[s]
                                 /\ votedFor'[s] = votedFor[s] /\ voteCount'[s] = voteCount[s],
         UNCHANGED elected, OldRequests, OldReplies
  PROVE  Aside
BY DEF Aside, KeepsVote, KeepsCount

\* what entering the follower role leaves alone
LEMMA FallsAlone ==
  ASSUME TypeOK, NEW n \in Server, FollowerOnStateChanged(n)
  PROVE  /\ state'[n] = "follower"
         /\ \A s \in Server \ {n} : /\ state'[s] = state[s] /\ votedFor'[s] = votedFor[s]
                                    /\ voteCount'[s] = voteCount[s]
BY DEF FollowerOnStateChanged, EnterFollower, TypeOK, ElectionTypeOK

LEMMA SameMsgs ==
  ASSUME SingleVotes, UNCHANGED voteMsgs
  PROVE  OldRequests /\ OldReplies
BY DEF OldRequests, OldReplies, SingleVotes

LEMMA ForwardAppendEntriesAside ==
  ASSUME TypeOK, SingleVotes, NEW m \in DOMAIN aeRequests, ForwardAppendEntries(m)
  PROVE  Aside
<1> DEFINE n == m.to
<1>0. n \in Server
  BY AppendRequestFields DEF TypeOK
<1>1. ASSUME NEW cur, \/ FollowerOnAppendEntries(n, m, cur)
                      \/ FollowerOnAppendEntriesPanics(n, m, cur)
      PROVE  /\ \A s \in Server \ {n} : currentTerm'[s] = currentTerm[s]
             /\ UNCHANGED <<elected, voteMsgs>>
  BY <1>0, <1>1 DEF FollowerOnAppendEntries, FollowerOnAppendEntriesPanics, TypeOK, ElectionTypeOK
<1>2. CASE state[n] = "follower" /\ UNCHANGED electionVars
  <2>1. PICK cur : \/ FollowerOnAppendEntries(n, m, cur)
                   \/ FollowerOnAppendEntriesPanics(n, m, cur)
    BY <1>2 DEF ForwardAppendEntries
  <2> QED
    BY <1>0, <1>1, <1>2, <2>1, FallsAside, SameMsgs
<1>3. ASSUME NEW cur, state[n] # "follower", FollowerOnStateChanged(n),
             \/ FollowerOnAppendEntries(n, m, cur)
             \/ FollowerOnAppendEntriesPanics(n, m, cur)
      PROVE  Aside
  BY <1>0, <1>1, <1>3, FallsAside, FallsAlone, SameMsgs
<1>4. CASE UNCHANGED <<electionVars, currentTerm, voteMsgs, elected>>
  BY <1>4, StaysAside
<1> QED
  BY <1>2, <1>3, <1>4 DEF ForwardAppendEntries, CandidateOnAppendEntries, LeaderOnAppendEntries

LEMMA ForwardAppendEntriesReplyAside ==
  ASSUME TypeOK, SingleVotes, NEW r \in DOMAIN aeReplies, ForwardAppendEntriesReply(r)
  PROVE  Aside
<1> DEFINE n == r.to
<1>0. n \in Server
  BY DEF TypeOK, AppendTypeOK, AppendEntriesReply
<1>1. UNCHANGED <<elected, voteMsgs>>
  BY DEF ForwardAppendEntriesReply, LeaderOnAppendEntriesReply
<1>2. \/ UNCHANGED <<electionVars, currentTerm>>
      \/ /\ state[n] = "leader" /\ FollowerOnStateChanged(n)
         /\ currentTerm' = [currentTerm EXCEPT ![n] = r.term]
  BY DEF ForwardAppendEntriesReply, LeaderOnAppendEntriesReply
<1>3. CASE /\ state[n] = "leader" /\ FollowerOnStateChanged(n)
           /\ currentTerm' = [currentTerm EXCEPT ![n] = r.term]
  <2>1. \A s \in Server \ {n} : currentTerm'[s] = currentTerm[s]
    BY <1>0, <1>3 DEF TypeOK, ElectionTypeOK
  <2> QED
    BY <1>0, <1>1, <1>3, <2>1, FallsAside, FallsAlone, SameMsgs
<1> QED
  BY <1>1, <1>2, <1>3, StaysAside

\* Answering a request for a vote: it is gone, and a vote granted is a new reply.
LEMMA VoteAnswered ==
  ASSUME SingleVotes, NEW m \in DOMAIN rvRequests, NEW granted \in BOOLEAN, NEW t \in Nat,
         ReplyRequestVote(m, granted, t)
  PROVE  /\ OldRequests /\ m \notin DOMAIN rvRequests'
         /\ \A r \in DOMAIN rvReplies' : r.voteGranted =>
              \/ r \in DOMAIN rvReplies /\ rvReplies'[r] = 1
              \/ granted /\ r = GrantingReply(m, t) /\ (r \notin DOMAIN rvReplies => rvReplies'[r] = 1)
<1> DEFINE reply == [from |-> m.to, to |-> m.from, inc |-> m.inc, asked |-> m.term,
                     voteGranted |-> granted, term |-> t]
<1>1. /\ rvRequests' = BagRemove(rvRequests, m)
      /\ rvReplies' = rvReplies \/ rvReplies' = BagAdd(rvReplies, reply)
  BY DEF ReplyRequestVote, ReplyTo
<1>2. \A k \in DOMAIN rvRequests' : k \in DOMAIN rvRequests /\ k # m /\ rvRequests'[k] = 1
  <2> SUFFICES ASSUME NEW k \in DOMAIN BagRemove(rvRequests, m)
               PROVE  k \in DOMAIN rvRequests /\ k # m /\ BagRemove(rvRequests, m)[k] = 1
    BY <1>1
  <2>1. rvRequests[k] = 1
    BY BagRemoveDomain DEF SingleVotes
  <2> QED
    BY <2>1, BagRemoveOne
<1>3. ASSUME NEW r \in DOMAIN rvReplies', r.voteGranted
      PROVE  \/ r \in DOMAIN rvReplies /\ rvReplies'[r] = 1
             \/ granted /\ r = GrantingReply(m, t) /\ (r \notin DOMAIN rvReplies => rvReplies'[r] = 1)
  <2>1. CASE rvReplies' = rvReplies
    BY <1>3, <2>1 DEF SingleVotes
  <2>2. CASE rvReplies' = BagAdd(rvReplies, reply)
    <3>1. r \in DOMAIN rvReplies \/ r = reply
      BY <1>3, <2>2, BagAddDomain
    <3>2. CASE r = reply
      <4>1. reply.voteGranted = granted
        OBVIOUS
      <4>2. granted /\ r = GrantingReply(m, t)
        BY <1>3, <3>2, <4>1 DEF GrantingReply
      <4>3. reply \notin DOMAIN rvReplies => rvReplies'[reply] = 1
        BY <2>2, BagAddOne
      <4> HIDE DEF reply
      <4> QED
        BY <3>2, <4>2, <4>3
    <3>3. CASE r \in DOMAIN rvReplies /\ r # reply
      <4> HIDE DEF reply
      <4>1. rvReplies[r] = 1
        BY <1>3, <3>3 DEF SingleVotes
      <4> QED
        BY <2>2, <3>3, <4>1, BagAddOne
    <3> QED
      BY <3>1, <3>2, <3>3
  <2> QED
    BY <1>1, <2>1, <2>2
<1> QED
  BY <1>2, <1>3 DEF OldRequests

LEMMA ForwardRequestVoteCasts ==
  ASSUME TypeOK, SingleVotes, NEW m \in DOMAIN rvRequests, ForwardRequestVote(m)
  PROVE  Aside \/ CastsVote(m)
<1> DEFINE n == m.to
<1>0. /\ n \in Server /\ m.from \in Server /\ m.term \in Nat /\ currentTerm[n] \in Nat
      /\ votedFor \in [Server -> Address]
  BY VoteRequestFields DEF TypeOK, ElectionTypeOK
<1>1. ASSUME NEW cur \in Nat, NEW voted, FollowerOnRequestVote(n, m, cur, voted),
             state'[n] = "follower",
             \A s \in Server \ {n} : state'[s] = state[s] /\ voteCount'[s] = voteCount[s],
             \/ state[n] = "follower" /\ cur = currentTerm[n] /\ voted = votedFor[n]
             \/ state[n] # "follower" /\ m.term > currentTerm[n] /\ voted = None
      PROVE  Aside \/ CastsVote(m)
  <2> DEFINE granted == Grants(n, m, cur, voted)
  <2>1. granted \in BOOLEAN
    BY DEF Grants
  <2>2. /\ currentTerm' = [currentTerm EXCEPT ![n] = IF heard[n] THEN cur ELSE Higher(m.term, cur)]
        /\ votedFor' = [votedFor EXCEPT ![n] = IF granted THEN m.from ELSE voted]
        /\ ReplyRequestVote(m, granted, cur) /\ UNCHANGED <<log, elected>>
    BY <1>1 DEF FollowerOnRequestVote
  <2>3. granted => /\ ~heard[n] /\ m.term >= cur /\ voted \in {None, m.from}
                   /\ AsUpdatedAs(m.lastLogTerm, m.lastLogIndex, log[n])
    BY DEF Grants
  <2> HIDE DEF granted
  <2>4. \A s \in Server \ {n} : currentTerm'[s] = currentTerm[s] /\ votedFor'[s] = votedFor[s]
    BY <1>0, <2>2 DEF TypeOK, ElectionTypeOK
  <2>5. \A s \in Server \ {n} : KeepsVote(s) /\ KeepsCount(s)
    BY <1>1, <2>4 DEF KeepsVote, KeepsCount
  <2>6. CASE ~granted
    <3>1. OldRequests /\ OldReplies
      BY <2>1, <2>2, <2>6, VoteAnswered DEF OldReplies
    <3>2. state[n] = "follower" => KeepsVote(n)
      BY <1>0, <1>1, <2>2, <2>6 DEF KeepsVote
    <3>3. KeepsVote(n) /\ KeepsCount(n)
      BY <1>1, <3>2 DEF KeepsVote, KeepsCount
    <3> QED
      BY <2>2, <2>5, <3>1, <3>3 DEF Aside
  <2>7. CASE granted
    <3>1. currentTerm'[n] = m.term /\ votedFor'[n] = m.from /\ currentTerm[n] <= m.term
      <4>1. Higher(m.term, cur) = m.term
        BY <1>0, <2>3, <2>7 DEF Higher
      <4>2. currentTerm'[n] = m.term /\ votedFor'[n] = m.from
        BY <1>0, <2>2, <2>3, <2>7, <4>1 DEF TypeOK, ElectionTypeOK
      <4>3. currentTerm[n] <= m.term
        BY <1>0, <1>1, <2>3, <2>7
      <4> QED
        BY <4>2, <4>3
    <3>2. /\ OldRequests /\ m \notin DOMAIN rvRequests'
          /\ \A r \in DOMAIN rvReplies' : r.voteGranted =>
               \/ r \in DOMAIN rvReplies /\ rvReplies'[r] = 1
               \/ /\ r = GrantingReply(m, cur)
                  /\ r \notin DOMAIN rvReplies => rvReplies'[r] = 1
      BY <2>1, <2>2, VoteAnswered
    <3>3. /\ state[n] # "follower" => currentTerm[n] < m.term
          /\ state[n] = "follower" => votedFor[n] \in {None, m.from}
      BY <1>0, <1>1, <2>3, <2>7
    <3> QED
      BY <1>1, <2>2, <2>3, <2>5, <2>7, <3>1, <3>2, <3>3 DEF CastsVote
  <2> QED
    BY <2>6, <2>7
<1>2. ASSUME UNCHANGED <<electionVars, currentTerm, elected>>, ReplyRequestVote(m, FALSE, currentTerm[n])
      PROVE  Aside
  <2>1. OldRequests /\ OldReplies
    BY <1>0, <1>2, VoteAnswered DEF OldReplies
  <2> QED
    BY <1>2, <2>1 DEF Aside, KeepsVote, KeepsCount
<1>3. ASSUME EnterFollower(n)
      PROVE  /\ state'[n] = "follower"
             /\ \A s \in Server \ {n} : state'[s] = state[s] /\ voteCount'[s] = voteCount[s]
  BY <1>0, <1>3 DEF EnterFollower, TypeOK, ElectionTypeOK
<1>4. CASE state[n] = "follower"
  BY <1>0, <1>1, <1>4 DEF ForwardRequestVote
<1>5. CASE state[n] = "candidate" /\ CandidateOnRequestVote(n, m)
  BY <1>0, <1>1, <1>2, <1>3, <1>5 DEF CandidateOnRequestVote
<1>6. CASE state[n] = "leader" /\ LeaderOnRequestVote(n, m)
  BY <1>0, <1>1, <1>2, <1>3, <1>6 DEF LeaderOnRequestVote
<1> QED
  BY <1>4, <1>5, <1>6 DEF ForwardRequestVote

LEMMA ForwardRequestVoteReplyCounts ==
  ASSUME TypeOK, SingleVotes, "lateReply" \notin Faults,
         NEW r \in DOMAIN rvReplies, ForwardRequestVoteReply(r)
  PROVE  Aside \/ CountsVote(r)
<1> DEFINE n == r.to
<1>0. /\ n \in Server /\ currentTerm[n] \in Nat /\ r.voteGranted \in BOOLEAN /\ r.term \in Nat
      /\ r.asked = currentTerm[n]
  BY DEF TypeOK, VoteTypeOK, RequestVoteReply, ElectionTypeOK, ForwardRequestVoteReply, OnTime
<1>1. rvReplies' = BagRemove(rvReplies, r) /\ rvRequests' = rvRequests
  BY DEF ForwardRequestVoteReply, CandidateOnRequestVoteReply
<1>2. /\ OldRequests /\ OldReplies
      /\ r.voteGranted => r \notin DOMAIN rvReplies'
  <2>1. ASSUME NEW q \in DOMAIN BagRemove(rvReplies, r), q.voteGranted
        PROVE  q \in DOMAIN rvReplies /\ q # r /\ BagRemove(rvReplies, r)[q] = 1
    <3>1. rvReplies[q] = 1
      BY <2>1, BagRemoveDomain DEF SingleVotes
    <3> QED
      BY <3>1, BagRemoveOne
  <2> QED
    BY <1>1, <2>1 DEF OldRequests, OldReplies, SingleVotes
<1>3. CASE UNCHANGED <<electionVars, currentTerm, elected>>
  BY <1>2, <1>3 DEF Aside, KeepsVote, KeepsCount
<1>4. CASE /\ state[n] = "candidate" /\ FollowerOnStateChanged(n) /\ elected' = elected
           /\ currentTerm' = [currentTerm EXCEPT ![n] = r.term]
  <2>1. \A s \in Server \ {n} : currentTerm'[s] = currentTerm[s]
    BY <1>0, <1>4 DEF TypeOK, ElectionTypeOK
  <2> QED
    BY <1>0, <1>2, <1>4, <2>1, FallsAside, FallsAlone
<1>5. CASE /\ state[n] = "candidate" /\ r.voteGranted
           /\ voteCount' = [voteCount EXCEPT ![n] = voteCount[n] + 1]
           /\ \/ WinsElection(n) /\ LeaderOnStateChanged(n)
              \/ UNCHANGED <<state, elected>>
           /\ UNCHANGED <<votedFor, currentTerm>>
  <2>1. /\ voteCount'[n] = voteCount[n] + 1
        /\ \A s \in Server \ {n} : voteCount'[s] = voteCount[s]
    BY <1>0, <1>5 DEF TypeOK, ElectionTypeOK
  <2>2. /\ \/ state'[n] = "candidate" /\ elected' = elected
           \/ /\ state'[n] = "leader" /\ WinsElection(n)
              /\ elected' = elected \union {<<currentTerm[n], n>>}
        /\ \A s \in Server \ {n} : state'[s] = state[s]
    BY <1>0, <1>5 DEF LeaderOnStateChanged, TypeOK, ElectionTypeOK
  <2>3. \A s \in Server \ {n} : KeepsVote(s) /\ KeepsCount(s)
    BY <1>5, <2>1, <2>2 DEF KeepsVote, KeepsCount
  <2> QED
    BY <1>0, <1>2, <1>5, <2>1, <2>2, <2>3 DEF CountsVote
<1> QED
  BY <1>3, <1>4, <1>5 DEF ForwardRequestVoteReply, CandidateOnRequestVoteReply

LEMMA NextVotes ==
  ASSUME SafeSetting, TypeOK, SingleVotes, [Next]_vars
  PROVE  \/ Aside
         \/ \E n \in Server : FollowerOnTimeout(n)
         \/ \E m \in DOMAIN rvRequests : CastsVote(m)
         \/ \E r \in DOMAIN rvReplies : CountsVote(r)
<1>1. CASE UNCHANGED vars
  BY <1>1, StaysAside DEF vars
<1>2. ASSUME NEW n \in Server, CandidateOnTimeout(n) PROVE Aside
  BY <1>2, FallsAside, FallsAlone, SameMsgs DEF CandidateOnTimeout
<1>3. ASSUME NEW n \in Server, LeaderOnTimeout(n) PROVE Aside
  BY <1>3, StaysAside DEF LeaderOnTimeout
<1>4. ASSUME NEW n \in Server, ForwardClient(n) PROVE Aside
  BY <1>4, StaysAside DEF ForwardClient, LeaderOnStateMachineCommand, LeaderOnAddServer,
                          LeaderOnRemoveServer
<1>5. ASSUME NEW n \in Server, HeardExpires(n) PROVE Aside
  BY <1>5, StaysAside DEF HeardExpires
<1>6. ASSUME NEW n \in Server PROVE ~Restart(n) /\ ~StopAndRun(n)
  BY DEF SafeSetting, Restart, StopAndRun, TypeOK, ProcessTypeOK
<1> QED
  BY <1>1, <1>2, <1>3, <1>4, <1>5, <1>6, ForwardAppendEntriesAside, ForwardRequestVoteCasts,
     ForwardAppendEntriesReplyAside, ForwardRequestVoteReplyCounts DEF Next, ForwardTick, SafeSetting

-----------------------------------------------------------------------------
(***************************************************************************)
(* The ballots of the whole behaviour.  No variable remembers them; the    *)
(* invariant says that there is a set B of those cast and a subset C of    *)
(* those counted.  A ballot <<t, c, v>> is the vote of v for c in term t.  *)
(***************************************************************************)
Voters(C, t, c) == {v \in Server : <<t, c, v>> \in C}

\* A vote for another node is on record as long as the voter's term lasts, and
\* there is one of them in a term.
Cast(B, C) ==
  /\ C \subseteq B /\ B \subseteq Nat \X Server \X Server
  /\ \A b \in B : b[1] <= currentTerm[b[2]] /\ b[1] <= currentTerm[b[3]]
  /\ \A b \in B : b[2] # b[3] =>
       /\ b[2] \in Members /\ b[3] \in Members
       /\ b[1] = currentTerm[b[3]] => state[b[3]] = "follower" /\ votedFor[b[3]] = b[2]
  /\ \A b \in B, d \in B :
       b[1] = d[1] /\ b[3] = d[3] /\ b[2] # b[3] /\ d[2] # d[3] => b[2] = d[2]

\* A candidate has counted its own vote, and every vote once.
Counted(C) ==
  \A n \in Server : state[n] = "candidate" =>
    /\ <<currentTerm[n], n, n>> \in C
    /\ Cardinality(Voters(C, currentTerm[n], n)) = voteCount[n]

\* the ballot that a request asks for, or that a reply grants
AskedFor(m) == <<m.term, m.from, m.to>>
GrantedBy(r) == <<r.asked, r.to, r.from>>

\* A vote is asked for once.
Asked(B) ==
  \A m \in DOMAIN rvRequests :
    /\ m.from \in Members /\ m.to \in Members /\ m.from # m.to
    /\ m.term <= currentTerm[m.from] /\ m.lastLogTerm < m.term
    /\ AskedFor(m) \notin B
    /\ \A k \in DOMAIN rvRequests : AskedFor(k) = AskedFor(m) => k = m

\* A vote is granted once, and counted when its reply is taken from the network.
Granted(B, C) ==
  \A r \in DOMAIN rvReplies : r.voteGranted =>
    /\ r.from # r.to
    /\ GrantedBy(r) \in B \ C
    /\ \A q \in DOMAIN rvReplies : q.voteGranted /\ GrantedBy(q) = GrantedBy(r) => q = r

\* Who was elected had a majority of the members and voted for nobody else.
Won(B, C) ==
  \A e \in elected :
    /\ e[2] \in Members
    /\ \A b \in B : b[1] = e[1] /\ b[3] = e[2] => b[2] = e[2]
    /\ 2 * Cardinality(Voters(C, e[1], e[2])) > Cardinality(Members)

BallotInv(B, C) ==
  /\ SingleVotes
  /\ Cast(B, C) /\ Counted(C) /\ Asked(B) /\ Granted(B, C) /\ Won(B, C)

\* Who voted for a candidate of the present has moved on, or has a log that is
\* no more updated, or else a leader of the term has been heard of.
UpToDate(B) ==
  /\ \A b \in B : state[b[2]] = "candidate" /\ b[1] = currentTerm[b[2]] =>
       \/ currentTerm[b[3]] > b[1]
       \/ ~MoreUpdated(log[b[3]], log[b[2]])
       \/ \E d \in Server : <<b[1], d>> \in elected
  /\ \A m \in DOMAIN rvRequests : state[m.from] = "candidate" /\ m.term = currentTerm[m.from] =>
       /\ m.lastLogIndex = LastIndex(log[m.from])
       /\ m.lastLogTerm = TermAt(log[m.from], LastIndex(log[m.from]))

ElectionInv ==
  /\ OrderInv /\ ElectedInv /\ LeaderLastEntryOwnTerm
  /\ FixedInv /\ SentInv /\ LastOfElected
  /\ \E B, C : BallotInv(B, C) /\ UpToDate(B)

LEMMA BallotFields ==
  ASSUME NEW B, NEW b \in B, B \subseteq Nat \X Server \X Server
  PROVE  b[1] \in Nat /\ b[2] \in Server /\ b[3] \in Server /\ b = <<b[1], b[2], b[3]>>
OBVIOUS

LEMMA VotersFinite ==
  ASSUME SafeSetting, NEW C, \A b \in C : b[2] # b[3] => b[3] \in Members, NEW t, NEW c
  PROVE  /\ IsFiniteSet(Voters(C, t, c)) /\ Cardinality(Voters(C, t, c)) \in Nat
         /\ Voters(C, t, c) \subseteq Members \union {c}
<1>1. IsFiniteSet(Members \union {c})
  BY FS_AddElement DEF SafeSetting
<1>2. ASSUME NEW v \in Voters(C, t, c) PROVE v \in Members \union {c}
  <2> DEFINE b == <<t, c, v>>
  <2>1. b \in C /\ b[2] = c /\ b[3] = v
    BY DEF Voters
  <2> HIDE DEF b
  <2> QED
    BY <2>1
<1>3. Voters(C, t, c) \subseteq Members \union {c}
  BY <1>2
<1> QED
  BY <1>1, <1>3, FS_Subset, FS_CardinalityType

\* Two majorities of the members have a member in common.
LEMMA ElectedOnce ==
  ASSUME SafeSetting, TypeOK, NEW B, NEW C, Cast(B, C), Won(B, C)
  PROVE  ElectionSafety
<1> SUFFICES ASSUME NEW e \in elected, NEW f \in elected, e[1] = f[1] PROVE e[2] = f[2]
  BY DEF ElectionSafety
<1> DEFINE V == Voters(C, e[1], e[2])
           W == Voters(C, f[1], f[2])
<1>0. \A b \in C : b[2] # b[3] => b[3] \in Members
  BY DEF Cast
<1>1. /\ e[2] \in Members /\ f[2] \in Members
      /\ 2 * Cardinality(V) > Cardinality(Members) /\ 2 * Cardinality(W) > Cardinality(Members)
  BY DEF Won
<1>2. V \subseteq Members /\ W \subseteq Members
  BY <1>0, <1>1, VotersFinite
<1>3. /\ Cardinality(V) \in Nat /\ Cardinality(W) \in Nat /\ Cardinality(Members) \in Nat
      /\ IsFiniteSet(Members)
  <2>1. Cardinality(V) \in Nat /\ Cardinality(W) \in Nat
    BY <1>0, VotersFinite
  <2>2. Cardinality(Members) \in Nat /\ IsFiniteSet(Members)
    BY FS_CardinalityType DEF SafeSetting
  <2> QED
    BY <2>1, <2>2
<1>4. Cardinality(V) + Cardinality(W) > Cardinality(Members)
  <2> HIDE DEF V, W
  <2> QED
    BY <1>1, <1>3
<1>5. PICK v : v \in V /\ v \in W
  <2> HIDE DEF V, W
  <2>1. V \cap W # {}
    BY <1>2, <1>3, <1>4, FS_MajoritiesIntersect
  <2> QED
    BY <2>1
<1> DEFINE b == <<e[1], e[2], v>>
           d == <<f[1], f[2], v>>
<1>6. b \in B /\ d \in B /\ b[1] = e[1] /\ b[2] = e[2] /\ b[3] = v
      /\ d[1] = f[1] /\ d[2] = f[2] /\ d[3] = v
  BY <1>5 DEF Voters, Cast
<1> HIDE DEF b, d
<1>7. v = e[2] => f[2] = e[2]
  BY <1>6 DEF Won
<1>8. v = f[2] => e[2] = f[2]
  BY <1>6 DEF Won
<1>9. v # e[2] /\ v # f[2] => e[2] = f[2]
  BY <1>6 DEF Cast
<1> QED
  BY <1>7, <1>8, <1>9

-----------------------------------------------------------------------------
(* Every step keeps the ballots. *)

LEMMA CastKept ==
  ASSUME TypeOK, TypeOK', TermsGrow, NEW B, NEW C, Cast(B, C), \A s \in Server : KeepsVote(s),
         NEW D, C \subseteq D, D \subseteq B
  PROVE  Cast(B, D)'
<1>0. B \subseteq Nat \X Server \X Server
  BY DEF Cast
<1>1. \A s \in Server : /\ currentTerm[s] \in Nat /\ currentTerm'[s] \in Nat
                        /\ currentTerm[s] <= currentTerm'[s]
  BY DEF TypeOK, ElectionTypeOK, TermsGrow
<1>2. ASSUME NEW b \in B
      PROVE  /\ b[1] <= currentTerm'[b[2]] /\ b[1] <= currentTerm'[b[3]]
             /\ b[2] # b[3] =>
                  /\ b[2] \in Members /\ b[3] \in Members
                  /\ b[1] = currentTerm'[b[3]] => state'[b[3]] = "follower" /\ votedFor'[b[3]] = b[2]
  <2>1. b[1] \in Nat /\ b[2] \in Server /\ b[3] \in Server
    BY <1>0, BallotFields
  <2>2. /\ b[1] <= currentTerm[b[2]] /\ b[1] <= currentTerm[b[3]]
        /\ b[2] # b[3] =>
             /\ b[2] \in Members /\ b[3] \in Members
             /\ b[1] = currentTerm[b[3]] => state[b[3]] = "follower" /\ votedFor[b[3]] = b[2]
    BY DEF Cast
  <2>3. b[1] <= currentTerm'[b[2]] /\ b[1] <= currentTerm'[b[3]]
    BY <1>1, <2>1, <2>2
  <2>4. b[1] = currentTerm'[b[3]] => b[1] = currentTerm[b[3]] /\ currentTerm'[b[3]] = currentTerm[b[3]]
    BY <1>1, <2>1, <2>2
  <2> QED
    BY <2>1, <2>2, <2>3, <2>4 DEF KeepsVote
<1> QED
  BY <1>0, <1>2 DEF Cast

LEMMA CastOneMore ==
  ASSUME NEW B, NEW C, Cast(B, C)', NEW new \in Nat \X Server \X Server,
         new[1] <= currentTerm'[new[2]], new[1] <= currentTerm'[new[3]],
         new[2] # new[3] => /\ new[2] \in Members /\ new[3] \in Members
                            /\ state'[new[3]] = "follower" /\ votedFor'[new[3]] = new[2]
                            /\ \A b \in B : b[1] = new[1] /\ b[3] = new[3] /\ b[2] # new[3] =>
                                            b[2] = new[2],
         NEW D, D \subseteq C \union {new}
  PROVE  Cast(B \union {new}, D)'
<1> DEFINE E == B \union {new}
<1>2. D \subseteq E /\ E \subseteq Nat \X Server \X Server
  BY DEF Cast
<1>3. \A b \in E : b[1] <= currentTerm'[b[2]] /\ b[1] <= currentTerm'[b[3]]
  BY DEF Cast
<1>4. \A b \in E : b[2] # b[3] =>
        /\ b[2] \in Members /\ b[3] \in Members
        /\ b[1] = currentTerm'[b[3]] => state'[b[3]] = "follower" /\ votedFor'[b[3]] = b[2]
  BY DEF Cast
<1>5. ASSUME NEW b \in E, NEW d \in E, b[1] = d[1], b[3] = d[3], b[2] # b[3], d[2] # d[3]
      PROVE  b[2] = d[2]
  BY <1>5 DEF Cast
<1> QED
  BY <1>2, <1>3, <1>4, <1>5 DEF Cast

LEMMA VotersGrow ==
  ASSUME NEW C, NEW D, C \subseteq D, NEW t, NEW c, IsFiniteSet(Voters(D, t, c))
  PROVE  /\ Cardinality(Voters(C, t, c)) <= Cardinality(Voters(D, t, c))
         /\ Cardinality(Voters(C, t, c)) \in Nat /\ Cardinality(Voters(D, t, c)) \in Nat
<1>1. Voters(C, t, c) \subseteq Voters(D, t, c)
  BY DEF Voters
<1> QED
  BY <1>1, FS_Subset, FS_CardinalityType

\* A ballot for another candidate, or of another term, is none of c's in t.
LEMMA VotersSame ==
  ASSUME NEW C, NEW t, NEW c, NEW new, new[1] # t \/ new[2] # c
  PROVE  Voters(C \union {new}, t, c) = Voters(C, t, c)
<1>1. \A v \in Server : <<t, c, v>> # new
  OBVIOUS
<1> QED
  BY <1>1 DEF Voters

LEMMA WonKept ==
  ASSUME SafeSetting, TypeOK, NEW B, NEW C, Won(B, C), NEW D, C \subseteq D, Cast(B, D)',
         elected' = elected
  PROVE  Won(B, D)'
<1> SUFFICES ASSUME NEW e \in elected
             PROVE  2 * Cardinality(Voters(D, e[1], e[2])) > Cardinality(Members)
  BY DEF Won
<1>1. 2 * Cardinality(Voters(C, e[1], e[2])) > Cardinality(Members)
  BY DEF Won
<1>2. IsFiniteSet(Voters(D, e[1], e[2]))
  <2>1. \A b \in D : b[2] # b[3] => b[3] \in Members
    BY DEF Cast
  <2> QED
    BY <2>1, VotersFinite
<1>3. Cardinality(Members) \in Nat
  BY FS_CardinalityType DEF SafeSetting
<1> QED
  BY <1>1, <1>2, <1>3, VotersGrow

LEMMA AskedKept ==
  ASSUME TypeOK, TypeOK', TermsGrow, NEW B, Asked(B), OldRequests
  PROVE  Asked(B)'
<1> SUFFICES ASSUME NEW m \in DOMAIN rvRequests'
             PROVE  /\ m \in DOMAIN rvRequests
                    /\ m.term <= currentTerm'[m.from]
  BY DEF Asked, OldRequests, AskedFor
<1>1. m \in DOMAIN rvRequests
  BY DEF OldRequests
<1>2. /\ m.term <= currentTerm[m.from] /\ m.term \in Nat /\ m.from \in Server
  BY <1>1, VoteRequestFields DEF Asked, TypeOK
<1>3. currentTerm[m.from] <= currentTerm'[m.from]
      /\ currentTerm[m.from] \in Nat /\ currentTerm'[m.from] \in Nat
  BY <1>2 DEF TermsGrow, TypeOK, ElectionTypeOK
<1> QED
  BY <1>1, <1>2, <1>3

LEMMA GrantedKept ==
  ASSUME NEW B, NEW C, Granted(B, C), OldReplies, NEW E, NEW D, B \subseteq E,
         \A r \in DOMAIN rvReplies' : r.voteGranted => GrantedBy(r) \notin D \ C
  PROVE  Granted(E, D)'
BY DEF Granted, OldReplies, GrantedBy

LEMMA AsideBallots ==
  ASSUME SafeSetting, TypeOK, TypeOK', TermsGrow, NEW B, NEW C, BallotInv(B, C), Aside
  PROVE  BallotInv(B, C)'
<1>1. SingleVotes'
  BY DEF Aside, OldRequests, OldReplies, SingleVotes
<1>2. Cast(B, C)'
  <2>1. Cast(B, C) /\ C \subseteq B
    BY DEF BallotInv, Cast
  <2> QED
    BY <2>1, CastKept DEF Aside
<1>3. Counted(C)'
  BY DEF BallotInv, Counted, Aside, KeepsCount
<1>4. Asked(B)'
  BY AskedKept DEF BallotInv, Aside
<1>5. Granted(B, C)'
  BY GrantedKept DEF BallotInv, Aside
<1>6. Won(B, C)'
  BY <1>2, WonKept DEF BallotInv, Aside
<1> QED
  BY <1>1, <1>2, <1>3, <1>4, <1>5, <1>6 DEF BallotInv

\* Standing for election: who is asked, and for what.
LEMMA ToPeersOne ==
  ASSUME NEW bag, NEW n, NEW requests, NEW m \in requests \union DOMAIN bag
  PROVE  /\ m \notin requests /\ bag[m] = 1 => ToPeers(bag, n, requests)[m] = 1
         /\ m \in requests /\ m \notin DOMAIN bag /\ peers[n][m.to] = 1 =>
              ToPeers(bag, n, requests)[m] = 1
<1> DEFINE sent == [r \in requests |-> peers[n][r.to]]
<1>1. DOMAIN sent = requests /\ \A r \in requests : sent[r] = peers[n][r.to]
  OBVIOUS
<1> HIDE DEF sent
<1>2. ToPeers(bag, n, requests) =
        [e \in DOMAIN bag \union DOMAIN sent |->
           (IF e \in DOMAIN bag THEN bag[e] ELSE 0) + (IF e \in DOMAIN sent THEN sent[e] ELSE 0)]
  BY DEF ToPeers, (+), sent
<1>3. ToPeers(bag, n, requests)[m] =
        (IF m \in DOMAIN bag THEN bag[m] ELSE 0) + (IF m \in requests THEN peers[n][m.to] ELSE 0)
  BY <1>1, <1>2
<1> QED
  BY <1>3

\* a request of n, standing in the term after its own
NewRequest(n, m) ==
  /\ n \in Members /\ m.from = n /\ m.to \in Members /\ m.to # n
  /\ m.term = currentTerm[n] + 1 /\ m.lastLogTerm <= currentTerm[n]
  /\ m.lastLogIndex = LastIndex(log[n]) /\ m.lastLogTerm = TermAt(log[n], LastIndex(log[n]))

LEMMA Stands ==
  ASSUME OrderInv, FixedInv, SingleVotes, NEW B, Asked(B), NEW n \in Server, FollowerOnTimeout(n)
  PROVE  /\ state'[n] = "candidate" /\ currentTerm'[n] = currentTerm[n] + 1 /\ voteCount'[n] = 1
         /\ \A s \in Server : KeepsVote(s)
         /\ \A s \in Server \ {n} : KeepsCount(s)
         /\ elected' = elected /\ rvReplies' = rvReplies
         /\ \A m \in DOMAIN rvRequests' :
              /\ rvRequests'[m] = 1
              /\ m \notin DOMAIN rvRequests => NewRequest(n, m)
         /\ \A m \in DOMAIN rvRequests', k \in DOMAIN rvRequests' :
              NewRequest(n, m) /\ NewRequest(n, k) /\ m.to = k.to => m = k
<1> DEFINE Request(a) == [from |-> n, to |-> a, inc |-> crashes[n], term |-> currentTerm[n] + 1,
                          lastLogIndex |-> LastIndex(log[n]),
                          lastLogTerm |-> TermAt(log[n], LastIndex(log[n]))]
           requests == {Request(a) : a \in Recipients(n)}
<1>0. TypeOK /\ currentTerm[n] \in Nat
  BY DEF OrderInv, TypeOK, ElectionTypeOK
<1>1. /\ state[n] = "follower" /\ elected' = elected /\ rvReplies' = rvReplies
      /\ state' = [state EXCEPT ![n] = "candidate"]
      /\ currentTerm' = [currentTerm EXCEPT ![n] = currentTerm[n] + 1]
      /\ votedFor' = [votedFor EXCEPT ![n] = n]
      /\ voteCount' = [voteCount EXCEPT ![n] = 1]
      /\ rvRequests' = ToPeers(rvRequests, n, requests)
  BY DEF FollowerOnTimeout, CandidateOnStateChanged
<1>2. /\ state'[n] = "candidate" /\ currentTerm'[n] = currentTerm[n] + 1 /\ voteCount'[n] = 1
      /\ \A s \in Server \ {n} : /\ state'[s] = state[s] /\ currentTerm'[s] = currentTerm[s]
                                 /\ votedFor'[s] = votedFor[s] /\ voteCount'[s] = voteCount[s]
  BY <1>0, <1>1 DEF TypeOK, ElectionTypeOK
<1>3. currentTerm'[n] # currentTerm[n]
  BY <1>0, <1>2
<1>4. /\ \A s \in Server : KeepsVote(s)
      /\ \A s \in Server \ {n} : KeepsCount(s)
  BY <1>2, <1>3 DEF KeepsVote, KeepsCount
<1>5. ASSUME NEW a \in Recipients(n)
      PROVE  NewRequest(n, Request(a)) /\ peers[n][a] = 1 /\ Request(a).to = a
  <2>1. a \in Server /\ peers[n][a] > 0 /\ a \in Address /\ a # None
    BY NoneAssumption DEF Recipients, Address
  <2>2. n \in Members /\ a \in Members /\ a # n /\ peers[n][a] = 1
    BY <2>1, OtherMembers DEF FixedInv
  <2>3. TermAt(log[n], LastIndex(log[n])) <= currentTerm[n]
    <3>1. LastIndex(log[n]) + 1 \in DOMAIN log[n] => log[n][LastIndex(log[n]) + 1].term <= currentTerm[n]
      BY DEF OrderInv, LogTermsOrdered
    <3> QED
      BY <1>0, <3>1 DEF TermAt, HasEntry, EntryAt
  <2> QED
    BY <2>2, <2>3 DEF NewRequest
<1>6. ASSUME NEW m \in DOMAIN rvRequests PROVE ~NewRequest(n, m)
  <2>1. m.term <= currentTerm[m.from]
    BY DEF Asked
  <2> QED
    BY <1>0, <2>1 DEF NewRequest
<1> HIDE DEF Request
<1>7. DOMAIN rvRequests' = DOMAIN rvRequests \union requests
  BY <1>1, ToPeersDomain
<1>8. ASSUME NEW m \in DOMAIN rvRequests'
      PROVE  /\ rvRequests'[m] = 1
             /\ m \notin DOMAIN rvRequests => NewRequest(n, m)
             /\ NewRequest(n, m) => m = Request(m.to)
  <2>1. CASE m \in requests
    <3>1. PICK a \in Recipients(n) : m = Request(a)
      BY <2>1
    <3>2. NewRequest(n, m) /\ peers[n][m.to] = 1 /\ m = Request(m.to)
      BY <1>5, <3>1
    <3>3. m \notin DOMAIN rvRequests
      BY <1>6, <3>2
    <3>4. rvRequests'[m] = 1
      BY <1>1, <2>1, <3>2, <3>3, ToPeersOne
    <3> QED
      BY <3>2, <3>4
  <2>2. CASE m \notin requests
    <3>1. m \in DOMAIN rvRequests /\ rvRequests[m] = 1
      BY <1>7, <2>2 DEF SingleVotes
    <3>2. rvRequests'[m] = 1
      BY <1>1, <2>2, <3>1, ToPeersOne
    <3> QED
      BY <1>6, <3>1, <3>2
  <2> QED
    BY <2>1, <2>2
<1> HIDE DEF requests
<1>9. \A m \in DOMAIN rvRequests', k \in DOMAIN rvRequests' :
        NewRequest(n, m) /\ NewRequest(n, k) /\ m.to = k.to => m = k
  BY <1>8
<1> QED
  BY <1>1, <1>2, <1>4, <1>8, <1>9

LEMMA StandsBallots ==
  ASSUME SafeSetting, OrderInv, TypeOK', TermsGrow, ElectedInv, FixedInv,
         NEW B, NEW C, BallotInv(B, C), NEW n \in Server, FollowerOnTimeout(n),
         NEW own, own = <<currentTerm[n] + 1, n, n>>
  PROVE  BallotInv(B \union {own}, C \union {own})'
<1> DEFINE E == B \union {own}
           D == C \union {own}
           t == currentTerm[n] + 1
<1>0. /\ TypeOK /\ currentTerm[n] \in Nat /\ t \in Nat /\ ~(t <= currentTerm[n])
      /\ own[1] = t /\ own[2] = n /\ own[3] = n
  BY DEF OrderInv, TypeOK, ElectionTypeOK
<1>1. /\ state'[n] = "candidate" /\ currentTerm'[n] = t /\ voteCount'[n] = 1
      /\ \A s \in Server : KeepsVote(s)
      /\ \A s \in Server \ {n} : KeepsCount(s)
      /\ elected' = elected /\ rvReplies' = rvReplies
      /\ \A m \in DOMAIN rvRequests' :
           /\ rvRequests'[m] = 1
           /\ m \notin DOMAIN rvRequests => NewRequest(n, m)
      /\ \A m \in DOMAIN rvRequests', k \in DOMAIN rvRequests' :
           NewRequest(n, m) /\ NewRequest(n, k) /\ m.to = k.to => m = k
  BY Stands DEF BallotInv
<1>2. SingleVotes'
  BY <1>1 DEF SingleVotes, BallotInv
<1>3. Cast(E, D)'
  <2>1. Cast(B, C) /\ C \subseteq B
    BY DEF BallotInv, Cast
  <2>2. Cast(B, C)'
    BY <1>0, <1>1, <2>1, CastKept
  <2>3. own \in Nat \X Server \X Server /\ t <= t
    BY <1>0
  <2> QED
    BY <1>0, <1>1, <2>2, <2>3, CastOneMore
<1>4. \A b \in B : b[2] = n => b[1] # t
  BY <1>0 DEF BallotInv, Cast
<1>5. Counted(D)'
  <2> SUFFICES ASSUME NEW s \in Server, state'[s] = "candidate"
               PROVE  /\ <<currentTerm'[s], s, s>> \in D
                      /\ Cardinality(Voters(D, currentTerm'[s], s)) = voteCount'[s]
    BY DEF Counted
  <2>1. CASE s = n
    <3>1. Voters(D, t, n) = {n}
      <4>1. ASSUME NEW v \in Server, <<t, n, v>> \in C PROVE FALSE
        <5> DEFINE b == <<t, n, v>>
        <5>1. b \in B /\ b[1] = t /\ b[2] = n
          BY <4>1 DEF BallotInv, Cast
        <5> HIDE DEF b
        <5> QED
          BY <1>4, <5>1
      <4> QED
        BY <4>1 DEF Voters
    <3> QED
      BY <1>1, <2>1, <3>1, FS_Singleton
  <2>2. CASE s # n
    <3>1. state[s] = "candidate" /\ currentTerm'[s] = currentTerm[s] /\ voteCount'[s] = voteCount[s]
      BY <1>1, <2>2 DEF KeepsCount
    <3>2. Voters(D, currentTerm[s], s) = Voters(C, currentTerm[s], s)
      BY <1>0, <2>2, VotersSame
    <3> QED
      BY <3>1, <3>2 DEF BallotInv, Counted
  <2> QED
    BY <2>1, <2>2
<1>6. Asked(E)'
  <2> SUFFICES ASSUME NEW m \in DOMAIN rvRequests'
               PROVE  /\ m.from \in Members /\ m.to \in Members /\ m.from # m.to
                      /\ m.term <= currentTerm'[m.from] /\ m.lastLogTerm < m.term
                      /\ AskedFor(m) \notin E
                      /\ \A k \in DOMAIN rvRequests' : AskedFor(k) = AskedFor(m) => k = m
    BY DEF Asked, AskedFor
  <2>1. ASSUME NEW k \in DOMAIN rvRequests
        PROVE  /\ k.from \in Members /\ k.to \in Members /\ k.from # k.to
               /\ k.term <= currentTerm'[k.from] /\ k.lastLogTerm < k.term
               /\ AskedFor(k) \notin E /\ ~NewRequest(n, k)
    <3>1. /\ k.from \in Members /\ k.to \in Members /\ k.from # k.to
          /\ k.term <= currentTerm[k.from] /\ k.lastLogTerm < k.term
          /\ AskedFor(k) \notin B
      BY DEF BallotInv, Asked
    <3>2. k.term \in Nat /\ k.from \in Server
      BY <1>0, VoteRequestFields DEF TypeOK
    <3>3. currentTerm[k.from] <= currentTerm'[k.from]
          /\ currentTerm[k.from] \in Nat /\ currentTerm'[k.from] \in Nat
      BY <1>0, <3>2 DEF TermsGrow, TypeOK, ElectionTypeOK
    <3>4. AskedFor(k) # own
      BY <3>1 DEF AskedFor
    <3>5. ~NewRequest(n, k)
      BY <1>0, <3>1 DEF NewRequest
    <3>6. k.term <= currentTerm'[k.from]
      BY <3>1, <3>2, <3>3
    <3> QED
      BY <3>1, <3>4, <3>5, <3>6
  <2>2. ASSUME NEW k \in DOMAIN rvRequests', NewRequest(n, k)
        PROVE  /\ k.from \in Members /\ k.to \in Members /\ k.from # k.to
               /\ k.term <= currentTerm'[k.from] /\ k.lastLogTerm < k.term
               /\ AskedFor(k) \notin E
    <3>1. /\ k.from = n /\ n \in Members /\ k.to \in Members /\ k.to # n
          /\ k.term = t /\ k.lastLogTerm <= currentTerm[n]
      BY <2>2 DEF NewRequest
    <3>2. k \in RequestVoteRequest
      BY DEF TypeOK, VoteTypeOK
    <3>3. k.lastLogTerm < k.term
      <4>1. k.lastLogTerm \in Int
        BY <3>2 DEF RequestVoteRequest
      <4> QED
        BY <1>0, <3>1, <4>1
    <3>4. AskedFor(k) \notin E
      <4> DEFINE b == AskedFor(k)
      <4>1. b[1] = t /\ b[2] = n /\ b[3] # n
        BY <3>1 DEF AskedFor
      <4> HIDE DEF b
      <4>2. b \notin B /\ b # own
        BY <1>0, <1>4, <4>1
      <4> QED
        BY <4>2 DEF b
    <3> QED
      BY <1>0, <1>1, <3>1, <3>3, <3>4
  <2>3. ASSUME NEW k \in DOMAIN rvRequests', AskedFor(k) = AskedFor(m) PROVE k = m
    <3>1. k.term = m.term /\ k.from = m.from /\ k.to = m.to
      BY <2>3 DEF AskedFor
    <3>2. CASE k \in DOMAIN rvRequests /\ m \in DOMAIN rvRequests
      BY <2>3, <3>2 DEF BallotInv, Asked
    <3>3. CASE NewRequest(n, k) /\ NewRequest(n, m)
      BY <1>1, <3>1, <3>3
    <3>4. CASE k \in DOMAIN rvRequests /\ NewRequest(n, m)
      BY <1>0, <3>1, <3>4 DEF NewRequest, BallotInv, Asked
    <3>5. CASE m \in DOMAIN rvRequests /\ NewRequest(n, k)
      BY <1>0, <3>1, <3>5 DEF NewRequest, BallotInv, Asked
    <3> QED
      BY <1>1, <3>2, <3>3, <3>4, <3>5
  <2> QED
    BY <1>1, <2>1, <2>2, <2>3
<1>7. Granted(E, D)'
  <2>1. OldReplies
    BY <1>1, <1>2 DEF OldReplies, SingleVotes
  <2>2. \A r \in DOMAIN rvReplies' : r.voteGranted => GrantedBy(r) \notin D \ C
    BY <1>1 DEF BallotInv, Granted, GrantedBy
  <2> QED
    BY <2>1, <2>2, GrantedKept DEF BallotInv
<1>8. Won(E, D)'
  <2>1. Won(B, D)'
    <3>1. Won(E, C)
      BY <1>0 DEF BallotInv, Won
    <3>2. Won(E, D)'
      BY <1>0, <1>1, <1>3, <3>1, WonKept
    <3> QED
      BY <3>2 DEF Won
  <2> QED
    BY <1>0, <1>1, <2>1 DEF Won, BallotInv
<1> QED
  BY <1>2, <1>3, <1>5, <1>6, <1>7, <1>8 DEF BallotInv

LEMMA CastsBallots ==
  ASSUME SafeSetting, TypeOK, TypeOK', TermsGrow, ElectedInv, LastOfElected,
         NEW B, NEW C, BallotInv(B, C), NEW m \in DOMAIN rvRequests, CastsVote(m)
  PROVE  BallotInv(B \union {AskedFor(m)}, C)'
<1> DEFINE new == AskedFor(m)
           n == m.to
           E == B \union {new}
<1>0. /\ n \in Server /\ m.from \in Server /\ m.term \in Nat
      /\ new[1] = m.term /\ new[2] = m.from /\ new[3] = n /\ new \in Nat \X Server \X Server
  BY VoteRequestFields DEF TypeOK, AskedFor
<1>1. /\ m.from \in Members /\ n \in Members /\ m.from # n
      /\ m.term <= currentTerm[m.from] /\ m.lastLogTerm < m.term /\ new \notin B
  BY DEF BallotInv, Asked
<1>2. /\ state'[n] = "follower" /\ votedFor'[n] = m.from
      /\ currentTerm[n] <= m.term /\ currentTerm'[n] = m.term
      /\ state[n] # "follower" => currentTerm[n] < m.term
      /\ state[n] = "follower" => votedFor[n] \in {None, m.from}
      /\ AsUpdatedAs(m.lastLogTerm, m.lastLogIndex, log[n])
      /\ \A s \in Server \ {n} : KeepsVote(s) /\ KeepsCount(s)
      /\ elected' = elected
      /\ OldRequests /\ m \notin DOMAIN rvRequests'
  BY DEF CastsVote
<1>3. PICK t \in Nat : \A r \in DOMAIN rvReplies' : r.voteGranted =>
        \/ r \in DOMAIN rvReplies /\ rvReplies'[r] = 1
        \/ r = GrantingReply(m, t) /\ (r \notin DOMAIN rvReplies => rvReplies'[r] = 1)
  BY DEF CastsVote
<1> DEFINE reply == GrantingReply(m, t)
<1>4. reply.voteGranted /\ GrantedBy(reply) = new /\ reply.from = n /\ reply.to = m.from
  BY DEF GrantingReply, GrantedBy, AskedFor
<1>5. reply \notin DOMAIN rvReplies
  BY <1>1, <1>4 DEF BallotInv, Granted
<1> HIDE DEF reply, new
<1>6. KeepsVote(n)
  BY <1>0, <1>2, NoneAssumption DEF KeepsVote
<1>7. SingleVotes'
  <2>1. \A k \in DOMAIN rvRequests' : rvRequests'[k] = 1
    BY <1>2 DEF OldRequests
  <2>2. \A r \in DOMAIN rvReplies' : r.voteGranted => rvReplies'[r] = 1
    BY <1>3, <1>5 DEF reply
  <2> QED
    BY <2>1, <2>2 DEF SingleVotes
<1>8. Cast(E, C)'
  <2>1. Cast(B, C) /\ C \subseteq B
    BY DEF BallotInv, Cast
  <2>2. Cast(B, C)'
    BY <1>2, <1>6, <2>1, CastKept
  <2>3. m.term <= currentTerm'[m.from] /\ m.term <= currentTerm'[n]
    <3>1. currentTerm[m.from] <= currentTerm'[m.from]
          /\ currentTerm[m.from] \in Nat /\ currentTerm'[m.from] \in Nat
      BY <1>0 DEF TermsGrow, TypeOK, ElectionTypeOK
    <3> QED
      BY <1>0, <1>1, <1>2, <3>1
  <2>4. ASSUME NEW b \in B, b[1] = m.term, b[3] = n, b[2] # n PROVE b[2] = m.from
    <3>1. b[2] \in Server /\ b[1] <= currentTerm[n] /\ currentTerm[n] \in Nat
      BY <1>0, <2>1, <2>4, BallotFields DEF Cast, TypeOK, ElectionTypeOK
    <3>2. b[1] = currentTerm[n]
      BY <1>0, <1>2, <2>4, <3>1
    <3>3. state[n] = "follower" /\ votedFor[n] = b[2]
      BY <2>1, <2>4, <3>2 DEF Cast
    <3> QED
      BY <1>2, <3>1, <3>3, NoneAssumption
  <2> QED
    BY <1>0, <1>1, <1>2, <2>2, <2>3, <2>4, CastOneMore
<1>9. Counted(C)'
  BY <1>2 DEF BallotInv, Counted, KeepsCount
<1>10. Asked(E)'
  <2>1. Asked(B)'
    BY <1>2, AskedKept DEF BallotInv
  <2>2. \A k \in DOMAIN rvRequests' : AskedFor(k) # new
    BY <1>2 DEF BallotInv, Asked, OldRequests, new
  <2> QED
    BY <2>1, <2>2 DEF Asked, AskedFor
<1>11. Granted(E, C)'
  <2>1. \A r \in DOMAIN rvReplies' : r.voteGranted => r \in DOMAIN rvReplies \/ r = reply
    BY <1>3 DEF reply
  <2>2. ASSUME NEW r \in DOMAIN rvReplies, r.voteGranted
        PROVE  /\ r.from # r.to /\ GrantedBy(r) \in B \ C /\ GrantedBy(r) # GrantedBy(reply)
               /\ \A q \in DOMAIN rvReplies : q.voteGranted /\ GrantedBy(q) = GrantedBy(r) => q = r
    BY <1>1, <1>4, <2>2 DEF BallotInv, Granted
  <2>3. GrantedBy(reply) \in E \ C /\ reply.from # reply.to
    BY <1>1, <1>4 DEF BallotInv, Cast
  <2>4. ASSUME NEW r \in DOMAIN rvReplies', r.voteGranted
        PROVE  /\ r.from # r.to /\ GrantedBy(r) \in E \ C
               /\ \A q \in DOMAIN rvReplies' : q.voteGranted /\ GrantedBy(q) = GrantedBy(r) => q = r
    BY <2>1, <2>2, <2>3, <2>4
  <2> QED
    BY <2>4 DEF Granted, GrantedBy
<1>12. Won(E, C)'
  <2>1. Won(B, C)'
    BY <1>2, <1>8, WonKept DEF BallotInv, Won
  <2>2. ASSUME NEW e \in elected, e[1] = m.term, e[2] = n PROVE FALSE
    <3>1. e[1] <= currentTerm[n] /\ currentTerm[n] \in Nat
      BY <1>0, <2>2 DEF ElectedInv, TypeOK, ElectionTypeOK
    <3>2. e[1] = currentTerm[n]
      BY <1>0, <1>2, <2>2, <3>1
    <3>3. TermAt(log[n], LastIndex(log[n])) = m.term
      BY <2>2, <3>2 DEF LastOfElected
    <3>4. log[n] # << >>
      <4>1. TermAt(<< >>, LastIndex(<< >>)) = -1
        BY DEF TermAt, LastIndex, HasEntry
      <4> QED
        BY <1>0, <3>3, <4>1
    <3>5. m \in RequestVoteRequest
      BY DEF TypeOK, VoteTypeOK
    <3>6. m.lastLogTerm \in Int
      BY <3>5 DEF RequestVoteRequest
    <3> QED
      BY <1>0, <1>1, <1>2, <3>3, <3>4, <3>6 DEF AsUpdatedAs
  <2> QED
    BY <1>0, <1>2, <2>1, <2>2 DEF Won
<1> QED
  BY <1>7, <1>8, <1>9, <1>10, <1>11, <1>12 DEF BallotInv, new

LEMMA CountsBallots ==
  ASSUME SafeSetting, TypeOK, TypeOK', TermsGrow, FixedInv,
         NEW B, NEW C, BallotInv(B, C), NEW r \in DOMAIN rvReplies, CountsVote(r)
  PROVE  BallotInv(B, C \union {GrantedBy(r)})'
<1> DEFINE new == GrantedBy(r)
           n == r.to
           D == C \union {new}
           t == currentTerm[n]
<1>0. r \in RequestVoteReply /\ n \in Server /\ r.from \in Server /\ t \in Nat
  BY DEF TypeOK, VoteTypeOK, RequestVoteReply, ElectionTypeOK
<1>1. /\ state[n] = "candidate" /\ r.voteGranted /\ r.asked = t
      /\ currentTerm' = currentTerm /\ voteCount'[n] = voteCount[n] + 1
      /\ \/ state'[n] = "candidate" /\ elected' = elected
         \/ /\ state'[n] = "leader" /\ WinsElection(n)
            /\ elected' = elected \union {<<t, n>>}
      /\ \A s \in Server \ {n} : KeepsVote(s) /\ KeepsCount(s)
      /\ OldRequests /\ OldReplies /\ r \notin DOMAIN rvReplies'
  BY DEF CountsVote
<1>2. new[1] = t /\ new[2] = n /\ new[3] = r.from /\ new = <<t, n, r.from>>
  BY <1>1 DEF GrantedBy
<1>3. new \in B /\ new \notin C /\ r.from # n /\ C \subseteq B
  BY <1>1 DEF BallotInv, Granted, Cast
<1>4. n \in Members
  BY <1>2, <1>3 DEF BallotInv, Cast
<1> HIDE DEF new
<1>5. SingleVotes'
  BY <1>1 DEF SingleVotes, OldRequests, OldReplies
<1>6. Cast(B, D)'
  <2>1. \A s \in Server : KeepsVote(s)
    BY <1>1 DEF KeepsVote
  <2>2. D \subseteq B /\ C \subseteq D
    BY <1>3
  <2> HIDE DEF D
  <2> QED
    BY <2>1, <2>2, CastKept DEF BallotInv
<1>7. Cardinality(Voters(D, t, n)) = voteCount[n] + 1
  <2>1. Voters(D, t, n) = Voters(C, t, n) \union {r.from}
    BY <1>0, <1>2 DEF Voters
  <2>2. r.from \notin Voters(C, t, n)
    BY <1>2, <1>3 DEF Voters
  <2>3. IsFiniteSet(Voters(C, t, n))
    <3>1. \A b \in C : b[2] # b[3] => b[3] \in Members
      BY DEF BallotInv, Cast
    <3> QED
      BY <3>1, VotersFinite
  <2>4. Cardinality(Voters(C, t, n)) = voteCount[n]
    BY <1>0, <1>1 DEF BallotInv, Counted
  <2> QED
    BY <2>1, <2>2, <2>3, <2>4, FS_AddElement
<1>8. Counted(D)'
  <2> SUFFICES ASSUME NEW s \in Server, state'[s] = "candidate"
               PROVE  /\ <<currentTerm[s], s, s>> \in D
                      /\ Cardinality(Voters(D, currentTerm[s], s)) = voteCount'[s]
    BY <1>1 DEF Counted
  <2>1. CASE s = n
    BY <1>1, <1>7, <2>1 DEF BallotInv, Counted
  <2>2. CASE s # n
    <3>1. state[s] = "candidate" /\ voteCount'[s] = voteCount[s]
      BY <1>1, <2>2 DEF KeepsCount
    <3>2. Voters(D, currentTerm[s], s) = Voters(C, currentTerm[s], s)
      BY <1>2, <2>2, VotersSame
    <3> QED
      BY <3>1, <3>2 DEF BallotInv, Counted
  <2> QED
    BY <2>1, <2>2
<1>9. Asked(B)'
  BY <1>1, AskedKept DEF BallotInv
<1>10. Granted(B, D)'
  <2>1. ASSUME NEW q \in DOMAIN rvReplies', q.voteGranted PROVE GrantedBy(q) # new
    BY <1>1, <2>1 DEF BallotInv, Granted, OldReplies, new
  <2> QED
    BY <1>1, <2>1, GrantedKept DEF BallotInv
<1>11. Won(B, D)'
  <2>1. ASSUME NEW e \in elected
        PROVE  2 * Cardinality(Voters(D, e[1], e[2])) > Cardinality(Members)
    <3>1. 2 * Cardinality(Voters(C, e[1], e[2])) > Cardinality(Members)
      BY DEF BallotInv, Won
    <3>2. \A b \in D : b[2] # b[3] => b[3] \in Members
      BY <1>3 DEF BallotInv, Cast
    <3>3. IsFiniteSet(Voters(D, e[1], e[2])) /\ C \subseteq D
      BY <3>2, VotersFinite
    <3>4. Cardinality(Members) \in Nat
      BY FS_CardinalityType DEF SafeSetting
    <3> QED
      BY <3>1, <3>3, <3>4, VotersGrow
  <2>2. ASSUME WinsElection(n) PROVE 2 * Cardinality(Voters(D, t, n)) > Cardinality(Members)
    <3>1. Size(peers[n]) = Cardinality(Members) - 1
      <4>1. peers[n] = InitialPeers(n) /\ IsFiniteSet(Members)
        BY <1>0 DEF FixedInv, SafeSetting
      <4> QED
        BY <1>4, <4>1, SizeOfMembers
    <3>2. Cardinality(Members) \in Nat /\ Cardinality(Members) % 2 = 1 /\ voteCount[n] \in Nat
      <4>1. Cardinality(Members) \in Nat /\ Cardinality(Members) % 2 = 1
        BY FS_CardinalityType DEF SafeSetting
      <4> QED
        BY <1>0, <4>1 DEF TypeOK, ElectionTypeOK
    <3>3. 2 * (voteCount[n] + 1) > Cardinality(Members) - 1
      BY <2>2, <3>1 DEF WinsElection
    <3>4. \A k \in Nat, v \in Nat : k % 2 = 1 /\ 2 * (v + 1) > k - 1 => 2 * (v + 1) > k
      OBVIOUS
    <3> QED
      BY <1>7, <3>2, <3>3, <3>4
  <2>3. \A b \in B : b[1] = t /\ b[3] = n => b[2] = n
    BY <1>1 DEF BallotInv, Cast
  <2>4. \A e \in elected : /\ e[2] \in Members
                           /\ \A b \in B : b[1] = e[1] /\ b[3] = e[2] => b[2] = e[2]
    BY DEF BallotInv, Won
  <2>5. ASSUME NEW e \in elected'
        PROVE  /\ e[2] \in Members
               /\ \A b \in B : b[1] = e[1] /\ b[3] = e[2] => b[2] = e[2]
               /\ 2 * Cardinality(Voters(D, e[1], e[2])) > Cardinality(Members)
    <3>1. CASE e \in elected
      BY <2>1, <2>4, <3>1
    <3>2. CASE e = <<t, n>> /\ WinsElection(n)
      <4>1. e[1] = t /\ e[2] = n
        BY <3>2
      <4> QED
        BY <1>4, <2>2, <2>3, <3>2, <4>1
    <3> QED
      BY <1>1, <3>1, <3>2
  <2> QED
    BY <2>5 DEF Won
<1> QED
  BY <1>5, <1>6, <1>8, <1>9, <1>10, <1>11 DEF BallotInv, new

-----------------------------------------------------------------------------
(* And what their voters' logs were compared with stays true of them. *)

\* A log changes only with a leader of the term that its server is then in.
LEMMA LogKept ==
  ASSUME TypeOK, TypeOK', ElectedInv', SentInv, [Next]_vars, NEW v \in Server
  PROVE  log'[v] = log[v] \/ \E d \in Server : <<currentTerm'[v], d>> \in elected'
<1>1. LogChanges /\ Leads
  BY NextEffects, NextLeads DEF Effects
<1>2. elected \subseteq elected'
  BY <1>1 DEF Leads, Wins
<1>3. ASSUME NEW n \in Server, NEW entry \in LogEntry, AppendsOwn(n, entry), state'[n] = "leader"
      PROVE  log'[v] = log[v] \/ \E d \in Server : <<currentTerm'[v], d>> \in elected'
  <2>1. n # v => log'[v] = log[v]
    BY <1>3 DEF AppendsOwn, TypeOK, LogTypeOK
  <2> QED
    BY <1>3, <2>1 DEF ElectedInv
<1>4. ASSUME NEW m \in DOMAIN aeRequests, TakesOver(m)
      PROVE  log'[v] = log[v] \/ \E d \in Server : <<currentTerm'[v], d>> \in elected'
  <2>1. m.to # v => log'[v] = log[v]
    BY <1>4 DEF TakesOver, AppendEntriesToLog, TypeOK, LogTypeOK
  <2>2. m.from \in Server /\ <<m.term, m.from>> \in elected /\ currentTerm'[m.to] = m.term
    BY <1>4, AppendRequestFields DEF TakesOver, SentInv, TypeOK
  <2> QED
    BY <1>2, <2>1, <2>2
<1> QED
  BY <1>1, <1>3, <1>4 DEF LogChanges

\* a server that is a candidate after the step, in a term it had reached before
LEMMA StillRuns ==
  ASSUME TypeOK, TypeOK', [Next]_vars, NEW c \in Server, state'[c] = "candidate",
         NEW t \in Nat, t <= currentTerm[c], t = currentTerm'[c]
  PROVE  state[c] = "candidate" /\ t = currentTerm[c] /\ log'[c] = log[c]
<1>1. RunsOn(c)
  BY NextLeads DEF Leads
<1> QED
  BY <1>1 DEF RunsOn, TypeOK, ElectionTypeOK

LEMMA UpToDateKept ==
  ASSUME TypeOK, TypeOK', ElectedInv', SentInv, [Next]_vars,
         NEW B, NEW C, Cast(B, C), UpToDate(B),
         NEW b \in B, state'[b[2]] = "candidate", b[1] = currentTerm'[b[2]]
  PROVE  \/ currentTerm'[b[3]] > b[1]
         \/ ~MoreUpdated(log'[b[3]], log'[b[2]])
         \/ \E d \in Server : <<b[1], d>> \in elected'
<1> DEFINE c == b[2]
           v == b[3]
           t == b[1]
<1>1. /\ c \in Server /\ v \in Server /\ t \in Nat
      /\ t <= currentTerm[c] /\ t <= currentTerm[v]
  BY BallotFields DEF Cast
<1>2. state[c] = "candidate" /\ t = currentTerm[c] /\ log'[c] = log[c]
  BY <1>1, StillRuns
<1>3. currentTerm[v] \in Nat /\ currentTerm'[v] \in Nat /\ currentTerm[v] <= currentTerm'[v]
  BY <1>1, NextEffects DEF Effects, TermsGrow, TypeOK, ElectionTypeOK
<1>4. elected \subseteq elected'
  BY NextLeads DEF Leads, Wins
<1>5. log'[v] = log[v] \/ \E d \in Server : <<currentTerm'[v], d>> \in elected'
  BY <1>1, LogKept
<1>6. \/ currentTerm[v] > t
      \/ ~MoreUpdated(log[v], log[c])
      \/ \E d \in Server : <<t, d>> \in elected
  BY <1>2 DEF UpToDate
<1>7. currentTerm'[v] > t \/ currentTerm'[v] = t
  BY <1>1, <1>3
<1>8. currentTerm[v] > t => currentTerm'[v] > t
  BY <1>1, <1>3
<1> QED
  BY <1>2, <1>4, <1>5, <1>6, <1>7, <1>8

LEMMA RequestKept ==
  ASSUME TypeOK, TypeOK', [Next]_vars, NEW B, Asked(B), UpToDate(B), NEW m \in DOMAIN rvRequests,
         state'[m.from] = "candidate", m.term = currentTerm'[m.from]
  PROVE  /\ m.lastLogIndex = LastIndex(log'[m.from])
         /\ m.lastLogTerm = TermAt(log'[m.from], LastIndex(log'[m.from]))
<1>1. m.from \in Server /\ m.term \in Nat /\ m.term <= currentTerm[m.from]
  BY VoteRequestFields DEF TypeOK, Asked
<1>2. state[m.from] = "candidate" /\ m.term = currentTerm[m.from] /\ log'[m.from] = log[m.from]
  BY <1>1, StillRuns
<1> QED
  BY <1>2 DEF UpToDate

\* the comparison that a voter makes is the one between the logs
LEMMA NoMoreUpdated ==
  ASSUME NEW l \in Seq(LogEntry), NEW k \in Seq(LogEntry),
         AsUpdatedAs(TermAt(k, LastIndex(k)), LastIndex(k), l)
  PROVE  ~MoreUpdated(l, k)
<1>1. /\ Len(l) \in Nat /\ Len(k) \in Nat
      /\ DOMAIN l = 1 .. Len(l) /\ DOMAIN k = 1 .. Len(k)
  BY LenProperties
<1>2. /\ l # << >> => Len(l) \in DOMAIN l /\ l[Len(l)].term \in Nat
      /\ k # << >> => Len(k) \in DOMAIN k /\ k[Len(k)].term \in Nat
      /\ l = << >> => Len(l) = 0
      /\ k = << >> => Len(k) = 0
  BY <1>1, EmptySeq, ElementOfSeq, EntryFields
<1>3. /\ TermAt(l, LastIndex(l)) = IF l = << >> THEN -1 ELSE l[Len(l)].term
      /\ TermAt(k, LastIndex(k)) = IF k = << >> THEN -1 ELSE k[Len(k)].term
      /\ LastIndex(l) = Len(l) - 1 /\ LastIndex(k) = Len(k) - 1
  BY <1>1, <1>2 DEF TermAt, HasEntry, EntryAt, LastIndex
<1> QED
  BY <1>1, <1>2, <1>3 DEF AsUpdatedAs, MoreUpdated

LEMMA UpToDateSame ==
  ASSUME TypeOK, TypeOK', ElectedInv', SentInv, [Next]_vars,
         NEW B, NEW C, Cast(B, C), Asked(B), UpToDate(B), OldRequests
  PROVE  UpToDate(B)'
<1>1. \A b \in B : state'[b[2]] = "candidate" /\ b[1] = currentTerm'[b[2]] =>
        \/ currentTerm'[b[3]] > b[1]
        \/ ~MoreUpdated(log'[b[3]], log'[b[2]])
        \/ \E d \in Server : <<b[1], d>> \in elected'
  BY UpToDateKept
<1>2. ASSUME NEW m \in DOMAIN rvRequests', state'[m.from] = "candidate", m.term = currentTerm'[m.from]
      PROVE  /\ m.lastLogIndex = LastIndex(log'[m.from])
             /\ m.lastLogTerm = TermAt(log'[m.from], LastIndex(log'[m.from]))
  <2>1. m \in DOMAIN rvRequests
    BY DEF OldRequests
  <2> QED
    BY <1>2, <2>1, RequestKept
<1> QED
  BY <1>1, <1>2 DEF UpToDate

LEMMA StandsUpToDate ==
  ASSUME OrderInv, TypeOK', ElectedInv', SentInv, FixedInv, [Next]_vars,
         NEW B, NEW C, BallotInv(B, C), UpToDate(B), NEW n \in Server, FollowerOnTimeout(n),
         NEW own, own = <<currentTerm[n] + 1, n, n>>
  PROVE  UpToDate(B \union {own})'
<1>0. TypeOK /\ SingleVotes /\ Cast(B, C) /\ Asked(B) /\ own[2] = n /\ own[3] = n
  BY DEF OrderInv, BallotInv
<1>1. \A m \in DOMAIN rvRequests' : m \notin DOMAIN rvRequests => NewRequest(n, m)
  BY <1>0, Stands
<1>2. log' = log
  BY DEF FollowerOnTimeout
<1>3. \A b \in B : state'[b[2]] = "candidate" /\ b[1] = currentTerm'[b[2]] =>
        \/ currentTerm'[b[3]] > b[1]
        \/ ~MoreUpdated(log'[b[3]], log'[b[2]])
        \/ \E d \in Server : <<b[1], d>> \in elected'
  BY <1>0, UpToDateKept
<1>4. ~MoreUpdated(log'[n], log'[n])
  <2>1. log[n] \in Seq(LogEntry)
    BY <1>0 DEF TypeOK, LogTypeOK
  <2>2. log[n] # << >> => log[n][Len(log[n])] \in LogEntry
    BY <2>1, EmptySeq, ElementOfSeq, LenProperties
  <2>3. Len(log[n]) \in Nat /\ (log[n] # << >> => log[n][Len(log[n])].term \in Nat)
    BY <2>1, <2>2, LenProperties, EntryFields
  <2> QED
    BY <1>2, <2>3 DEF MoreUpdated
<1>5. ASSUME NEW m \in DOMAIN rvRequests', state'[m.from] = "candidate", m.term = currentTerm'[m.from]
      PROVE  /\ m.lastLogIndex = LastIndex(log'[m.from])
             /\ m.lastLogTerm = TermAt(log'[m.from], LastIndex(log'[m.from]))
  <2>1. CASE m \in DOMAIN rvRequests
    BY <1>0, <1>5, <2>1, RequestKept
  <2>2. CASE NewRequest(n, m)
    BY <1>2, <2>2 DEF NewRequest
  <2> QED
    BY <1>1, <2>1, <2>2
<1> QED
  BY <1>0, <1>3, <1>4, <1>5 DEF UpToDate

LEMMA CastsUpToDate ==
  ASSUME TypeOK, TypeOK', ElectedInv', SentInv, [Next]_vars,
         NEW B, NEW C, BallotInv(B, C), UpToDate(B), NEW m \in DOMAIN rvRequests, CastsVote(m)
  PROVE  UpToDate(B \union {AskedFor(m)})'
<1> DEFINE new == AskedFor(m)
           c == m.from
           v == m.to
<1>0. /\ Cast(B, C) /\ Asked(B) /\ OldRequests /\ log' = log
      /\ c \in Server /\ v \in Server /\ new[1] = m.term /\ new[2] = c /\ new[3] = v
  BY VoteRequestFields DEF BallotInv, CastsVote, AskedFor, TypeOK
<1>1. UpToDate(B)'
  BY <1>0, UpToDateSame
<1>2. ASSUME state'[c] = "candidate", m.term = currentTerm'[c]
      PROVE  ~MoreUpdated(log'[v], log'[c])
  <2>1. m.lastLogIndex = LastIndex(log[c]) /\ m.lastLogTerm = TermAt(log[c], LastIndex(log[c]))
    BY <1>0, <1>2, RequestKept
  <2>2. AsUpdatedAs(m.lastLogTerm, m.lastLogIndex, log[v])
    BY DEF CastsVote
  <2>3. log[c] \in Seq(LogEntry) /\ log[v] \in Seq(LogEntry)
    BY <1>0 DEF TypeOK, LogTypeOK
  <2> QED
    BY <1>0, <2>1, <2>2, <2>3, NoMoreUpdated
<1> HIDE DEF new
<1>3. UpToDate(B \union {new})'
  BY <1>0, <1>1, <1>2 DEF UpToDate
<1> QED
  BY <1>3 DEF new

-----------------------------------------------------------------------------
(* The invariant. *)

LEMMA ElectionInit == Init => ElectionInv
<1> SUFFICES ASSUME Init PROVE ElectionInv
  OBVIOUS
<1>1. OrderInv /\ ElectedInv /\ LeaderLastEntryOwnTerm /\ FixedInv
  BY OrderInit, ElectedInit, OwnTermInit, FixedInit
<1>2. DOMAIN rvRequests = {} /\ DOMAIN rvReplies = {} /\ DOMAIN aeRequests = {} /\ elected = {}
  BY DEF Init, InitWith, EmptyBag, SetToBag
<1>3. SentInv /\ LastOfElected /\ SingleVotes
  BY <1>2 DEF SentInv, LastOfElected, SingleVotes
<1>4. Cast({}, {}) /\ Counted({}) /\ Asked({}) /\ Granted({}, {}) /\ Won({}, {}) /\ UpToDate({})
  BY <1>2 DEF Cast, Counted, Asked, Granted, Won, UpToDate, Init, InitWith
<1> QED
  BY <1>1, <1>3, <1>4 DEF ElectionInv, BallotInv

LEMMA BallotsNext ==
  ASSUME SafeSetting, ElectionInv, TypeOK', ElectedInv', [Next]_vars
  PROVE  (\E B, C : BallotInv(B, C) /\ UpToDate(B))'
<1>1. /\ OrderInv /\ TypeOK /\ ElectedInv /\ FixedInv /\ SentInv /\ LastOfElected /\ TermsGrow
  BY NextEffects DEF ElectionInv, OrderInv, Effects
<1>2. PICK B, C : BallotInv(B, C) /\ UpToDate(B)
  BY DEF ElectionInv
<1>3. SingleVotes /\ Cast(B, C) /\ Asked(B)
  BY <1>2 DEF BallotInv
<1>4. CASE Aside
  <2>1. BallotInv(B, C)'
    BY <1>1, <1>2, <1>4, AsideBallots
  <2>2. UpToDate(B)'
    BY <1>1, <1>2, <1>3, <1>4, UpToDateSame DEF Aside
  <2> QED
    BY <2>1, <2>2
<1>5. ASSUME NEW n \in Server, FollowerOnTimeout(n)
      PROVE  (\E D, E : BallotInv(D, E) /\ UpToDate(D))'
  <2>1. PICK own : own = <<currentTerm[n] + 1, n, n>>
    OBVIOUS
  <2>2. BallotInv(B \union {own}, C \union {own})'
    BY <1>1, <1>2, <1>5, <2>1, StandsBallots
  <2>3. UpToDate(B \union {own})'
    BY <1>1, <1>2, <1>5, <2>1, StandsUpToDate
  <2> QED
    BY <2>2, <2>3
<1>6. ASSUME NEW m \in DOMAIN rvRequests, CastsVote(m)
      PROVE  (\E D, E : BallotInv(D, E) /\ UpToDate(D))'
  <2>1. BallotInv(B \union {AskedFor(m)}, C)'
    BY <1>1, <1>2, <1>6, CastsBallots
  <2>2. UpToDate(B \union {AskedFor(m)})'
    BY <1>1, <1>2, <1>6, CastsUpToDate
  <2> QED
    BY <2>1, <2>2
<1>7. ASSUME NEW r \in DOMAIN rvReplies, CountsVote(r)
      PROVE  (\E D, E : BallotInv(D, E) /\ UpToDate(D))'
  <2>1. BallotInv(B, C \union {GrantedBy(r)})'
    BY <1>1, <1>2, <1>7, CountsBallots
  <2>2. UpToDate(B)'
    BY <1>1, <1>2, <1>3, <1>7, UpToDateSame DEF CountsVote
  <2> QED
    BY <2>1, <2>2
<1> QED
  BY <1>1, <1>3, <1>4, <1>5, <1>6, <1>7, NextVotes

LEMMA ElectionInvSafe == SafeSetting /\ ElectionInv => ElectionSafety
<1> SUFFICES ASSUME SafeSetting, ElectionInv PROVE ElectionSafety
  OBVIOUS
<1>1. PICK B, C : BallotInv(B, C)
  BY DEF ElectionInv
<1>2. TypeOK
  BY DEF ElectionInv, OrderInv
<1> QED
  BY <1>1, <1>2, ElectedOnce DEF BallotInv

LEMMA ElectionNext == SafeSetting /\ ElectionInv /\ [Next]_vars => ElectionInv'
<1> SUFFICES ASSUME SafeSetting, ElectionInv, [Next]_vars PROVE ElectionInv'
  OBVIOUS
<1>1. /\ OrderInv /\ TypeOK /\ ElectedInv /\ LeaderLastEntryOwnTerm /\ FixedInv /\ SentInv
      /\ LastOfElected
  BY DEF ElectionInv, OrderInv
<1>2. OrderInv' /\ ElectedInv' /\ LeaderLastEntryOwnTerm' /\ TypeOK'
  BY <1>1, OrderNext, ElectedNext, OwnTermNext, TypeNext
<1>3. FixedInv' /\ SentInv'
  BY <1>1, FixedNext, SentNext
<1>4. LastOfElected'
  BY <1>1, ElectionInvSafe, LastNext
<1>5. (\E B, C : BallotInv(B, C) /\ UpToDate(B))'
  BY <1>2, BallotsNext
<1> QED
  BY <1>2, <1>3, <1>4, <1>5 DEF ElectionInv

\* what the invariant gives, in a cluster that is safe
LEMMA ElectionInvariant == SafeSetting /\ Spec => []ElectionInv
<1>1. CASE SafeSetting
  <2>1. ElectionInv /\ [Next]_vars => ElectionInv'
    BY <1>1, ElectionNext
  <2> QED
    BY <2>1, ElectionInit, PTL DEF Spec
<1> QED
  BY <1>1

\* At most one server becomes leader in a term, so that a candidate may take a
\* leader of its term as authentic (candidate.go:75), although requests and
\* replies are lost and delayed, timers fire early, "majority" is half of the
\* peers (candidate.go:117), a candidate that gives up forgets that it voted for
\* itself (follower.go:12-16), and a leader may step down within its term.
THEOREM ElectionsAreSafe == SafeSetting /\ Spec => []ElectionSafety
<1>1. CASE SafeSetting
  <2>1. ElectionInv => ElectionSafety
    BY <1>1, ElectionInvSafe
  <2> QED
    BY <1>1, <2>1, ElectionInvariant, PTL
<1> QED
  BY <1>1

\* Two logs with entries of one term at one index agree up to there
\* (follower.go:62-94), with nothing left to assume of elections.
THEOREM LogsMatchWhereSafe == SafeSetting /\ Spec => []LogMatching
  BY ElectionsAreSafe, LogsMatch, PTL

-----------------------------------------------------------------------------
(* Who wins: all those it counted were behind it when it won. *)

\* The step in which n becomes leader counts a vote, and no leader of the term
\* was there before.
LEMMA WinningStep ==
  ASSUME SafeSetting, ElectionInv, ElectionInv', ElectionSafety', [Next]_vars,
         NEW B, NEW C, BallotInv(B, C), NEW n \in Server, state[n] # "leader", state'[n] = "leader"
  PROVE  /\ state[n] = "candidate"
         /\ \A d \in Server : <<currentTerm[n], d>> \notin elected
         /\ \E D : D \subseteq B /\ 2 * Cardinality(Voters(D, currentTerm[n], n)) > Cardinality(Members)
<1>1. /\ TypeOK /\ TypeOK' /\ ElectedInv /\ FixedInv /\ TermsGrow /\ SingleVotes
      /\ currentTerm[n] \in Nat
  BY NextEffects DEF ElectionInv, OrderInv, Effects, BallotInv, TypeOK, ElectionTypeOK
<1>2. Wins(n)
  BY NextLeads, <1>1 DEF Leads, LeadsOn
<1>3. <<currentTerm[n], n>> \notin elected
  <2>1. ~(currentTerm[n] < currentTerm[n])
    BY <1>1
  <2> DEFINE e == <<currentTerm[n], n>>
  <2>2. e[1] = currentTerm[n] /\ e[2] = n
    OBVIOUS
  <2> HIDE DEF e
  <2>3. e \notin elected
    BY <1>1, <1>2, <2>1, <2>2 DEF ElectedInv, Wins
  <2> QED
    BY <2>3 DEF e
<1>4. \A d \in Server : <<currentTerm[n], d>> \notin elected
  <2> SUFFICES ASSUME NEW d \in Server, <<currentTerm[n], d>> \in elected PROVE FALSE
    OBVIOUS
  <2> QED
    BY <1>2, <1>3 DEF Wins, ElectionSafety
<1>5. elected' # elected
  BY <1>2, <1>3 DEF Wins
<1>6. PICK r \in DOMAIN rvReplies : CountsVote(r)
  BY <1>1, <1>5, NextVotes DEF Aside, CastsVote, FollowerOnTimeout, CandidateOnStateChanged
<1>7. r.to = n
  BY <1>2, <1>3, <1>5, <1>6 DEF CountsVote, Wins
<1> DEFINE D == C \union {GrantedBy(r)}
<1>8. D \subseteq B
  BY <1>6 DEF CountsVote, BallotInv, Granted, Cast
<1>9. BallotInv(B, D)'
  BY <1>1, <1>6, CountsBallots
<1>10. 2 * Cardinality(Voters(D, currentTerm[n], n)) > Cardinality(Members)
  <2> DEFINE e == <<currentTerm[n], n>>
  <2>1. e[1] = currentTerm[n] /\ e[2] = n /\ e \in elected'
    BY <1>2 DEF Wins
  <2> HIDE DEF e, D
  <2> QED
    BY <1>9, <2>1 DEF BallotInv, Won
<1> QED
  BY <1>2, <1>4, <1>8, <1>10 DEF Wins

LEMMA WinnerUpToDate ==
  ASSUME SafeSetting, Members = Server, ElectionInv, ElectionInv', ElectionSafety', [Next]_vars,
         NEW n \in Server, state[n] # "leader", state'[n] = "leader"
  PROVE  2 * Cardinality({m \in Server : \/ currentTerm[m] > currentTerm[n]
                                         \/ ~MoreUpdated(log[m], log[n])}) > Cardinality(Server)
<1> DEFINE behind == {m \in Server : \/ currentTerm[m] > currentTerm[n]
                                     \/ ~MoreUpdated(log[m], log[n])}
<1>1. PICK B, C : BallotInv(B, C) /\ UpToDate(B)
  BY DEF ElectionInv
<1>2. PICK D : D \subseteq B /\ 2 * Cardinality(Voters(D, currentTerm[n], n)) > Cardinality(Members)
  BY <1>1, WinningStep
<1>3. state[n] = "candidate" /\ \A d \in Server : <<currentTerm[n], d>> \notin elected
  BY <1>1, WinningStep
<1>4. ASSUME NEW v \in Voters(D, currentTerm[n], n) PROVE v \in behind
  <2> DEFINE b == <<currentTerm[n], n, v>>
  <2>1. v \in Server /\ b \in B /\ b[1] = currentTerm[n] /\ b[2] = n /\ b[3] = v
    BY <1>2 DEF Voters
  <2> HIDE DEF b
  <2> QED
    BY <1>1, <1>3, <2>1 DEF UpToDate
<1>5. IsFiniteSet(behind) /\ Voters(D, currentTerm[n], n) \subseteq behind
  <2>1. IsFiniteSet(Server) /\ behind \subseteq Server
    BY DEF SafeSetting
  <2> QED
    BY <1>4, <2>1, FS_Subset
<1> HIDE DEF behind
<1>6. /\ Cardinality(Voters(D, currentTerm[n], n)) <= Cardinality(behind)
      /\ Cardinality(Voters(D, currentTerm[n], n)) \in Nat /\ Cardinality(behind) \in Nat
  BY <1>5, FS_Subset, FS_CardinalityType
<1>7. Cardinality(Server) \in Nat
  BY FS_CardinalityType DEF SafeSetting
<1>8. 2 * Cardinality(behind) > Cardinality(Server)
  BY <1>2, <1>6, <1>7
<1> QED
  BY <1>8 DEF behind

\* When a node becomes leader, a majority of the cluster is in a later term or has
\* a log that is no more updated: a vote is given on the log the voter has then
\* (follower.go:261-272), the candidate's log does not change while it runs, and
\* the voter's changes only in a later term or with a leader of this one, which
\* cannot be when the candidate wins.
THEOREM LeadersAreUpToDate == SafeSetting /\ Members = Server /\ Spec => LeaderUpToDate
<1>1. CASE SafeSetting /\ Members = Server
  <2>1. ElectionInv /\ ElectionInv' /\ ElectionSafety' /\ [Next]_vars =>
          [\A n \in Server : state[n] # "leader" /\ state'[n] = "leader" =>
             LET behind == {m \in Server : \/ currentTerm[m] > currentTerm[n]
                                           \/ ~MoreUpdated(log[m], log[n])}
             IN 2 * Cardinality(behind) > Cardinality(Server)]_vars
    BY <1>1, WinnerUpToDate
  <2> QED
    BY <1>1, <2>1, ElectionsAreSafe, ElectionInvariant, PTL DEF Spec, LeaderUpToDate
<1> QED
  BY <1>1

=============================================================================
