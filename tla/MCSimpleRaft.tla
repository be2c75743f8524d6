------------------------------ MODULE MCSimpleRaft ------------------------------
(***************************************************************************)
(* SimpleRaft for TLC.  Servers are model values, so that the nodes that   *)
(* play the same part in the initial state may be permuted.                *)
(*                                                                         *)
(* InitLed saves the runs about replication and membership the first       *)
(* election: First became leader of term 1 with the grant of one other     *)
(* member, and its first, empty AppendEntries are lost.  Init leads to it  *)
(* by CandidateOnStateChanged(First), the voter's grant and its reply; the *)
(* requests still in flight are never delivered.                           *)
(***************************************************************************)
EXTENDS SimpleRaft

CONSTANTS
  First,   \* the leader InitLed begins with
  Down     \* the nodes SpecSomeDown never starts

AllAlike == Permutations(Server \ Down) \union Permutations(Down)
OthersAlike == Permutations(Server \ {First})

LedWithVoteOf(voter) ==
  /\ state = [n \in Server |-> IF n = First THEN "leader" ELSE "follower"]
  /\ currentTerm = [n \in Server |-> IF n \in {First, voter} THEN 1 ELSE 0]
  /\ votedFor = [n \in Server |-> IF n \in {First, voter} THEN First ELSE None]
  /\ voteCount = [n \in Server |-> IF n = First THEN 2 ELSE 0]
  /\ peers = [n \in Server |-> InitialPeers(n)]
  /\ clusterChange = [n \in Server |-> [index |-> -1, term |-> -1]]
  /\ commitIndex = [n \in Server |-> -1]
  /\ lastApplied = [n \in Server |-> -1]
  /\ nextIndex = [n \in Server |-> [a \in Address |-> 0]]
  /\ matchIndex = [n \in Server |-> [a \in Address |->
                     IF n = First /\ a \in Members \ {n} THEN 0 ELSE -1]]
  /\ heard = [n \in Server |-> FALSE]
  /\ log = [n \in Server |-> IF n = First THEN <<NoOpEntry(1)>> ELSE << >>]
  /\ applied = [n \in Server |-> << >>]
  /\ up = [n \in Server |-> TRUE]
  /\ crashes = [n \in Server |-> 0]
  /\ aeRequests = << >> /\ rvRequests = << >> /\ aeReplies = << >> /\ rvReplies = << >>
  /\ elections = 1 /\ ticks = 0
  /\ elected = {<<1, First>>}

InitLed == \E voter \in Members \ {First} : LedWithVoteOf(voter)

SpecLed == InitLed /\ [][Next]_vars

SpecSomeDown == InitWith(Server \ Down) /\ [][Next]_vars
=============================================================================
