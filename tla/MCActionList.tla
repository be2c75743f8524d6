----------------------------- MODULE MCActionList -----------------------------
(***************************************************************************)
(* ActionList for TLC: the follower s2, and the leaders s1, s3 and s4 of   *)
(* the terms 1 to 3 in a cluster that began with s1, s2, s4, s5 and s6.    *)
(*                                                                         *)
(* s1 adds s3, and removes s6 before it hears that s3 has the first change *)
(* (leader.go lets it), without remembering that one: the second is        *)
(* recorded as if it were the first.  It reaches s2 at most.  s3 is        *)
(* elected by s5, s6 and itself.  It has its first entry committed by the  *)
(* answers of s1 and s2 (three of six are a majority to leader.go:380) and *)
(* removes s1.  s5 and s6 elect s4, which knows of the first entry only    *)
(* and removes s1 as well.  So the follower may go forward from one change *)
(* to the next, back behind all of them, and back by way of a record that  *)
(* misleads.                                                               *)
(***************************************************************************)
EXTENDS ActionList, TLC

CONSTANTS s1, s2, s3, s4, s5, s6

Began == {s1, s2, s4, s5, s6}
Grown == Began \union {s3}

\* Each member once: ClusterOf(members), but evaluated at once.  TLC keeps a function
\* constructor as it is until it is needed; with several workers, one may lose the
\* EXCEPT that another applies to the same constant meanwhile (WithoutAddress).
Once(members) == [a \in members |-> 1] @@ NoPeers

Change(term, oldIndex, oldTerm, old, new) ==
  ChangeEntry(term, [oldIndex |-> oldIndex, oldTerm |-> oldTerm,
                     oldCluster |-> Once(old), newCluster |-> Once(new)])

AddS3 == Change(1, -1, -1, Began, Grown)

LogsOfThree ==
  << << NoOpEntry(1), AddS3, Change(1, -1, -1, Grown, Grown \ {s6}) >>,
     << NoOpEntry(1), AddS3, NoOpEntry(2), Change(2, 1, 1, Grown, Grown \ {s1}) >>,
     << NoOpEntry(1), NoOpEntry(3), Change(3, -1, -1, Began, Began \ {s1}) >> >>

PeersOfS2 == Once(Began \ {s2})
=============================================================================
