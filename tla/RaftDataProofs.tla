----------------------------- MODULE RaftDataProofs -----------------------------
(***************************************************************************)
(* What the operators on addresses, entries and logs return, and where a   *)
(* rewind ends.                                                            *)
(***************************************************************************)
EXTENDS RaftData, SequenceTheorems, WellFoundedInduction, TLAPS

-----------------------------------------------------------------------------
(* Clusters, entries and logs. *)

\* an index of two sequences put together is one of the first, or of the second
LEMMA IndexOfBoth ==
  ASSUME NEW a \in Nat, NEW b \in Nat, NEW k \in 1 .. a + b
  PROVE  k <= a \/ (k - a \in 1 .. b /\ a + (k - a) = k)
OBVIOUS

LEMMA IndexOfFirst ==
  ASSUME NEW a \in Nat, NEW b \in Nat, a > 0
  PROVE  a \in 1 .. a + b
OBVIOUS

LEMMA IndexOfSecond ==
  ASSUME NEW a \in Int, a >= -1, NEW b \in Nat, NEW k \in 1 .. b
  PROVE  /\ a + 1 + k \in 1 .. a + 1 + b /\ a + k + 1 = a + 1 + k
         /\ a + 1 + k \in Nat /\ a + k >= 0
OBVIOUS

LEMMA ClusterOperators ==
  ASSUME NEW cluster \in Cluster, NEW a \in Address
  PROVE  /\ PlusAddress(cluster, a) \in Cluster
         /\ WithoutAddress(cluster, a) \in Cluster
         /\ NoPeers \in Cluster
         /\ \A members : ClusterOf(members) \in Cluster
BY DEF Cluster, PlusAddress, WithoutAddress, NoPeers, ClusterOf

LEMMA EntryTypes ==
  ASSUME NEW t \in Nat
  PROVE  /\ NoOpEntry(t) \in LogEntry
         /\ \A c \in Command : CommandEntry(t, c) \in LogEntry
         /\ \A r \in ClusterChangeCommand : ChangeEntry(t, r) \in LogEntry
         /\ NoOpEntry(t).term = t
         /\ \A c : CommandEntry(t, c).term = t
         /\ \A r : ChangeEntry(t, r).term = t
BY DEF LogEntry, NoOpEntry, CommandEntry, ChangeEntry, ClusterChangeKinds

LEMMA EntryFields ==
  ASSUME NEW e \in LogEntry
  PROVE  /\ e.term \in Nat
         /\ RecordOf(e) \in ClusterChangeCommand
<1>1. NoPeers \in Cluster
  BY DEF NoPeers, Cluster
<1>2. e.term \in Nat
  BY DEF LogEntry
<1>3. CASE IsClusterChange(e)
  BY <1>2, <1>3 DEF LogEntry, IsClusterChange, ClusterChangeKinds, RecordOf
<1>4. CASE ~IsClusterChange(e)
  BY <1>1, <1>2, <1>4 DEF RecordOf, ClusterChangeCommand
<1> QED
  BY <1>3, <1>4

\* A part of a log, as the handlers take it: between indices the log has.
LEMMA EntriesFromType ==
  ASSUME NEW l \in Seq(LogEntry), NEW i \in Nat, NEW j \in Int, j <= LastIndex(l)
  PROVE  /\ EntriesFrom(l, i, j) \in Seq(LogEntry)
         /\ Len(EntriesFrom(l, i, j)) = IF i <= j THEN j - i + 1 ELSE 0
         /\ \A k \in 1 .. Len(EntriesFrom(l, i, j)) : EntriesFrom(l, i, j)[k] = l[i + k]
<1>1. \A k \in i + 1 .. j + 1 : k \in 1 .. Len(l)
  BY LenProperties DEF LastIndex
<1>2. \A k \in i + 1 .. j + 1 : l[k] \in LogEntry
  BY <1>1, ElementOfSeq
<1> DEFINE part == SubSeq(l, i + 1, j + 1)
<1>3. /\ part \in Seq(LogEntry)
      /\ Len(part) = IF i + 1 <= j + 1 THEN (j + 1) - (i + 1) + 1 ELSE 0
      /\ \A k \in 1 .. (j + 1) - (i + 1) + 1 : part[k] = l[(i + 1) + k - 1]
  <2>1. ASSUME NEW m \in Int, NEW n \in Int, \A k \in m .. n : l[k] \in LogEntry
        PROVE  /\ SubSeq(l, m, n) \in Seq(LogEntry)
               /\ Len(SubSeq(l, m, n)) = IF m <= n THEN n - m + 1 ELSE 0
               /\ \A k \in 1 .. n - m + 1 : SubSeq(l, m, n)[k] = l[m + k - 1]
    BY <2>1, SubSeqProperties
  <2>2. i + 1 \in Int /\ j + 1 \in Int
    OBVIOUS
  <2> QED
    BY <1>2, <2>1, <2>2, Zenon
<1>4. Len(part) = IF i <= j THEN j - i + 1 ELSE 0
  BY <1>3
<1>5. \A k \in 1 .. Len(part) : part[k] = l[i + k]
  <2>1. TAKE k \in 1 .. Len(part)
  <2>2. k \in 1 .. (j + 1) - (i + 1) + 1 /\ (i + 1) + k - 1 = i + k
    BY <2>1, <1>4
  <2> QED
    BY <2>2, <1>3
<1> QED
  BY <1>3, <1>4, <1>5 DEF EntriesFrom

LEMMA TermAtType ==
  ASSUME NEW l \in Seq(LogEntry), NEW i \in Int
  PROVE  /\ TermAt(l, i) \in Nat \union {-1}
         /\ i \in 0 .. LastIndex(l) <=> HasEntry(l, i)
         /\ HasEntry(l, i) => TermAt(l, i) = l[i + 1].term
         /\ LastIndex(l) \in Nat \union {-1}
<1>1. DOMAIN l = 1 .. Len(l) /\ Len(l) \in Nat
  BY LenProperties
<1>2. ASSUME HasEntry(l, i) PROVE l[i + 1] \in LogEntry
  BY <1>1, <1>2, ElementOfSeq DEF HasEntry
<1> QED
  BY <1>1, <1>2, EntryFields DEF TermAt, HasEntry, EntryAt, LastIndex

-----------------------------------------------------------------------------
(***************************************************************************)
(* Rewind is a recursive function.  That it exists, and what it reaches,   *)
(* takes an induction over the steps.  The provers cannot be given an      *)
(* induction rule over a predicate, but they can be given that a set of    *)
(* naturals has a least element: here, the steps at which a claim fails.   *)
(***************************************************************************)
LEMMA LeastNatural ==
  ASSUME NEW T, T \subseteq Nat, T # {}
  PROVE  \E x \in T : \A y \in T : ~(y < x)
<1> DEFINE R == OpToRel(<, Nat)
<1>1. IsWellFoundedOn(R, Nat)
  BY NatLessThanWellFounded
<1>2. R = {ss \in Nat \X Nat : ss[1] < ss[2]}
  BY DEF OpToRel
<1> HIDE DEF R
<1>3. PICK x \in T : \A y \in T : <<y, x>> \notin R
  BY <1>1, WFMin
<1>4. \A y \in T : y < x => <<y, x>> \in R
  BY <1>2
<1> QED
  BY <1>3, <1>4

\* A set that has 0, and with every number the next, is all of Nat.
LEMMA NatClosed ==
  ASSUME NEW S, 0 \in S, \A n \in Nat : n \in S => n + 1 \in S
  PROVE  Nat \subseteq S
<1> SUFFICES ASSUME Nat \ S # {} PROVE FALSE
  OBVIOUS
<1>1. PICK x \in Nat \ S : \A y \in Nat \ S : ~(y < x)
  BY LeastNatural
<1>2. x # 0 /\ x - 1 \in Nat /\ x - 1 < x /\ x - 1 + 1 = x
  BY <1>1
<1>3. x - 1 \in S
  BY <1>1, <1>2
<1> QED
  BY <1>1, <1>2, <1>3

\* The first k steps of a rewind.
StepsTo(g, k, l, prev, c) ==
  /\ g[0] = c
  /\ \A i \in 0 .. k - 1 : g[i + 1] = RewindStep(l, prev, g[i])

LEMMA StepsExist ==
  ASSUME NEW l, NEW prev, NEW c
  PROVE  \A k \in Nat : \E g : StepsTo(g, k, l, prev, c)
<1> DEFINE S == {k \in Nat : \E g : StepsTo(g, k, l, prev, c)}
<1>1. 0 \in S
  <2>1. StepsTo([i \in {0} |-> c], 0, l, prev, c)
    BY DEF StepsTo
  <2> QED
    BY <2>1
<1>2. ASSUME NEW k \in Nat, k \in S PROVE k + 1 \in S
  <2>1. PICK g : StepsTo(g, k, l, prev, c)
    BY <1>2
  <2> DEFINE h == [i \in 0 .. k + 1 |-> IF i = k + 1 THEN RewindStep(l, prev, g[k]) ELSE g[i]]
  <2>2. \A i \in 0 .. k : h[i] = g[i] /\ i # k + 1
    OBVIOUS
  <2>3. h[k + 1] = RewindStep(l, prev, g[k])
    OBVIOUS
  <2> HIDE DEF h
  <2>4. h[0] = c
    BY <2>1, <2>2 DEF StepsTo
  <2>5. ASSUME NEW i \in 0 .. k PROVE h[i + 1] = RewindStep(l, prev, h[i])
    <3>1. CASE i = k
      BY <2>2, <2>3, <3>1
    <3>2. CASE i # k
      <4>1. i \in 0 .. k - 1 /\ i + 1 \in 0 .. k
        BY <3>2
      <4> QED
        BY <2>1, <2>2, <4>1 DEF StepsTo
    <3> QED
      BY <3>1, <3>2
  <2>6. k + 1 - 1 = k
    OBVIOUS
  <2>7. StepsTo(h, k + 1, l, prev, c)
    BY <2>4, <2>5, <2>6 DEF StepsTo
  <2> QED
    BY <2>7
<1> HIDE DEF S
<1>3. Nat \subseteq S
  BY <1>1, <1>2, NatClosed
<1> QED
  BY <1>3 DEF S

LEMMA StepsAgree ==
  ASSUME NEW l, NEW prev, NEW c, NEW g, NEW h, NEW k \in Nat, NEW m \in Nat, k <= m,
         StepsTo(g, k, l, prev, c), StepsTo(h, m, l, prev, c)
  PROVE  g[k] = h[k]
<1> DEFINE S == {i \in Nat : i <= k => g[i] = h[i]}
<1>1. 0 \in S
  BY DEF StepsTo
<1>2. ASSUME NEW i \in Nat, i \in S PROVE i + 1 \in S
  <2>1. CASE i + 1 <= k
    <3>1. i \in 0 .. k - 1 /\ i \in 0 .. m - 1 /\ i <= k
      BY <2>1
    <3> QED
      BY <1>2, <3>1 DEF StepsTo
  <2> QED
    BY <2>1
<1> HIDE DEF S
<1>3. Nat \subseteq S
  BY <1>1, <1>2, NatClosed
<1> QED
  BY <1>3 DEF S

LEMMA RewindSteps ==
  ASSUME NEW l, Len(l) \in Nat, NEW prev, NEW c
  PROVE  \E f : /\ f[0] = c
                /\ \A k \in Nat : f[k + 1] = RewindStep(l, prev, f[k])
                /\ Rewind(l, prev, c) = f[Len(l) + 1]
<1> DEFINE IsChain(g) == g = [k \in Nat |-> IF k = 0 THEN c ELSE RewindStep(l, prev, g[k - 1])]
           part(k) == CHOOSE g : StepsTo(g, k, l, prev, c)
           f == [k \in Nat |-> part(k)[k]]
<1>1. \A k \in Nat : StepsTo(part(k), k, l, prev, c)
  BY StepsExist
<1>2. f[0] = c
  BY <1>1 DEF StepsTo
<1>3. ASSUME NEW k \in Nat PROVE f[k + 1] = RewindStep(l, prev, f[k])
  <2>1. k + 1 \in Nat /\ k <= k + 1 /\ k \in 0 .. k + 1 - 1
    OBVIOUS
  <2> HIDE DEF part
  <2>2. StepsTo(part(k), k, l, prev, c) /\ StepsTo(part(k + 1), k + 1, l, prev, c)
    BY <1>1, <2>1
  <2>3. part(k)[k] = part(k + 1)[k]
    <3>1. ASSUME NEW g, NEW h, StepsTo(g, k, l, prev, c), StepsTo(h, k + 1, l, prev, c)
          PROVE  g[k] = h[k]
      <4>1. \A n \in Nat : k <= n /\ StepsTo(h, n, l, prev, c) => g[k] = h[k]
        BY <3>1, StepsAgree
      <4> QED
        BY <2>1, <3>1, <4>1
    <3> QED
      BY <2>2, <3>1, Zenon
  <2>4. part(k + 1)[k + 1] = RewindStep(l, prev, part(k + 1)[k])
    BY <2>1, <2>2 DEF StepsTo
  <2> QED
    BY <2>1, <2>3, <2>4
<1>4. DOMAIN f = Nat /\ f = [k \in Nat |-> f[k]]
  OBVIOUS
<1> HIDE DEF f
<1>5. ASSUME NEW k \in Nat
      PROVE  f[k] = IF k = 0 THEN c ELSE RewindStep(l, prev, f[k - 1])
  <2>1. CASE k # 0
    <3>1. k - 1 \in Nat /\ k - 1 + 1 = k
      BY <2>1
    <3> QED
      BY <1>3, <2>1, <3>1
  <2> QED
    BY <1>2, <2>1
<1>6. IsChain(f)
  BY <1>4, <1>5
<1> DEFINE chain == CHOOSE g : IsChain(g)
<1>7. IsChain(chain)
  BY <1>6
<1>8. Rewind(l, prev, c) = chain[Len(l) + 1]
  BY DEF Rewind
<1> HIDE DEF chain
<1>9. chain[0] = c
  BY <1>7
<1>10. ASSUME NEW k \in Nat PROVE chain[k + 1] = RewindStep(l, prev, chain[k])
  <2>1. k + 1 \in Nat /\ k + 1 # 0 /\ k + 1 - 1 = k
    OBVIOUS
  <2> QED
    BY <1>7, <2>1
<1> QED
  BY <1>8, <1>9, <1>10

\* What holds of the first configuration, and of the k+1-st if it holds of the
\* k-th, holds of the one the rewind stops at: "holds" is membership in G[k].
LEMMA RewindReaches ==
  ASSUME NEW l, Len(l) \in Nat, NEW prev, NEW c, NEW G,
         c \in G[0],
         \A k \in Nat : \A x \in G[k] : RewindStep(l, prev, x) \in G[k + 1]
  PROVE  Rewind(l, prev, c) \in G[Len(l) + 1]
<1>1. PICK f : /\ f[0] = c
               /\ \A k \in Nat : f[k + 1] = RewindStep(l, prev, f[k])
               /\ Rewind(l, prev, c) = f[Len(l) + 1]
  BY RewindSteps
<1> DEFINE S == {k \in Nat : f[k] \in G[k]}
<1>2. 0 \in S
  BY <1>1
<1>3. ASSUME NEW k \in Nat, k \in S PROVE k + 1 \in S
  <2>1. f[k] \in G[k] /\ k + 1 \in Nat
    BY <1>3
  <2>2. RewindStep(l, prev, f[k]) \in G[k + 1]
    BY <2>1
  <2>3. f[k + 1] \in G[k + 1]
    BY <1>1, <2>2
  <2> QED
    BY <2>1, <2>3
<1> HIDE DEF S
<1>4. Nat \subseteq S
  BY <1>2, <1>3, NatClosed
<1>5. Len(l) + 1 \in S
  BY <1>4
<1> QED
  BY <1>1, <1>5 DEF S
=============================================================================
