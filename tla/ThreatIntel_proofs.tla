-------------------------- MODULE ThreatIntel_proofs --------------------------
(***************************************************************************)
(* Proofs about ThreatIntel: its types, that the limiter keeps the rate    *)
(* over any window, and that an answer is lost only with an INSERT that    *)
(* fails; for any calls, providers, limits, faults and crashes.            *)
(*                                                                         *)
(* The limiter's array is filtered with Kept, a recursive function.  The   *)
(* theorems on induction of the library have an operator for a parameter,  *)
(* which no prover here can instantiate; but that each set of natural      *)
(* numbers has a least member follows from the theorem on well-founded     *)
(* relations, and an induction over a set is made of that.                 *)
(***************************************************************************)
EXTENDS ThreatIntel, Integers, FiniteSetTheorems, SequenceTheorems,
        WellFoundedInduction, TLAPS

----------------------------------------------------------------------------
(* Induction, and what filter keeps                                         *)

Below == {p \in Nat \X Nat : p[1] < p[2]}

(* A set of natural numbers has a least member.                             *)
LEMMA Least ==
  ASSUME NEW T \in SUBSET Nat, T # {}
  PROVE  \E x \in T : \A y \in T : x <= y
<1>1. IsWellFoundedOn(Below, Nat)
  BY NatLessThanWellFounded DEF OpToRel, Below
<1>2. PICK x \in T : \A y \in T : <<y, x>> \notin Below
  BY <1>1, WFMin
<1>3. \A y \in T : y < x => <<y, x>> \in Below
  BY DEF Below
<1>4. x \in Nat /\ \A y \in T : y \in Nat
  OBVIOUS
<1>5. ASSUME NEW y \in T PROVE x <= y
  <2>1. ~(y < x)
    BY <1>2, <1>3
  <2> QED BY <1>4, <2>1
<1> QED BY <1>5

(* Induction, over a set in place of a predicate.                           *)
LEMMA Induction ==
  ASSUME NEW S, 0 \in S, \A n \in Nat : n \in S => n + 1 \in S
  PROVE  Nat \subseteq S
<1> DEFINE T == Nat \ S
<1> SUFFICES ASSUME T # {} PROVE FALSE
  OBVIOUS
<1>1. PICK x \in T : \A y \in T : x <= y
  BY Least
<1>2. x # 0
  OBVIOUS
<1>3. x - 1 \in Nat /\ x - 1 \notin T
  BY <1>1, <1>2
<1> QED BY <1>3

(* f is the recursive function of Kept, up to the place n.                  *)
Filters(s, P, n, f) ==
  f = [i \in 0 .. n |->
         IF i = 0 THEN <<>> ELSE IF i \in P THEN Append(f[i - 1], s[i]) ELSE f[i - 1]]

(* What such a function is at each place.                                   *)
LEMMA FiltersAt ==
  ASSUME NEW s, NEW P, NEW n \in Nat, NEW f, Filters(s, P, n, f)
  PROVE  /\ f[0] = <<>>
         /\ \A i \in 1 .. n :
              f[i] = IF i \in P THEN Append(f[i - 1], s[i]) ELSE f[i - 1]
<1>1. \A i \in 0 .. n :
        f[i] = IF i = 0 THEN <<>>
               ELSE IF i \in P THEN Append(f[i - 1], s[i]) ELSE f[i - 1]
  BY DEF Filters
<1>2. 0 \in 0 .. n /\ \A i \in 1 .. n : i \in 0 .. n /\ i # 0
  OBVIOUS
<1> QED BY <1>1, <1>2

(* There is one.                                                            *)
LEMMA FilterExists ==
  ASSUME NEW s, NEW P, NEW n \in Nat
  PROVE  \E f : Filters(s, P, n, f)
<1> DEFINE Good == {m \in Nat : \E f : Filters(s, P, m, f)}
<1>1. 0 \in Good
  <2>1. Filters(s, P, 0, [i \in 0 .. 0 |-> <<>>])
    BY DEF Filters
  <2> QED BY <2>1
<1>2. ASSUME NEW m \in Nat, m \in Good PROVE m + 1 \in Good
  <2>1. PICK f : Filters(s, P, m, f)
    BY <1>2
  <2>2. f[0] = <<>>
    BY <2>1, FiltersAt
  <2> DEFINE e == IF m + 1 \in P THEN Append(f[m], s[m + 1]) ELSE f[m]
             g == [i \in 0 .. m + 1 |-> IF i = m + 1 THEN e ELSE f[i]]
  <2>3. ASSUME NEW i \in 0 .. m + 1
        PROVE  g[i] = IF i = 0 THEN <<>>
                      ELSE IF i \in P THEN Append(g[i - 1], s[i]) ELSE g[i - 1]
    <3>1. CASE i = m + 1
      <4>1. i # 0 /\ i - 1 = m /\ g[i - 1] = f[m]
        BY <3>1
      <4> QED BY <3>1, <4>1
    <3>2. CASE i = 0
      <4>1. g[0] = f[0]
        OBVIOUS
      <4> QED BY <3>2, <4>1, <2>2
    <3>3. CASE i \in 1 .. m
      <4>1. g[i] = f[i] /\ g[i - 1] = f[i - 1]
        BY <3>3
      <4> QED BY <4>1, <3>3, <2>1, FiltersAt
    <3> QED BY <3>1, <3>2, <3>3
  <2>4. g = [i \in 0 .. m + 1 |-> g[i]]
    OBVIOUS
  <2> HIDE DEF g
  <2>5. Filters(s, P, m + 1, g)
    BY <2>3, <2>4 DEF Filters
  <2> QED BY <2>5
<1> HIDE DEF Good
<1>3. Nat \subseteq Good
  BY <1>1, <1>2, Induction
<1> QED BY <1>3 DEF Good

(* What Kept unfolds to.                                                    *)
LEMMA KeptUnfolds ==
  ASSUME NEW s, NEW P, Len(s) \in Nat
  PROVE  \E f : /\ Kept(s, P) = f[Len(s)] /\ f[0] = <<>>
                /\ \A i \in 1 .. Len(s) :
                     f[i] = IF i \in P THEN Append(f[i - 1], s[i]) ELSE f[i - 1]
<1> DEFINE F == CHOOSE f : Filters(s, P, Len(s), f)
<1>1. Filters(s, P, Len(s), F)
  BY FilterExists
<1>2. Kept(s, P) = F[Len(s)]
  BY DEF Kept, Filters
<1>3. \A f : Filters(s, P, Len(s), f) =>
        /\ f[0] = <<>>
        /\ \A i \in 1 .. Len(s) :
             f[i] = IF i \in P THEN Append(f[i - 1], s[i]) ELSE f[i - 1]
  BY FiltersAt
<1> HIDE DEF F
<1> QED BY <1>1, <1>2, <1>3

(* A filter that drops the first k elements keeps the others in order.      *)
LEMMA KeptTail ==
  ASSUME NEW S, NEW s \in Seq(S), NEW k \in 0 .. Len(s)
  PROVE  /\ Kept(s, k + 1 .. Len(s)) \in Seq(S)
         /\ Len(Kept(s, k + 1 .. Len(s))) = Len(s) - k
         /\ \A j \in 1 .. Len(s) - k : Kept(s, k + 1 .. Len(s))[j] = s[k + j]
<1> DEFINE P == k + 1 .. Len(s)
           IsTail(t, i) == /\ t \in Seq(S) /\ Len(t) = IF i <= k THEN 0 ELSE i - k
                           /\ \A j \in 1 .. Len(t) : t[j] = s[k + j]
<1>1. Len(s) \in Nat
  OBVIOUS
<1>2. PICK f : /\ Kept(s, P) = f[Len(s)] /\ f[0] = <<>>
               /\ \A i \in 1 .. Len(s) :
                    f[i] = IF i \in P THEN Append(f[i - 1], s[i]) ELSE f[i - 1]
  BY <1>1, KeptUnfolds
<1> DEFINE Good == {i \in Nat : i <= Len(s) => IsTail(f[i], i)}
<1>3. 0 \in Good
  <2>1. <<>> \in Seq(S) /\ Len(<<>>) = 0 /\ f[0] = <<>>
    BY <1>2
  <2>2. IsTail(f[0], 0)
    BY <2>1
  <2> QED BY <2>2
<1>4. ASSUME NEW i \in Nat, i \in Good PROVE i + 1 \in Good
  <2> SUFFICES ASSUME i + 1 <= Len(s) PROVE IsTail(f[i + 1], i + 1)
    OBVIOUS
  <2>1. IsTail(f[i], i)
    BY <1>1, <1>4
  <2>2. f[i + 1] = IF i + 1 \in P THEN Append(f[i], s[i + 1]) ELSE f[i]
    BY <1>1, <1>2
  <2>3. CASE i + 1 <= k
    BY <1>1, <2>1, <2>2, <2>3
  <2>4. CASE i + 1 > k
    <3>1. f[i + 1] = Append(f[i], s[i + 1]) /\ s[i + 1] \in S
      BY <1>1, <2>2, <2>4
    <3>2. Len(f[i]) = i - k /\ f[i] \in Seq(S)
      BY <2>1, <2>4
    <3> HIDE DEF Good
    <3>3. /\ f[i + 1] \in Seq(S) /\ Len(f[i + 1]) = i + 1 - k
          /\ \A j \in 1 .. i - k : f[i + 1][j] = f[i][j]
          /\ f[i + 1][i + 1 - k] = s[i + 1]
      BY <3>1, <3>2, AppendProperties, SMTT(30)
    <3>4. \A j \in 1 .. i - k : f[i][j] = s[k + j]
      BY <2>1, <3>2
    <3> QED BY <3>3, <3>4, <2>4
  <2> QED BY <2>3, <2>4
<1> HIDE DEF Good
<1>5. Len(s) \in Good
  BY <1>1, <1>3, <1>4, Induction
<1>6. IsTail(f[Len(s)], Len(s))
  BY <1>5, <1>1 DEF Good
<1> QED BY <1>1, <1>2, <1>6

----------------------------------------------------------------------------
(* The limiter                                                              *)

(* An element of a sequence is one of the set it is a sequence of.         *)
LEMMA ElementType ==
  ASSUME NEW T, NEW s \in Seq(T), NEW i \in 1 .. Len(s) PROVE s[i] \in T
OBVIOUS

(* A function on the first n numbers is a sequence.                         *)
LEMMA IsSequence ==
  ASSUME NEW T, NEW n \in Nat, NEW f \in [1 .. n -> T] PROVE f \in Seq(T) /\ Len(f) = n
OBVIOUS

(* The oldest come first.                                                   *)
Sorted(ages) == \A i, j \in 1 .. Len(ages) : i <= j => ages[i] >= ages[j]

(* The last m requests that were sent are of this process, and have the     *)
(* last m time stamps; the earlier time stamps have expired.                *)
Mirrored(m) ==
  /\ m <= Len(timestamps) /\ m <= Len(sent) /\ m <= MaxRequests
  /\ \A j \in 1 .. m : sent[Len(sent) - m + j] = timestamps[Len(timestamps) - m + j]
  /\ \A i \in 1 .. Len(timestamps) - m : timestamps[i] >= Window
  /\ Len(sent) <= m + MaxRequests * crashes

LimiterType ==
  /\ throttled \in [Calls -> {"no", "asleep", "passed"}]
  /\ sleep \in [Calls -> 0 .. Window + Slack]
  /\ timestamps \in Seq(0 .. Window) /\ Len(timestamps) <= MaxRequests
  /\ sent \in Seq(0 .. Window - 1)
  /\ crashes \in 0 .. MaxCrashes

(* The inductive invariant of the limiter.                                  *)
LInv ==
  /\ LimiterType
  /\ Sorted(timestamps) /\ Sorted(sent)
  /\ \E m \in Nat : Mirrored(m)

(* Of ages in order, the young ones are a tail.                             *)
LEMMA YoungIsTail ==
  ASSUME NEW s \in Seq(Nat), Sorted(s), Window \in Nat
  PROVE  \E k \in 0 .. Len(s) :
           /\ \A i \in 1 .. k : s[i] >= Window
           /\ \A i \in k + 1 .. Len(s) : s[i] < Window
           /\ \A S : s \in Seq(S) =>
                /\ Young(s) \in Seq(S) /\ Len(Young(s)) = Len(s) - k
                /\ \A j \in 1 .. Len(s) - k : Young(s)[j] = s[k + j]
<1> DEFINE T == {k \in 0 .. Len(s) : \A i \in k + 1 .. Len(s) : s[i] < Window}
<1>1. Len(s) \in Nat /\ DOMAIN s = 1 .. Len(s) /\ \A i \in 1 .. Len(s) : s[i] \in Nat
  OBVIOUS
<1>2. Len(s) \in T
  BY <1>1
<1>3. PICK k \in T : \A l \in T : k <= l
  <2>1. T \in SUBSET Nat /\ T # {}
    BY <1>1, <1>2
  <2> HIDE DEF T
  <2> QED BY <2>1, Least
<1>4. k \in 0 .. Len(s) /\ \A i \in k + 1 .. Len(s) : s[i] < Window
  OBVIOUS
<1>5. ASSUME NEW i \in 1 .. k PROVE s[i] >= Window
  <2>1. k \in 1 .. Len(s) /\ i \in 1 .. Len(s) /\ i <= k
    BY <1>1, <1>4
  <2>2. s[k] >= Window
    <3> SUFFICES ASSUME s[k] < Window PROVE FALSE
      BY <1>1, <2>1
    <3>1. \A j \in k .. Len(s) : s[j] < Window
      <4> TAKE j \in k .. Len(s)
      <4>1. j = k \/ j \in k + 1 .. Len(s)
        BY <1>1, <1>4
      <4> QED BY <4>1, <1>4
    <3>2. k - 1 \in T
      BY <3>1, <1>1, <2>1
    <3> HIDE DEF T
    <3> QED BY <3>2, <1>3, <1>1, <2>1
  <2>3. s[i] >= s[k]
    BY <2>1 DEF Sorted
  <2>4. s[i] \in Nat /\ s[k] \in Nat
    BY <1>1, <2>1
  <2> QED BY <2>2, <2>3, <2>4
<1>6. {i \in DOMAIN s : s[i] < Window} = k + 1 .. Len(s)
  <2>1. ASSUME NEW i \in 1 .. Len(s), s[i] < Window PROVE i \in k + 1 .. Len(s)
    <3>1. i \notin 1 .. k
      BY <1>5, <1>1, <2>1
    <3> QED BY <3>1, <1>1, <1>4
  <2>2. k + 1 .. Len(s) \subseteq 1 .. Len(s)
    BY <1>1, <1>4
  <2> QED BY <2>1, <2>2, <1>1, <1>4
<1>7. Young(s) = Kept(s, k + 1 .. Len(s))
  BY <1>6 DEF Young
<1>8. \A S : s \in Seq(S) =>
        /\ Young(s) \in Seq(S) /\ Len(Young(s)) = Len(s) - k
        /\ \A j \in 1 .. Len(s) - k : Young(s)[j] = s[k + j]
  BY <1>4, <1>7, KeptTail
<1> QED BY <1>4, <1>5, <1>8

(* What the filter keeps are the time stamps of this process's requests     *)
(* within the window.                                                       *)
LEMMA RecentIsOwn ==
  ASSUME LInv, NEW m \in Nat, Mirrored(m)
  PROVE  /\ Recent \in Seq(0 .. Window) /\ Len(Recent) = m
         /\ \A j \in 1 .. m : /\ Recent[j] = sent[Len(sent) - m + j]
                              /\ Recent[j] = timestamps[Len(timestamps) - m + j]
<1>1. /\ timestamps \in Seq(0 .. Window) /\ timestamps \in Seq(Nat) /\ Window \in Nat
      /\ sent \in Seq(0 .. Window - 1) /\ Sorted(timestamps)
  BY IntelAssumption DEF LInv, LimiterType
<1> DEFINE n == Len(timestamps)
<1>2. n \in Nat /\ Len(sent) \in Nat /\ m <= n /\ m <= Len(sent)
  BY <1>1 DEF Mirrored
<1>3. PICK k \in 0 .. n :
        /\ \A i \in 1 .. k : timestamps[i] >= Window
        /\ \A i \in k + 1 .. n : timestamps[i] < Window
        /\ Young(timestamps) \in Seq(0 .. Window) /\ Len(Young(timestamps)) = n - k
        /\ \A j \in 1 .. n - k : Young(timestamps)[j] = timestamps[k + j]
  BY <1>1, YoungIsTail
<1>4. \A j \in 1 .. m : /\ sent[Len(sent) - m + j] = timestamps[n - m + j]
                        /\ timestamps[n - m + j] < Window
  <2> TAKE j \in 1 .. m
  <2>1. sent[Len(sent) - m + j] = timestamps[n - m + j]
    BY DEF Mirrored
  <2>2. Len(sent) - m + j \in 1 .. Len(sent)
    BY <1>2
  <2>3. sent[Len(sent) - m + j] \in 0 .. Window - 1
    BY <2>2, <1>1
  <2> QED BY <2>1, <2>3, <1>1
<1>5. k = n - m
  <2>1. ~(k > n - m)
    <3> SUFFICES ASSUME k > n - m PROVE FALSE
      OBVIOUS
    <3>1. k - (n - m) \in 1 .. m /\ k \in 1 .. n
      BY <1>2
    <3>2. timestamps[n - m + (k - (n - m))] < Window
      BY <3>1, <1>4
    <3>3. n - m + (k - (n - m)) = k
      BY <1>2
    <3>4. timestamps[k] < Window /\ timestamps[k] >= Window
      BY <3>1, <3>2, <3>3, <1>3
    <3>5. timestamps[k] \in Nat
      BY <3>1, <1>1
    <3> QED BY <3>4, <3>5, <1>1
  <2>2. ~(k < n - m)
    <3> SUFFICES ASSUME k < n - m PROVE FALSE
      OBVIOUS
    <3>1. n - m \in 1 .. n - m /\ n - m \in k + 1 .. n
      BY <1>2
    <3>2. timestamps[n - m] >= Window /\ timestamps[n - m] < Window
      BY <3>1, <1>3 DEF Mirrored
    <3>3. timestamps[n - m] \in Nat
      BY <3>1, <1>1, <1>2, SMTT(30)
    <3> QED BY <3>2, <3>3, <1>1
  <2> QED BY <2>1, <2>2, <1>2
<1>6. n - k = m /\ \A j \in 1 .. m : k + j = n - m + j
  BY <1>5, <1>2
<1> QED BY <1>3, <1>4, <1>6 DEF Recent

(* Passing the limiter, or going to sleep in it, keeps the invariant.       *)
LEMMA AcquireKeeps ==
  ASSUME LInv, NEW c \in Calls, Acquire(c), crashes' = crashes
  PROVE  LInv'
<1>1. PICK m \in Nat : Mirrored(m)
  BY DEF LInv
<1>2. /\ Window \in Nat \ {0} /\ MaxRequests \in Nat \ {0} /\ Slack \in Nat /\ MaxCrashes \in Nat
  BY IntelAssumption
<1>3. /\ LimiterType /\ Sorted(timestamps) /\ Sorted(sent)
  BY DEF LInv
<1>4. /\ Recent \in Seq(0 .. Window) /\ Len(Recent) = m
      /\ \A j \in 1 .. m : /\ Recent[j] = sent[Len(sent) - m + j]
                           /\ Recent[j] = timestamps[Len(timestamps) - m + j]
  BY <1>1, RecentIsOwn
<1>5. /\ m <= Len(timestamps) /\ m <= Len(sent) /\ m <= MaxRequests
      /\ Len(sent) <= m + MaxRequests * crashes
  BY <1>1 DEF Mirrored
<1>6. Len(timestamps) \in Nat /\ Len(sent) \in Nat /\ MaxRequests * crashes \in Nat
  BY <1>2, <1>3 DEF LimiterType
<1>7. Sorted(Recent)
  <2> SUFFICES ASSUME NEW i \in 1 .. m, NEW j \in 1 .. m, i <= j
               PROVE  Recent[i] >= Recent[j]
    BY <1>4 DEF Sorted
  <2>1. /\ Len(sent) - m + i \in 1 .. Len(sent) /\ Len(sent) - m + j \in 1 .. Len(sent)
        /\ Len(sent) - m + i <= Len(sent) - m + j
    BY <1>5, <1>6
  <2>2. sent[Len(sent) - m + i] >= sent[Len(sent) - m + j]
    BY <2>1, <1>3 DEF Sorted
  <2> QED BY <2>2, <1>4
<1>8. CASE Len(Recent) >= MaxRequests
  <2>1. /\ timestamps' = Recent /\ sent' = sent
        /\ throttled' = [throttled EXCEPT ![c] = "asleep"]
        /\ sleep' = [sleep EXCEPT ![c] = Window - Head(Recent) + Slack]
    BY <1>8 DEF Acquire
  <2>2. Head(Recent) \in 0 .. Window
    <3>1. Recent # <<>> /\ Head(Recent) = Recent[1] /\ 1 \in 1 .. Len(Recent)
      BY <1>4, <1>8, <1>2
    <3> QED BY <3>1, <1>4, ElementType
  <2>3. Window - Head(Recent) + Slack \in 0 .. Window + Slack
    BY <2>2, <1>2
  <2>4. LimiterType'
    BY <2>1, <2>3, <1>3, <1>4, <1>5 DEF LimiterType
  <2>5. Mirrored(m)'
    BY <2>1, <1>4, <1>5, <1>6 DEF Mirrored
  <2>6. Sorted(timestamps)' /\ Sorted(sent)'
    BY <2>1, <1>3, <1>7 DEF Sorted
  <2> QED BY <2>4, <2>5, <2>6 DEF LInv
<1>9. CASE ~(Len(Recent) >= MaxRequests)
  <2>1. /\ timestamps' = Append(Recent, 0) /\ sent' = Append(sent, 0)
        /\ throttled' = [throttled EXCEPT ![c] = "passed"]
        /\ sleep' = sleep
    BY <1>9 DEF Acquire
  <2>2. /\ timestamps' \in Seq(0 .. Window) /\ Len(timestamps') = m + 1
        /\ \A j \in 1 .. m : timestamps'[j] = Recent[j]
        /\ timestamps'[m + 1] = 0
    <3>1. 0 \in 0 .. Window
      BY <1>2
    <3> QED BY <3>1, <2>1, <1>4, AppendProperties
  <2>3. /\ sent' \in Seq(0 .. Window - 1) /\ Len(sent') = Len(sent) + 1
        /\ \A j \in 1 .. Len(sent) : sent'[j] = sent[j]
        /\ sent'[Len(sent) + 1] = 0
    <3>1. 0 \in 0 .. Window - 1 /\ sent \in Seq(0 .. Window - 1)
      BY <1>2, <1>3 DEF LimiterType
    <3> QED BY <3>1, <2>1, AppendProperties
  <2>4. LimiterType'
    BY <2>1, <2>2, <2>3, <1>3, <1>4, <1>9, <1>2 DEF LimiterType
  <2>5. Mirrored(m + 1)'
    <3>1. /\ m + 1 <= Len(timestamps') /\ m + 1 <= Len(sent') /\ m + 1 <= MaxRequests
          /\ Len(sent') <= m + 1 + MaxRequests * crashes'
      BY <2>2, <2>3, <1>4, <1>5, <1>6, <1>9, <1>2
    <3>2. ASSUME NEW j \in 1 .. m + 1
          PROVE  sent'[Len(sent') - (m + 1) + j] = timestamps'[Len(timestamps') - (m + 1) + j]
      <4>1. Len(sent') - (m + 1) + j = Len(sent) - m + j /\ Len(timestamps') - (m + 1) + j = j
        BY <2>2, <2>3, <1>6
      <4>2. CASE j = m + 1
        BY <4>1, <4>2, <2>2, <2>3, <1>6
      <4>3. CASE j \in 1 .. m
        <5>1. Len(sent) - m + j \in 1 .. Len(sent)
          BY <4>3, <1>5, <1>6
        <5>2. sent'[Len(sent) - m + j] = sent[Len(sent) - m + j]
          BY <5>1, <2>3
        <5>3. timestamps'[j] = Recent[j] /\ Recent[j] = sent[Len(sent) - m + j]
          BY <4>3, <2>2, <1>4
        <5> QED BY <5>2, <5>3, <4>1
      <4> QED BY <4>2, <4>3
    <3>3. 1 .. Len(timestamps') - (m + 1) = {}
      BY <2>2
    <3> QED BY <3>1, <3>2, <3>3 DEF Mirrored
  <2>6. Sorted(timestamps)'
    <3> SUFFICES ASSUME NEW i \in 1 .. m + 1, NEW j \in 1 .. m + 1, i <= j
                 PROVE  timestamps'[i] >= timestamps'[j]
      BY <2>2 DEF Sorted
    <3>1. timestamps'[i] \in 0 .. Window
      BY <2>2, ElementType
    <3>2. CASE j = m + 1
      BY <3>1, <3>2, <2>2, <1>2
    <3>3. CASE j \in 1 .. m
      <4>1. i \in 1 .. m
        BY <3>3
      <4> QED BY <4>1, <3>3, <2>2, <1>4, <1>7 DEF Sorted
    <3> QED BY <3>2, <3>3
  <2>7. Sorted(sent)'
    <3> SUFFICES ASSUME NEW i \in 1 .. Len(sent) + 1, NEW j \in 1 .. Len(sent) + 1, i <= j
                 PROVE  sent'[i] >= sent'[j]
      BY <2>3 DEF Sorted
    <3>1. sent'[i] \in 0 .. Window - 1
      BY <2>3, ElementType
    <3>2. CASE j = Len(sent) + 1
      BY <3>1, <3>2, <2>3, <1>2
    <3>3. CASE j \in 1 .. Len(sent)
      <4>1. i \in 1 .. Len(sent)
        BY <3>3, <1>6
      <4> QED BY <4>1, <3>3, <2>3, <1>3 DEF Sorted
    <3> QED BY <3>2, <3>3, <1>6
  <2> QED BY <2>4, <2>5, <2>6, <2>7 DEF LInv
<1> QED BY <1>8, <1>9

(* When time passes, requests leave the window with their time stamps.      *)
LEMMA TickKeeps ==
  ASSUME LInv, Tick
  PROVE  LInv'
<1>1. PICK m \in Nat : Mirrored(m)
  BY DEF LInv
<1>2. /\ Window \in Nat \ {0} /\ MaxRequests \in Nat \ {0} /\ Slack \in Nat /\ MaxCrashes \in Nat
  BY IntelAssumption
<1>3. /\ LimiterType /\ Sorted(timestamps) /\ Sorted(sent)
  BY DEF LInv
<1> DEFINE n == Len(timestamps)
           l == Len(sent)
           older == [i \in DOMAIN sent |-> sent[i] + 1]
<1>4. /\ timestamps \in Seq(0 .. Window) /\ sent \in Seq(0 .. Window - 1)
      /\ n \in Nat /\ l \in Nat /\ m <= n /\ m <= l /\ m <= MaxRequests /\ n <= MaxRequests
  BY <1>1, <1>3 DEF LimiterType, Mirrored
<1>5. PICK old \in Nat : old = MaxRequests * crashes /\ l <= m + old
  <2>1. l <= m + MaxRequests * crashes /\ crashes \in Nat
    BY <1>1, <1>3 DEF LimiterType, Mirrored
  <2> QED BY <2>1, <1>2
<1>6. /\ timestamps' = [i \in DOMAIN timestamps |->
                          IF timestamps[i] < Window THEN timestamps[i] + 1 ELSE Window]
      /\ sleep' = [c \in Calls |-> IF sleep[c] > 0 THEN sleep[c] - 1 ELSE 0]
      /\ sent' = Young(older)
      /\ throttled' = throttled /\ crashes' = crashes
  BY DEF Tick, bounds
<1>7. /\ timestamps' \in Seq(0 .. Window) /\ Len(timestamps') = n
      /\ \A i \in 1 .. n :
           timestamps'[i] = IF timestamps[i] < Window THEN timestamps[i] + 1 ELSE Window
  <2>1. \A i \in 1 .. n : timestamps[i] \in 0 .. Window
    BY <1>4, ElementType
  <2>2. DOMAIN timestamps = 1 .. n
    BY <1>4
  <2>3. timestamps' \in [1 .. n -> 0 .. Window]
    BY <2>1, <2>2, <1>6, <1>2
  <2>4. timestamps' \in Seq(0 .. Window) /\ Len(timestamps') = n
    BY <2>3, <1>4, IsSequence
  <2> QED BY <2>2, <2>4, <1>6
<1>8. /\ older \in Seq(Nat) /\ Len(older) = l /\ older \in Seq(1 .. Window)
      /\ \A i \in 1 .. l : older[i] = sent[i] + 1
  <2>1. \A i \in 1 .. l : sent[i] \in 0 .. Window - 1
    BY <1>4, ElementType
  <2>2. DOMAIN sent = 1 .. l
    BY <1>4
  <2>3. older \in [1 .. l -> 1 .. Window]
    BY <2>1, <2>2, <1>2
  <2>4. older \in Seq(1 .. Window) /\ Len(older) = l
    BY <2>3, <1>4
  <2>5. older \in [1 .. l -> Nat]
    BY <2>3
  <2> QED BY <2>2, <2>4, <2>5, <1>4
<1> HIDE DEF older
<1>9. Sorted(older)
  <2> SUFFICES ASSUME NEW i \in 1 .. l, NEW j \in 1 .. l, i <= j
               PROVE  older[i] >= older[j]
    BY <1>8 DEF Sorted
  <2>1. sent[i] >= sent[j] /\ sent[i] \in 0 .. Window - 1 /\ sent[j] \in 0 .. Window - 1
    BY <1>3, <1>4, ElementType DEF Sorted
  <2> QED BY <2>1, <1>8
<1>10. PICK k \in 0 .. l :
        /\ \A i \in 1 .. k : older[i] >= Window
        /\ \A i \in k + 1 .. l : older[i] < Window
        /\ \A S : older \in Seq(S) =>
             /\ Young(older) \in Seq(S) /\ Len(Young(older)) = l - k
             /\ \A j \in 1 .. l - k : Young(older)[j] = older[k + j]
  <2>1. Window \in Nat /\ older \in Seq(Nat) /\ Len(older) = l
    BY <1>2, <1>8
  <2> QED BY <2>1, <1>9, YoungIsTail
<1>11. /\ \A i \in 1 .. k : older[i] >= Window
       /\ \A i \in k + 1 .. l : older[i] < Window
       /\ Young(older) \in Seq(1 .. Window) /\ Len(Young(older)) = l - k
       /\ \A j \in 1 .. l - k : Young(older)[j] = older[k + j]
  BY <1>8, <1>10
<1>12. /\ Len(sent') = l - k
       /\ \A j \in 1 .. l - k : sent'[j] = sent[k + j] + 1 /\ sent'[j] \in 0 .. Window - 1
  <2>1. Len(sent') = l - k
    BY <1>6, <1>11
  <2>2. ASSUME NEW j \in 1 .. l - k
        PROVE  sent'[j] = sent[k + j] + 1 /\ sent'[j] \in 0 .. Window - 1
    <3>1. k + j \in 1 .. l /\ k + j \in k + 1 .. l
      BY <1>4
    <3>2. sent'[j] = older[k + j] /\ older[k + j] < Window /\ older[k + j] = sent[k + j] + 1
      BY <3>1, <1>6, <1>8, <1>11
    <3>3. sent[k + j] \in 0 .. Window - 1
      BY <3>1, <1>4, ElementType
    <3> QED BY <3>2, <3>3, <1>2
  <2> QED BY <2>1, <2>2
<1>13. LimiterType'
  <2>1. sent' \in Seq(0 .. Window - 1)
    <3>1. sent' \in Seq(1 .. Window) /\ DOMAIN sent' = 1 .. l - k
      BY <1>6, <1>11, <1>12
    <3>2. sent' \in [1 .. l - k -> 0 .. Window - 1]
      BY <3>1, <1>12
    <3>3. l - k \in Nat
      BY <1>4
    <3> QED BY <3>2, <3>3, IsSequence
  <2>2. sleep' \in [Calls -> 0 .. Window + Slack]
    BY <1>2, <1>3, <1>6 DEF LimiterType
  <2> QED BY <2>1, <2>2, <1>3, <1>4, <1>6, <1>7 DEF LimiterType
<1>14. Sorted(timestamps)'
  <2> SUFFICES ASSUME NEW i \in 1 .. n, NEW j \in 1 .. n, i <= j
               PROVE  timestamps'[i] >= timestamps'[j]
    BY <1>7 DEF Sorted
  <2>1. timestamps[i] >= timestamps[j] /\ timestamps[i] \in 0 .. Window /\ timestamps[j] \in 0 .. Window
    BY <1>3, <1>4, ElementType DEF Sorted
  <2> QED BY <2>1, <1>7, <1>2, SMTT(30)
<1>15. Sorted(sent)'
  <2> SUFFICES ASSUME NEW i \in 1 .. l - k, NEW j \in 1 .. l - k, i <= j
               PROVE  sent'[i] >= sent'[j]
    BY <1>12 DEF Sorted
  <2>1. k + i \in 1 .. l /\ k + j \in 1 .. l /\ k + i <= k + j
    BY <1>4
  <2>2. sent[k + i] >= sent[k + j] /\ sent[k + i] \in 0 .. Window - 1 /\ sent[k + j] \in 0 .. Window - 1
    BY <2>1, <1>3, <1>4, ElementType DEF Sorted
  <2> QED BY <2>2, <1>12
<1>16. \A j \in 1 .. m : /\ sent[l - m + j] = timestamps[n - m + j]
                         /\ sent[l - m + j] \in 0 .. Window - 1
  <2> TAKE j \in 1 .. m
  <2>1. l - m + j \in 1 .. l
    BY <1>4
  <2> QED BY <2>1, <1>1, <1>4, ElementType DEF Mirrored
<1>17. \E r \in Nat : Mirrored(r)'
  <2>1. PICK r \in Nat : /\ r <= m /\ r <= l - k
                         /\ k > l - m => r = l - k
                         /\ k <= l - m => r = m
    <3>1. CASE k > l - m
      <4> WITNESS l - k \in Nat
      <4> QED BY <3>1, <1>4
    <3>2. CASE k <= l - m
      <4> WITNESS m \in Nat
      <4> QED BY <3>2, <1>4
    <3> QED BY <3>1, <3>2, <1>4
  <2>2. /\ r <= Len(timestamps') /\ r <= Len(sent') /\ r <= MaxRequests
        /\ Len(sent') <= r + MaxRequests * crashes'
    <3>1. l - k <= r + old
      BY <2>1, <1>4, <1>5
    <3>2. l - k <= r + MaxRequests * crashes
      BY <3>1, <1>5
    <3>3. r <= n /\ r <= l - k /\ r <= MaxRequests
      BY <2>1, <1>2, <1>4, SMTT(30)
    <3>4. Len(timestamps') = n /\ Len(sent') = l - k /\ crashes' = crashes
      BY <1>6, <1>7, <1>12
    <3> QED BY <3>2, <3>3, <3>4
  <2>3. ASSUME NEW j \in 1 .. r
        PROVE  sent'[Len(sent') - r + j] = timestamps'[Len(timestamps') - r + j]
    <3>1. /\ Len(sent') - r + j \in 1 .. l - k /\ k + (Len(sent') - r + j) = l - r + j
          /\ Len(timestamps') - r + j = n - r + j /\ n - r + j \in 1 .. n
      BY <2>1, <1>4, <1>7, <1>12
    <3>2. sent'[Len(sent') - r + j] = sent[l - r + j] + 1
      BY <3>1, <1>12
    <3>3. /\ m - r + j \in 1 .. m /\ l - m + (m - r + j) = l - r + j
          /\ n - m + (m - r + j) = n - r + j
      BY <2>1, <1>4
    <3>4. sent[l - r + j] = timestamps[n - r + j] /\ sent[l - r + j] \in 0 .. Window - 1
      BY <3>3, <1>16
    <3>5. timestamps[n - r + j] < Window
      BY <3>4, <1>2
    <3>6. timestamps'[n - r + j] = timestamps[n - r + j] + 1
      BY <3>1, <3>5, <1>7
    <3> QED BY <3>1, <3>2, <3>4, <3>6
  <2>4. ASSUME NEW i \in 1 .. Len(timestamps') - r
        PROVE  timestamps'[i] >= Window
    <3>1. i \in 1 .. n - r /\ i \in 1 .. n
      BY <2>1, <1>4, <1>7
    <3>2. timestamps[i] \in 0 .. Window
      BY <3>1, <1>4, ElementType
    <3>3. CASE i \in 1 .. n - m
      <4>1. timestamps[i] >= Window
        BY <3>3, <1>1 DEF Mirrored
      <4> QED BY <4>1, <3>1, <3>2, <1>2, <1>7
    <3>4. CASE i > n - m
      <4>1. /\ k > l - m /\ r = l - k
        BY <3>1, <3>4, <2>1, <1>4
      <4>2. PICK j \in 1 .. m : n - m + j = i
        <5>1. i - (n - m) \in 1 .. m /\ n - m + (i - (n - m)) = i
          BY <3>1, <3>4, <1>4
        <5> QED BY <5>1
      <4>3. l - m + j \in 1 .. k /\ l - m + j \in 1 .. l
        BY <4>1, <4>2, <3>1, <1>4
      <4>4. timestamps[i] = sent[l - m + j]
        BY <4>2, <1>16
      <4>5. older[l - m + j] >= Window /\ older[l - m + j] = sent[l - m + j] + 1
        BY <4>3, <1>8, <1>11
      <4>6. timestamps[i] + 1 >= Window
        BY <4>4, <4>5
      <4>7. timestamps[i] >= Window - 1
        BY <4>6, <3>2, <1>2
      <4> QED BY <4>7, <3>1, <3>2, <1>2, <1>7
    <3> QED BY <3>1, <3>3, <3>4, <1>4
  <2>5. Mirrored(r)'
    BY <2>2, <2>3, <2>4 DEF Mirrored
  <2> QED BY <2>1, <2>5
<1> QED BY <1>13, <1>14, <1>15, <1>17 DEF LInv

(* A new process knows no time stamp, and may send as many again.           *)
LEMMA CrashKeeps ==
  ASSUME LInv, Crash
  PROVE  LInv'
<1>1. PICK m \in Nat : Mirrored(m)
  BY DEF LInv
<1>2. /\ Window \in Nat \ {0} /\ MaxRequests \in Nat \ {0} /\ Slack \in Nat /\ MaxCrashes \in Nat
  BY IntelAssumption
<1>3. /\ LimiterType /\ Sorted(timestamps) /\ Sorted(sent)
  BY DEF LInv
<1>4. /\ crashes < MaxCrashes /\ crashes' = crashes + 1 /\ crashes \in Nat
      /\ throttled' = [c \in Calls |-> "no"] /\ sleep' = [c \in Calls |-> 0]
      /\ timestamps' = <<>> /\ sent' = sent
  BY <1>3 DEF Crash, LimiterType
<1>5. timestamps' \in Seq(0 .. Window) /\ Len(timestamps') = 0
  BY <1>4
<1>6. LimiterType'
  BY <1>2, <1>3, <1>4, <1>5 DEF LimiterType
<1>7. Mirrored(0)'
  <2>1. MaxRequests * (crashes + 1) = MaxRequests * crashes + MaxRequests
    BY <1>2, <1>4
  <2>2. Len(sent) \in Nat /\ MaxRequests * crashes \in Nat
    BY <1>2, <1>3, <1>4 DEF LimiterType
  <2>3. Len(sent) <= m + MaxRequests * crashes /\ m <= MaxRequests
    BY <1>1 DEF Mirrored
  <2>4. Len(sent') <= 0 + MaxRequests * crashes'
    BY <2>1, <2>2, <2>3, <1>2, <1>4
  <2> QED BY <2>2, <2>4, <1>2, <1>4, <1>5 DEF Mirrored
<1>8. Sorted(timestamps)' /\ Sorted(sent)'
  BY <1>3, <1>4, <1>5 DEF Sorted
<1> QED BY <1>6, <1>7, <1>8 DEF LInv

(* No other step touches the limiter.                                       *)
LEMMA LimiterKeeps ==
  ASSUME LInv, [Next]_vars
  PROVE  LInv'
<1>1. CASE UNCHANGED <<limiter, crashes>>
  BY <1>1 DEF LInv, LimiterType, Sorted, Mirrored, limiter
<1>2. CASE Tick
  BY <1>2, TickKeeps
<1>3. CASE Crash
  BY <1>3, CrashKeeps
<1>4. CASE \E c \in Calls : Acquire(c) /\ crashes' = crashes
  BY <1>4, AcquireKeeps
<1>5. \/ UNCHANGED <<limiter, crashes>> \/ Tick \/ Crash
      \/ \E c \in Calls : Acquire(c) /\ crashes' = crashes
  <2>1. ASSUME NEW c \in Calls, EnrichSync(c) \/ TakeJob(c) \/ Wake(c) \/ NextLookup(c)
        PROVE  UNCHANGED <<limiter, crashes>> \/ (Acquire(c) /\ crashes' = crashes)
    BY <2>1 DEF EnrichSync, TakeJob, Wake, NextLookup, Begin, Launch, bounds
  <2>2. ASSUME NEW c \in Calls, NEW p \in Providers, Answer(c, p) \/ AnswerNothing(c, p)
        PROVE  UNCHANGED <<limiter, crashes>>
    BY <2>2 DEF Answer, AnswerNothing, Settle, bounds
  <2>3. ASSUME NEW c \in Calls,
               Enrich(c) \/ Store(c) \/ StoreFails(c) \/ Score(c) \/ Update(c) \/ ScoreFails(c)
        PROVE  UNCHANGED <<limiter, crashes>>
    BY <2>3 DEF Enrich, Store, StoreFails, Score, Update, ScoreFails, Fault, bounds
  <2>4. CASE UNCHANGED vars
    BY <2>4 DEF vars, limiter
  <2> QED BY <2>1, <2>2, <2>3, <2>4 DEF Next
<1> QED BY <1>1, <1>2, <1>3, <1>4, <1>5

----------------------------------------------------------------------------
(* The calls                                                                *)

CallType ==
  /\ pc \in [Calls -> {"idle", "queued"} \cup Active \cup Ended]
  /\ lookup \in [Calls -> 1 .. 4]
  /\ pending \in [Calls -> SUBSET Providers] /\ results \in [Calls -> SUBSET Providers]
  /\ tries \in [Calls -> 0 .. Attempts - 1] /\ stalled \subseteq Jobs
  /\ owed \in [Calls -> Nat]
  /\ faults \in 0 .. MaxFaults

(* What a call owes is what it still has to store, and one for each INSERT  *)
(* that has failed; no provider is asked again once it has answered.        *)
Accounted(c) ==
  /\ IsFiniteSet(results[c]) /\ results[c] \cap pending[c] = {}
  /\ pc[c] \in Active \cup {"done"} =>
       /\ Cardinality(results[c]) <= owed[c]
       /\ owed[c] <= Cardinality(results[c]) + faults
  /\ pc[c] \in {"score", "update", "done"} => results[c] = {}

(* The inductive invariant of the calls.                                    *)
OInv == CallType /\ \A c \in Calls : Accounted(c)

(* A launched lookup owes what was owed before it, and nothing new.         *)
LEMMA LaunchKeeps ==
  ASSUME OInv, NEW c \in Calls, NEW n \in 1 .. 4, Launch(c, n),
         faults' = faults, tries' = tries, stalled' = stalled,
         \/ owed' = [owed EXCEPT ![c] = 0]
         \/ owed' = owed /\ pc[c] = "store" /\ results[c] = {}
  PROVE  OInv'
<1>1. /\ pc' = [pc EXCEPT ![c] = "lookup"] /\ lookup' = [lookup EXCEPT ![c] = n]
      /\ pending' = [pending EXCEPT ![c] = Providers]
      /\ results' = [results EXCEPT ![c] = {}]
  BY DEF Launch, Goto
<1>2. CallType
  BY DEF OInv
<1>3. CallType'
  BY <1>1, <1>2 DEF CallType, Active
<1>4. Accounted(c)'
  <2>1. results'[c] = {} /\ pc'[c] = "lookup"
    BY <1>1, <1>2 DEF CallType
  <2>2. owed'[c] = 0 \/ (owed'[c] = owed[c] /\ pc[c] = "store" /\ results[c] = {})
    BY <1>2 DEF CallType
  <2>3. Accounted(c)
    BY DEF OInv
  <2>4. IsFiniteSet({}) /\ Cardinality({}) = 0
    BY FS_EmptySet
  <2>5. 0 <= owed'[c] /\ owed'[c] <= 0 + faults'
    BY <2>2, <2>3, <2>4, <1>2 DEF Accounted, CallType, Active
  <2> QED BY <2>1, <2>4, <2>5 DEF Accounted
<1>5. ASSUME NEW d \in Calls, d # c PROVE Accounted(d)'
  BY <1>1, <1>2, <1>5 DEF OInv, CallType, Accounted
<1> QED BY <1>3, <1>4, <1>5 DEF OInv

(* A step of one call within its lookup or its storing, that leaves the     *)
(* others as they are.                                                      *)
LEMMA OthersKeep ==
  ASSUME OInv, NEW c \in Calls,
         CallType', Accounted(c)', faults' \in Nat, faults' >= faults,
         \A d \in Calls \ {c} :
           /\ pc'[d] = pc[d] /\ pending'[d] = pending[d] /\ results'[d] = results[d]
           /\ owed'[d] = owed[d]
  PROVE  OInv'
<1>1. ASSUME NEW d \in Calls \ {c} PROVE Accounted(d)'
  <2>1. Accounted(d) /\ owed[d] \in Nat /\ faults \in Nat
    BY DEF OInv, CallType
  <2>2. Cardinality(results[d]) \in Nat
    BY <2>1, FS_CardinalityType DEF Accounted
  <2> QED BY <2>1, <2>2 DEF Accounted
<1> QED BY <1>1 DEF OInv

(* An answer is one more to store, and one more that is owed.               *)
LEMMA AnswerKeeps ==
  ASSUME OInv, NEW c \in Calls, NEW p \in Providers, Answer(c, p) \/ AnswerNothing(c, p)
  PROVE  OInv'
<1>1. CallType /\ Accounted(c)
  BY DEF OInv
<1>2. /\ pc[c] = "lookup" /\ p \in pending[c]
      /\ pending' = [pending EXCEPT ![c] = @ \ {p}]
      /\ pc' = IF pending[c] = {p} THEN [pc EXCEPT ![c] = "store"] ELSE pc
      /\ lookup' = lookup /\ tries' = tries /\ stalled' = stalled /\ faults' = faults
  BY DEF Answer, AnswerNothing, Asking, Settle, Goto, queue, bounds
<1>3. \/ /\ results' = [results EXCEPT ![c] = @ \cup {p}]
         /\ owed' = [owed EXCEPT ![c] = @ + 1]
      \/ results' = results /\ owed' = owed
  BY DEF Answer, AnswerNothing
<1>4. CallType'
  BY <1>1, <1>2, <1>3 DEF CallType, Active
<1>5. Accounted(c)'
  <2>1. /\ pc'[c] \in {"lookup", "store"} /\ pending'[c] = pending[c] \ {p}
        /\ p \notin results[c] /\ owed[c] \in Nat /\ faults \in Nat
        /\ IsFiniteSet(results[c])
        /\ Cardinality(results[c]) <= owed[c] /\ owed[c] <= Cardinality(results[c]) + faults
    BY <1>1, <1>2 DEF CallType, Accounted, Active
  <2>2. /\ IsFiniteSet(results[c] \cup {p}) /\ Cardinality(results[c]) \in Nat
        /\ Cardinality(results[c] \cup {p}) = Cardinality(results[c]) + 1
    BY <2>1, FS_AddElement, FS_CardinalityType
  <2>3. CASE results' = results /\ owed' = owed
    BY <2>1, <2>3, <1>1, <1>2 DEF Accounted
  <2>4. CASE /\ results' = [results EXCEPT ![c] = @ \cup {p}]
             /\ owed' = [owed EXCEPT ![c] = @ + 1]
    <3>1. results'[c] = results[c] \cup {p} /\ owed'[c] = owed[c] + 1
      BY <2>4, <1>1 DEF CallType
    <3>2. results'[c] \cap pending'[c] = {}
      BY <3>1, <2>1, <1>1 DEF Accounted
    <3> QED BY <3>1, <3>2, <2>1, <2>2, <1>2 DEF Accounted
  <2> QED BY <2>3, <2>4, <1>3
<1>6. \A d \in Calls \ {c} :
        /\ pc'[d] = pc[d] /\ pending'[d] = pending[d] /\ results'[d] = results[d]
        /\ owed'[d] = owed[d]
  BY <1>1, <1>2, <1>3 DEF CallType
<1> QED BY <1>1, <1>2, <1>4, <1>5, <1>6, OthersKeep DEF CallType

(* A row that is stored is owed no more; one that is not is a fault.        *)
LEMMA StoreKeeps ==
  ASSUME OInv, NEW c \in Calls, Store(c) \/ StoreFails(c)
  PROVE  OInv'
<1>1. CallType /\ Accounted(c)
  BY DEF OInv
<1>2. PICK p \in results[c] :
        /\ pc[c] = "store" /\ results' = [results EXCEPT ![c] = @ \ {p}]
        /\ \/ owed' = [owed EXCEPT ![c] = @ - 1] /\ faults' = faults
           \/ owed' = owed /\ faults' = faults + 1 /\ faults < MaxFaults
        /\ pc' = pc /\ lookup' = lookup /\ pending' = pending /\ tries' = tries
        /\ stalled' = stalled
  BY DEF Store, StoreFails, Fault, queue, bounds
<1>3. /\ owed[c] \in Nat /\ faults \in Nat /\ IsFiniteSet(results[c])
      /\ Cardinality(results[c]) <= owed[c] /\ owed[c] <= Cardinality(results[c]) + faults
  BY <1>1, <1>2 DEF CallType, Accounted, Active
<1>4. /\ IsFiniteSet(results[c] \ {p}) /\ Cardinality(results[c]) \in Nat
      /\ Cardinality(results[c] \ {p}) = Cardinality(results[c]) - 1
      /\ Cardinality(results[c] \ {p}) \in Nat
  BY <1>3, FS_RemoveElement, FS_CardinalityType
<1>5. owed[c] - 1 \in Nat
  BY <1>3, <1>4
<1>6. CallType'
  BY <1>1, <1>2, <1>5, IntelAssumption DEF CallType
<1>7. Accounted(c)'
  <2>1. results'[c] = results[c] \ {p} /\ pc'[c] = "store" /\ pending'[c] = pending[c]
    BY <1>1, <1>2 DEF CallType
  <2>2. results'[c] \cap pending'[c] = {}
    BY <2>1, <1>1 DEF Accounted
  <2>3. \/ owed'[c] = owed[c] - 1 /\ faults' = faults
        \/ owed'[c] = owed[c] /\ faults' = faults + 1
    BY <1>1, <1>2 DEF CallType
  <2> QED BY <2>1, <2>2, <2>3, <1>3, <1>4 DEF Accounted
<1>8. \A d \in Calls \ {c} :
        /\ pc'[d] = pc[d] /\ pending'[d] = pending[d] /\ results'[d] = results[d]
        /\ owed'[d] = owed[d]
  BY <1>1, <1>2 DEF CallType
<1>9. faults' \in Nat /\ faults' >= faults
  BY <1>2, <1>3
<1> QED BY <1>6, <1>7, <1>8, <1>9, OthersKeep

(* Every step keeps the account.                                            *)
LEMMA CallsKeep ==
  ASSUME OInv, [Next]_vars
  PROVE  OInv'
<1>1. CallType /\ \A c \in Calls : Accounted(c)
  BY DEF OInv
<1>2. ASSUME NEW c \in Calls, EnrichSync(c) \/ TakeJob(c) PROVE OInv'
  <2>1. /\ Launch(c, 1) /\ owed' = [owed EXCEPT ![c] = 0]
        /\ faults' = faults /\ tries' = tries /\ stalled' = stalled
    BY <1>2 DEF EnrichSync, TakeJob, Begin, queue, bounds
  <2>2. 1 \in 1 .. 4
    OBVIOUS
  <2> QED BY <2>1, <2>2, LaunchKeeps
<1>3. ASSUME NEW c \in Calls, NextLookup(c) PROVE OInv'
  <2>1. /\ pc[c] = "store" /\ results[c] = {} /\ owed' = owed
        /\ faults' = faults /\ tries' = tries /\ stalled' = stalled
    BY <1>3 DEF NextLookup, queue, bounds
  <2>2. CASE lookup[c] < Asked[c]
    <3>1. Launch(c, lookup[c] + 1) /\ lookup[c] + 1 \in 1 .. 4
      <4>1. Asked[c] \in 1 .. 4 /\ lookup[c] \in 1 .. 4
        BY <1>1, IntelAssumption DEF CallType
      <4> QED BY <4>1, <2>2, <1>3 DEF NextLookup
    <3> QED BY <3>1, <2>1, LaunchKeeps
  <2>3. CASE ~(lookup[c] < Asked[c])
    <3>1. /\ pc' = [pc EXCEPT ![c] = "score"] /\ lookup' = lookup /\ pending' = pending
          /\ results' = results
      BY <2>3, <1>3 DEF NextLookup, Goto
    <3>2. CallType'
      BY <3>1, <2>1, <1>1 DEF CallType, Active
    <3>3. ASSUME NEW d \in Calls PROVE Accounted(d)'
      BY <3>1, <2>1, <1>1 DEF CallType, Accounted, Active
    <3> QED BY <3>2, <3>3 DEF OInv
  <2> QED BY <2>2, <2>3
<1>4. ASSUME NEW c \in Calls, Enrich(c) \/ Score(c) \/ Update(c) PROVE OInv'
  <2>1. /\ \/ pc[c] = "idle" /\ pc' = [pc EXCEPT ![c] = "queued"]
           \/ pc[c] = "score" /\ pc' = [pc EXCEPT ![c] = "update"]
           \/ pc[c] \in {"score", "update"} /\ pc' = [pc EXCEPT ![c] = "done"]
        /\ lookup' = lookup /\ pending' = pending /\ results' = results /\ owed' = owed
        /\ faults' = faults /\ tries' = tries /\ stalled' = stalled
    BY <1>4 DEF Enrich, Score, Update, Goto, queue, bounds
  <2>2. CallType'
    BY <2>1, <1>1 DEF CallType, Active, Ended
  <2>3. ASSUME NEW d \in Calls PROVE Accounted(d)'
    BY <2>1, <1>1 DEF CallType, Accounted, Active
  <2> QED BY <2>2, <2>3 DEF OInv
<1>5. ASSUME NEW c \in Calls, ScoreFails(c) PROVE OInv'
  <2>1. /\ \/ pc' = [pc EXCEPT ![c] = "queued"] /\ tries' = [tries EXCEPT ![c] = @ + 1]
              /\ tries[c] + 1 < Attempts
           \/ pc' = [pc EXCEPT ![c] = "failed"] /\ tries' = tries
        /\ lookup' = lookup /\ pending' = pending /\ results' = results /\ owed' = owed
        /\ faults' = faults + 1 /\ faults < MaxFaults /\ stalled' = stalled
    BY <1>5 DEF ScoreFails, Fault, Goto
  <2>2. CallType'
    <3>1. faults' \in 0 .. MaxFaults
      BY <2>1, <1>1, IntelAssumption DEF CallType
    <3>2. tries' \in [Calls -> 0 .. Attempts - 1]
      BY <2>1, <1>1, IntelAssumption DEF CallType
    <3> QED BY <3>1, <3>2, <2>1, <1>1 DEF CallType, Ended
  <2>3. Accounted(c)'
    <3>1. pc'[c] \in {"queued", "failed"}
      BY <2>1, <1>1 DEF CallType
    <3> QED BY <3>1, <2>1, <1>1 DEF Accounted, Active
  <2>4. \A d \in Calls \ {c} : pc'[d] = pc[d]
    BY <2>1, <1>1 DEF CallType
  <2>5. faults' \in Nat /\ faults' >= faults
    BY <2>1, <1>1 DEF CallType
  <2> QED BY <2>1, <2>2, <2>3, <2>4, <2>5, OthersKeep
<1>6. ASSUME NEW c \in Calls, Wake(c) PROVE OInv'
  <2>1. /\ pc' = pc /\ lookup' = lookup /\ pending' = pending /\ results' = results
        /\ owed' = owed /\ faults' = faults /\ tries' = tries /\ stalled' = stalled
    BY <1>6 DEF Wake, queue, bounds
  <2>2. CallType'
    BY <2>1, <1>1 DEF CallType
  <2>3. \A d \in Calls : Accounted(d)'
    BY <2>1, <1>1 DEF Accounted
  <2> QED BY <2>2, <2>3 DEF OInv
<1>7. CASE Tick
  BY <1>7 DEF Tick, queue, bounds, OInv, CallType, Accounted
<1>8. CASE UNCHANGED vars
  BY <1>8 DEF vars, OInv, CallType, Accounted
<1>9. CASE Crash
  <2>1. /\ pending' = [c \in Calls |-> {}] /\ results' = [c \in Calls |-> {}]
        /\ lookup' = lookup /\ tries' = tries /\ owed' = owed /\ faults' = faults
        /\ pc' = [c \in Calls |-> IF pc[c] \notin Active THEN pc[c]
                                  ELSE IF c \in Jobs \ stalled THEN "queued" ELSE "failed"]
        /\ stalled' \subseteq Jobs
    BY <1>9, <1>1 DEF Crash, CallType
  <2>2. CallType'
    BY <2>1, <1>1 DEF CallType, Ended
  <2>3. ASSUME NEW c \in Calls PROVE Accounted(c)'
    <3>1. /\ results'[c] = {} /\ IsFiniteSet({}) /\ Cardinality({}) = 0
          /\ pc'[c] \notin Active /\ (pc'[c] = "done" => pc[c] = "done")
      BY <2>1, FS_EmptySet DEF Active
    <3>2. pc[c] = "done" => results[c] = {} /\ 0 <= owed[c] /\ owed[c] <= 0 + faults
      BY <3>1, <1>1 DEF Accounted
    <3> QED BY <3>1, <3>2, <2>1 DEF Accounted
  <2> QED BY <2>2, <2>3 DEF OInv
<1> QED BY <1>2, <1>3, <1>4, <1>5, <1>6, <1>7, <1>8, <1>9, AnswerKeeps, StoreKeeps DEF Next

(* Both invariants hold of every behaviour.                                 *)
LEMMA InvariantHolds == Spec => [](LInv /\ OInv)
<1>1. Init => LInv /\ OInv
  <2> SUFFICES ASSUME Init PROVE LInv /\ OInv
    OBVIOUS
  <2>1. LimiterType
    BY IntelAssumption DEF Init, LimiterType
  <2>2. Mirrored(0)
    BY IntelAssumption DEF Init, Mirrored
  <2>3. CallType
    BY IntelAssumption DEF Init, CallType
  <2>4. IsFiniteSet({})
    BY FS_EmptySet
  <2>5. ASSUME NEW c \in Calls PROVE Accounted(c)
    BY <2>4 DEF Init, Accounted, Active
  <2> QED BY <2>1, <2>2, <2>3, <2>5 DEF Init, LInv, OInv, Sorted
<1>2. LInv /\ OInv /\ [Next]_vars => (LInv /\ OInv)'
  BY LimiterKeeps, CallsKeep
<1> QED BY <1>1, <1>2, PTL DEF Spec

(* Every variable keeps its type, whatever the calls, limits and crashes.   *)
THEOREM TypeCorrect == Spec => []TypeOK
<1>1. LInv /\ OInv => TypeOK
  BY DEF LInv, LimiterType, OInv, CallType, TypeOK
<1> QED BY <1>1, InvariantHolds, PTL

(* Whatever the limits, the calls that sleep, wake and arrive at once, and  *)
(* the crashes: no window holds more requests to VirusTotal than            *)
(* configured, per process that has run.                                    *)
THEOREM RateIsRespected == Spec => []RateRespected
<1>1. LInv => RateRespected
  <2> SUFFICES ASSUME LInv, NEW m \in Nat, Mirrored(m) PROVE RateRespected
    BY DEF LInv
  <2>1. crashes \in Nat /\ MaxRequests \in Nat /\ Len(sent) \in Nat
    BY IntelAssumption DEF LInv, LimiterType
  <2>2. MaxRequests * (1 + crashes) = MaxRequests + MaxRequests * crashes
        /\ MaxRequests * crashes \in Nat
    BY <2>1
  <2> QED BY <2>1, <2>2 DEF Mirrored, RateRespected
<1> QED BY <1>1, InvariantHolds, PTL

(* For any number of calls and providers: a call that is past its lookups   *)
(* lacks at most a row for each INSERT that failed, of all calls together.  *)
THEOREM LossIsPerFault == Spec => []LostPerFault
<1>1. OInv => LostPerFault
  <2> SUFFICES ASSUME OInv, NEW c \in Calls, pc[c] \in {"score", "update", "done"}
               PROVE  owed[c] <= faults
    BY DEF LostPerFault
  <2>1. /\ results[c] = {} /\ owed[c] <= Cardinality(results[c]) + faults
        /\ owed[c] \in Nat /\ faults \in Nat
    BY DEF OInv, CallType, Accounted, Active
  <2>2. Cardinality({}) = 0
    BY FS_EmptySet
  <2> QED BY <2>1, <2>2
<1> QED BY <1>1, InvariantHolds, PTL
==============================================================================
