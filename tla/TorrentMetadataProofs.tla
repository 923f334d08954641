------------------------- MODULE TorrentMetadataProofs -------------------------
(* What TorrentMetadata computes, for torrent files, magnets, selections and    *)
(* commits of any size: the lemmas EngineReadersProofs proves its theorems      *)
(* about them with, and the folds of Lists they rest on.                        *)
EXTENDS TorrentMetadata, FiniteSetTheorems, SequenceTheorems, TLAPS

\* Some of the first numbers have a smallest.
LEMMA SmallestOfSome ==
    ASSUME NEW n \in Nat, NEW some \in SUBSET (1..n), some # {}
    PROVE  \E i \in some : \A j \in some : i <= j
<1> DEFINE R == StrictSubsetOrdering(1..n)
           Finite == FiniteSubsetsOf(1..n)
           Below == {1..i : i \in some}
<1>1. IsWellFoundedOn(R, Finite)
  BY FS_StrictSubsetOrderingWellFounded
<1>2. Below \subseteq Finite
  <2>1. ASSUME NEW i \in some PROVE IsFiniteSet(1..i) /\ 1..i \subseteq 1..n
    <3>1. i \in Nat /\ i <= n
      OBVIOUS
    <3> QED
      BY <3>1, FS_Interval
  <2> QED
    BY <2>1 DEF FiniteSubsetsOf
<1>3. Below # {}
  OBVIOUS
<1>4. \E b \in Below : \A c \in Below : <<c, b>> \notin R
  <2> HIDE DEF Below, R, Finite
  <2> QED
    BY <1>1, <1>2, <1>3, WFMin
<1>5. PICK i \in some : \A j \in some : <<1..j, 1..i>> \notin R
  BY <1>4
<1>6. ASSUME NEW j \in some, j < i PROVE FALSE
  <2>1. 1..j \subseteq 1..i /\ 1..i \subseteq 1..n /\ 1..j \subseteq 1..n
    BY <1>6
  <2>2. i \in 1..i /\ i \notin 1..j
    BY <1>6
  <2> QED
    BY <2>1, <2>2, <1>5 DEF StrictSubsetOrdering
<1> QED
  BY <1>6

\* Induction over the first numbers, in terms of the set of the good ones.
LEMMA UpTo ==
    ASSUME NEW n \in Nat, NEW good, 0 \in good,
           \A k \in 0..(n - 1) : k \in good => k + 1 \in good
    PROVE  \A k \in 0..n : k \in good
<1> DEFINE bad == {k \in 1..n : k \notin good}
<1> SUFFICES ASSUME bad # {} PROVE FALSE
  OBVIOUS
<1>1. PICK i \in bad : \A j \in bad : i <= j
  <2> HIDE DEF bad
  <2>1. bad \in SUBSET (1..n)
    BY DEF bad
  <2> QED
    BY <2>1, SmallestOfSome
<1>2. i \in 1..n /\ i - 1 \in 0..(n - 1) /\ (i - 1) + 1 = i
  OBVIOUS
<1>3. i - 1 \in good
  BY <1>1, <1>2
<1> QED
  BY <1>2, <1>3

\* The largest of some of the first numbers, of which one is the bound itself.
LEMMA LargestIsTheBound ==
    ASSUME NEW k \in Nat, NEW s \in SUBSET (1..k), k \in s
    PROVE  Max(s) = k
<1>1. \A y \in s : k >= y
  OBVIOUS
<1>2. \A x \in s : (\A y \in s : x >= y) => x = k
  OBVIOUS
<1> QED
  BY <1>1, <1>2 DEF Max

\* The largest of some of the first numbers is one of them.
LEMMA LargestIsOfThem ==
    ASSUME NEW n \in Nat, NEW s \in SUBSET (1..n), s # {}
    PROVE  Max(s) \in s
<1> DEFINE some == {n + 1 - i : i \in s}
<1>0. \A i \in s : i \in 1..n /\ n + 1 - i \in 1..n
  OBVIOUS
<1>1. some \in SUBSET (1..n) /\ some # {}
  BY <1>0
<1>2. PICK m \in some : \A j \in some : m <= j
  <2> HIDE DEF some
  <2> QED
    BY <1>1, SmallestOfSome
<1>3. \A y \in s : n + 1 - m >= y
  BY <1>2
<1>4. n + 1 - m \in s
  BY <1>2
<1> QED
  BY <1>3, <1>4 DEF Max

\* What a fold computes on every part of the first k positions.
FoldsTo(f, base, step, k) ==
    /\ f[{}] = base
    /\ \A s \in SUBSET (1..k) : s # {} => f[s] = step[<<f[s \ {Max(s)}], Max(s)>>]

\* A fold is a function on every part of the positions.
LEMMA FoldExists ==
    ASSUME NEW n \in Nat, NEW T, NEW base \in T, NEW step \in [T \X (1..n) -> T]
    PROVE  \E f \in [SUBSET (1..n) -> T] : FoldsTo(f, base, step, n)
<1> DEFINE good == {k \in 0..n : \E f \in [SUBSET (1..k) -> T] : FoldsTo(f, base, step, k)}
<1>1. 0 \in good
  <2> DEFINE f == [s \in SUBSET (1..0) |-> base]
  <2>1. 1..0 = {} 
    OBVIOUS
  <2>2. f \in [SUBSET (1..0) -> T] /\ FoldsTo(f, base, step, 0)
    BY <2>1 DEF FoldsTo
  <2> HIDE DEF f
  <2>3. \E h \in [SUBSET (1..0) -> T] : FoldsTo(h, base, step, 0)
    BY <2>2
  <2>4. 0 \in 0..n
    OBVIOUS
  <2> QED
    BY <2>3, <2>4
<1>2. ASSUME NEW k \in 0..(n - 1), k \in good PROVE k + 1 \in good
  <2>1. PICK f \in [SUBSET (1..k) -> T] : FoldsTo(f, base, step, k)
    BY <1>2
  <2> DEFINE g == [s \in SUBSET (1..(k + 1)) |->
                      IF k + 1 \in s THEN step[<<f[s \ {k + 1}], k + 1>>] ELSE f[s]]
  <2>2. \A s \in SUBSET (1..(k + 1)) : s \ {k + 1} \in SUBSET (1..k)
    OBVIOUS
  <2>3. \A s \in SUBSET (1..(k + 1)) : k + 1 \notin s => s \in SUBSET (1..k)
    OBVIOUS
  <2>4. k + 1 \in 1..n /\ k + 1 \in Nat
    OBVIOUS
  <2>5. g \in [SUBSET (1..(k + 1)) -> T]
    BY <2>2, <2>3, <2>4
  <2>6. g[{}] = base
    BY <2>1 DEF FoldsTo
  <2>7. ASSUME NEW s \in SUBSET (1..(k + 1)), s # {}
        PROVE  g[s] = step[<<g[s \ {Max(s)}], Max(s)>>]
    <3>1. CASE k + 1 \in s
      <4>1. Max(s) = k + 1
        BY <3>1, <2>4, LargestIsTheBound
      <4>2. s \ {k + 1} \in SUBSET (1..(k + 1)) /\ k + 1 \notin s \ {k + 1}
        BY <2>7
      <4>3. g[s \ {k + 1}] = f[s \ {k + 1}]
        BY <4>2
      <4> QED
        BY <3>1, <4>1, <4>3
    <3>2. CASE k + 1 \notin s
      <4>1. s \in SUBSET (1..k) /\ s \ {Max(s)} \in SUBSET (1..k)
        BY <2>3, <3>2
      <4>2. f[s] = step[<<f[s \ {Max(s)}], Max(s)>>]
        BY <4>1, <2>1, <2>7 DEF FoldsTo
      <4>3. s \ {Max(s)} \in SUBSET (1..(k + 1)) /\ k + 1 \notin s \ {Max(s)}
        BY <3>2
      <4>4. g[s] = f[s] /\ g[s \ {Max(s)}] = f[s \ {Max(s)}]
        BY <4>3, <3>2
      <4> QED
        BY <4>2, <4>4
    <3> QED
      BY <3>1, <3>2
  <2>8. FoldsTo(g, base, step, k + 1)
    <3> HIDE DEF g
    <3> QED
      BY <2>6, <2>7 DEF FoldsTo
  <2> HIDE DEF g
  <2>9. \E h \in [SUBSET (1..(k + 1)) -> T] : FoldsTo(h, base, step, k + 1)
    BY <2>5, <2>8
  <2> QED
    BY <2>9, <2>4
<1>3. n \in good
  <2> HIDE DEF good
  <2> QED
    BY <1>1, <1>2, UpTo
<1> QED
  BY <1>3

\* The largest of the first k + 1 numbers, and what is left without it.
LEMMA LastOfThem ==
    ASSUME NEW k \in Nat
    PROVE  Max(1..(k + 1)) = k + 1 /\ (1..(k + 1)) \ {k + 1} = 1..k /\ 1..(k + 1) # {}
<1>1. k + 1 \in Nat /\ 1..(k + 1) \in SUBSET (1..(k + 1)) /\ k + 1 \in 1..(k + 1)
  OBVIOUS
<1>2. Max(1..(k + 1)) = k + 1
  BY <1>1, LargestIsTheBound
<1> QED
  BY <1>2

\* A function of sets of positions starts with base, and goes on as step says
\* wherever it has a value of T to go on from.
GoesOn(f, base, T, step, n) ==
    /\ f[{}] = base
    /\ \A s \in SUBSET (1..n) : s # {} =>
          /\ Max(s) \in 1..n
          /\ f[s \ {Max(s)}] \in T => f[s] = step[<<f[s \ {Max(s)}], Max(s)>>]

\* There is a function that computes the fold, and each of its values is of T.
LEMMA FoldGoesOn ==
    ASSUME NEW n \in Nat, NEW T, NEW base \in T, NEW step \in [T \X (1..n) -> T]
    PROVE  \E f \in [SUBSET (1..n) -> T] :
              /\ GoesOn(f, base, T, step, n)
              /\ \A s \in SUBSET (1..n) : s # {} => Max(s) \in 1..n /\ f[s \ {Max(s)}] \in T
<1>1. PICK f \in [SUBSET (1..n) -> T] : FoldsTo(f, base, step, n)
  BY FoldExists
<1>2. ASSUME NEW s \in SUBSET (1..n), s # {}
      PROVE  Max(s) \in 1..n /\ f[s \ {Max(s)}] \in T
  <2>1. Max(s) \in 1..n
    BY <1>2, LargestIsOfThem
  <2>2. s \ {Max(s)} \in SUBSET (1..n)
    OBVIOUS
  <2> QED
    BY <2>1, <2>2
<1> QED
  BY <1>1, <1>2 DEF FoldsTo, GoesOn

\* A fold's states: the first, and each from the one before it.
Runs(st, base, T, step, n) ==
    /\ st[0] = base
    /\ \A k \in 1..n : st[k - 1] \in T /\ st[k] = step[<<st[k - 1], k>>]

EndsWith(f, st, n) == f[1..n] = st[n]

\* The states a fold goes through are what it computes on the first positions.
LEMMA StatesOfFold ==
    ASSUME NEW n \in Nat, NEW T, NEW base \in T, NEW step \in [T \X (1..n) -> T],
           NEW f, GoesOn(f, base, T, step, n)
    PROVE  \E st \in [0..n -> T] : Runs(st, base, T, step, n) /\ EndsWith(f, st, n)
<1> DEFINE good == {k \in 0..n : f[1..k] \in T}
           st == [k \in 0..n |-> f[1..k]]
<1>1. 1..0 = {} /\ 0 \in 0..n /\ n \in 0..n
  OBVIOUS
<1>2. 0 \in good /\ f[{}] = base
  BY <1>1 DEF GoesOn
<1>3. ASSUME NEW k \in 0..(n - 1), f[1..k] \in T
      PROVE  f[1..(k + 1)] = step[<<f[1..k], k + 1>>] /\ f[1..(k + 1)] \in T
  <2>1. k + 1 \in 1..n /\ k \in Nat /\ 1..(k + 1) \in SUBSET (1..n)
    OBVIOUS
  <2>2. /\ Max(1..(k + 1)) = k + 1 /\ (1..(k + 1)) \ {k + 1} = 1..k /\ 1..(k + 1) # {}
    BY <2>1, LastOfThem
  <2>3. f[1..(k + 1)] = step[<<f[1..k], k + 1>>]
    BY <1>3, <2>1, <2>2 DEF GoesOn
  <2> QED
    BY <1>3, <2>1, <2>3
<1>4. \A k \in 0..n : k \in good
  <2>1. ASSUME NEW k \in 0..(n - 1), k \in good PROVE k + 1 \in good
    <3>1. f[1..k] \in T /\ k + 1 \in 0..n
      BY <2>1
    <3>2. f[1..(k + 1)] \in T
      BY <1>3, <3>1
    <3> QED
      BY <3>1, <3>2
  <2> HIDE DEF good
  <2> QED
    BY <1>2, <2>1, UpTo
<1>5. st \in [0..n -> T]
  BY <1>4
<1>6. ASSUME NEW k \in 1..n PROVE st[k - 1] \in T /\ st[k] = step[<<st[k - 1], k>>]
  <2>1. k - 1 \in 0..(n - 1) /\ (k - 1) + 1 = k /\ k - 1 \in 0..n /\ k \in 0..n
    OBVIOUS
  <2> QED
    BY <1>3, <1>4, <2>1
<1>7. st[0] = base /\ EndsWith(f, st, n)
  BY <1>1, <1>2 DEF EndsWith
<1> HIDE DEF st
<1>8. Runs(st, base, T, step, n)
  BY <1>6, <1>7 DEF Runs
<1> QED
  BY <1>5, <1>7, <1>8

(* ---------------------------------- lists ----------------------------------- *)

\* What is kept of a list grows item by item.
KeptRun(st, s, wanted) ==
    /\ st[0] = <<>>
    /\ \A k \in 1..Len(s) :
          st[k] = IF s[k] \in wanted THEN Append(st[k - 1], s[k]) ELSE st[k - 1]
    /\ Kept(s, wanted) = st[Len(s)]

\* Keeping goes through such states.
LEMMA KeptSteps ==
    ASSUME NEW S, NEW s \in Seq(S), NEW wanted
    PROVE  \E st \in [0..Len(s) -> Seq(S)] : KeptRun(st, s, wanted)
<1> DEFINE n == Len(s)
           T == Seq(S)
           base == <<>>
           step == [p \in T \X (1..n) |-> IF s[p[2]] \in wanted THEN Append(p[1], s[p[2]]) ELSE p[1]]
           IsFold(f) == f = [t \in SUBSET DOMAIN s |->
                           IF t = {} THEN base
                           ELSE IF s[Max(t)] \in wanted THEN Append(f[t \ {Max(t)}], s[Max(t)])
                           ELSE f[t \ {Max(t)}]]
           iter == CHOOSE f : IsFold(f)
<1>1. n \in Nat /\ base \in T /\ DOMAIN s = 1..n
  OBVIOUS
<1>2. step \in [T \X (1..n) -> T]
  OBVIOUS
<1>3. \A a \in T, k \in 1..n : step[<<a, k>>] = IF s[k] \in wanted THEN Append(a, s[k]) ELSE a
  OBVIOUS
<1>4. Kept(s, wanted) = iter[1..n]
  BY <1>1 DEF Kept, FoldLeft, MapThenFoldSet
<1> HIDE DEF T, n, step, base
<1>5. PICK f \in [SUBSET (1..n) -> T] :
         /\ GoesOn(f, base, T, step, n)
         /\ \A t \in SUBSET (1..n) : t # {} => Max(t) \in 1..n /\ f[t \ {Max(t)}] \in T
  BY <1>1, <1>2, FoldGoesOn
<1>6. IsFold(f)
  BY <1>1, <1>3, <1>5 DEF GoesOn
<1>7. IsFold(iter)
  <2> HIDE DEF IsFold
  <2> QED
    BY <1>6
<1> HIDE DEF iter
<1>8. GoesOn(iter, base, T, step, n)
  BY <1>1, <1>3, <1>5, <1>7, ZenonT(30) DEF GoesOn
<1>9. PICK st \in [0..n -> T] : Runs(st, base, T, step, n) /\ EndsWith(iter, st, n)
  <2> HIDE DEF IsFold
  <2>1. base \in T /\ n \in Nat
    BY <1>1
  <2> QED
    BY <1>2, <1>8, <2>1, StatesOfFold
<1> QED
  BY <1>3, <1>4, <1>9, ZenonT(30) DEF Runs, EndsWith, KeptRun, n, T, base

\* The places e of s whose items were kept, in order, of the first n.
Picks(e, kept, s, wanted, n) ==
    /\ e \in [1..Len(kept) -> 1..n] /\ Len(kept) <= n
    /\ \A i \in 1..Len(kept) : kept[i] = s[e[i]] /\ s[e[i]] \in wanted
    /\ \A i, j \in 1..Len(kept) : i < j => e[i] < e[j]
    /\ \A k \in 1..n : s[k] \in wanted => \E i \in 1..Len(kept) : e[i] = k

\* What is kept of a list is picked from it in its order, and nothing wanted is
\* left.
LEMMA KeptPicks ==
    ASSUME NEW S, NEW s \in Seq(S), NEW wanted
    PROVE  /\ Kept(s, wanted) \in Seq(S)
           /\ \E e : Picks(e, Kept(s, wanted), s, wanted, Len(s))
<1> DEFINE n == Len(s)
<1>0. n \in Nat
  OBVIOUS
<1>5. PICK st \in [0..n -> Seq(S)] : KeptRun(st, s, wanted)
  BY KeptSteps
<1>1. /\ st[0] = <<>>
      /\ \A k \in 1..n : st[k] = IF s[k] \in wanted THEN Append(st[k - 1], s[k]) ELSE st[k - 1]
      /\ Kept(s, wanted) = st[n]
  BY <1>5 DEF KeptRun
<1> DEFINE good == {k \in 0..n : \E e : Picks(e, st[k], s, wanted, k)}
<1>2. 0 \in good
  <2> DEFINE e == [i \in 1..0 |-> 0]
  <2>1. Len(st[0]) = 0
    BY <1>1
  <2>2. Picks(e, st[0], s, wanted, 0)
    BY <2>1 DEF Picks
  <2> HIDE DEF e
  <2> QED
    BY <1>0, <2>2
<1>3. ASSUME NEW k \in 0..(n - 1), k \in good PROVE k + 1 \in good
  <2>1. PICK e : Picks(e, st[k], s, wanted, k)
    BY <1>3
  <2>2. k \in 0..n /\ k + 1 \in 1..n /\ k + 1 \in 0..n /\ (k + 1) - 1 = k /\ k \in Nat
    BY <1>0
  <2>3. st[k] \in Seq(S) /\ s[k + 1] \in S
    BY <2>2
  <2> DEFINE m == Len(st[k])
  <2>4. m \in Nat
    BY <2>3
  <2>5. CASE s[k + 1] \in wanted
    <3>1. st[k + 1] = Append(st[k], s[k + 1])
      BY <1>1, <2>2, <2>5
    <3>2. /\ Len(st[k + 1]) = m + 1 /\ st[k + 1][m + 1] = s[k + 1]
          /\ \A i \in 1..m : st[k + 1][i] = st[k][i]
      BY <2>3, <3>1
    <3> DEFINE g == [i \in 1..(m + 1) |-> IF i = m + 1 THEN k + 1 ELSE e[i]]
    <3>3. /\ e \in [1..m -> 1..k] /\ m <= k
          /\ \A i \in 1..m : st[k][i] = s[e[i]] /\ s[e[i]] \in wanted
          /\ \A i, j \in 1..m : i < j => e[i] < e[j]
          /\ \A l \in 1..k : s[l] \in wanted => \E i \in 1..m : e[i] = l
      BY <2>1 DEF Picks
    <3>4. g \in [1..(m + 1) -> 1..(k + 1)] /\ g[m + 1] = k + 1 /\ \A i \in 1..m : g[i] = e[i]
      BY <2>2, <2>4, <3>3
    <3> HIDE DEF g
    <3>5. \A i \in 1..(m + 1) : st[k + 1][i] = s[g[i]] /\ s[g[i]] \in wanted
      <4> TAKE i \in 1..(m + 1)
      <4>1. i = m + 1 \/ i \in 1..m
        BY <2>4
      <4> QED
        BY <4>1, <2>5, <3>2, <3>3, <3>4
    <3>6. \A i, j \in 1..(m + 1) : i < j => g[i] < g[j]
      <4> SUFFICES ASSUME NEW i \in 1..(m + 1), NEW j \in 1..(m + 1), i < j PROVE g[i] < g[j]
        OBVIOUS
      <4>1. i \in 1..m /\ (j = m + 1 \/ j \in 1..m)
        BY <2>4
      <4>2. e[i] \in 1..k
        BY <3>3, <4>1
      <4> QED
        BY <2>2, <4>1, <4>2, <3>3, <3>4
    <3>7. \A l \in 1..(k + 1) : s[l] \in wanted => \E i \in 1..(m + 1) : g[i] = l
      <4> SUFFICES ASSUME NEW l \in 1..(k + 1), s[l] \in wanted PROVE \E i \in 1..(m + 1) : g[i] = l
        OBVIOUS
      <4>1. CASE l = k + 1
        <5>1. m + 1 \in 1..(m + 1)
          BY <2>4
        <5> QED
          BY <4>1, <5>1, <3>4
      <4>2. CASE l \in 1..k
        <5>1. PICK i \in 1..m : e[i] = l
          BY <4>2, <3>3
        <5>2. i \in 1..(m + 1) /\ g[i] = l
          BY <5>1, <2>4, <3>4
        <5> QED
          BY <5>2
      <4> QED
        BY <4>1, <4>2, <2>2
    <3>8. Picks(g, st[k + 1], s, wanted, k + 1)
      BY <2>2, <2>4, <3>2, <3>3, <3>4, <3>5, <3>6, <3>7 DEF Picks
    <3> QED
      BY <2>2, <3>8
  <2>6. CASE s[k + 1] \notin wanted
    <3>1. st[k + 1] = st[k]
      BY <1>1, <2>2, <2>6
    <3>2. e \in [1..m -> 1..(k + 1)] /\ m <= k + 1
      BY <2>1, <2>2, <2>4 DEF Picks
    <3>3. \A l \in 1..(k + 1) : s[l] \in wanted => l \in 1..k
      BY <2>2, <2>6
    <3>4. Picks(e, st[k + 1], s, wanted, k + 1)
      BY <2>1, <3>1, <3>2, <3>3 DEF Picks
    <3> QED
      BY <2>2, <3>4
  <2> QED
    BY <2>5, <2>6
<1>4. n \in good
  <2>1. \A k \in 0..n : k \in good
    <3> HIDE DEF good, n
    <3> QED
      BY <1>0, <1>2, <1>3, UpTo
  <2> QED
    BY <1>0, <2>1
<1> QED
  BY <1>0, <1>1, <1>4

\* What is kept is what is wanted of the list, and no longer than it.
LEMMA KeptIsOfTheList ==
    ASSUME NEW S, NEW s \in Seq(S), NEW wanted
    PROVE  /\ Kept(s, wanted) \in Seq(S)
           /\ Len(Kept(s, wanted)) <= Len(s)
           /\ ToSet(Kept(s, wanted)) = ToSet(s) \cap wanted
<1> DEFINE kept == Kept(s, wanted)
<1>1. kept \in Seq(S) /\ \E e : Picks(e, kept, s, wanted, Len(s))
  BY KeptPicks
<1> HIDE DEF kept
<1>2. PICK e : Picks(e, kept, s, wanted, Len(s))
  BY <1>1
<1>3. /\ e \in [1..Len(kept) -> 1..Len(s)] /\ Len(kept) <= Len(s)
      /\ \A i \in 1..Len(kept) : kept[i] = s[e[i]] /\ s[e[i]] \in wanted
      /\ \A k \in 1..Len(s) : s[k] \in wanted => \E i \in 1..Len(kept) : e[i] = k
  BY <1>2 DEF Picks
<1>4. DOMAIN kept = 1..Len(kept) /\ DOMAIN s = 1..Len(s)
  BY <1>1
<1>5. ASSUME NEW x \in ToSet(kept) PROVE x \in ToSet(s) \cap wanted
  <2>1. PICK i \in 1..Len(kept) : x = kept[i]
    BY <1>4, <1>5 DEF ToSet
  <2> QED
    BY <1>3, <1>4, <2>1 DEF ToSet
<1>6. ASSUME NEW x \in ToSet(s) \cap wanted PROVE x \in ToSet(kept)
  <2>1. PICK k \in 1..Len(s) : x = s[k]
    BY <1>4, <1>6 DEF ToSet
  <2>2. PICK i \in 1..Len(kept) : e[i] = k
    BY <1>3, <1>6, <2>1
  <2> QED
    BY <1>3, <1>4, <2>1, <2>2 DEF ToSet
<1> QED
  BY <1>1, <1>3, <1>5, <1>6 DEF kept

\* When all of a list is wanted it is kept as it is.
LEMMA KeptWhole ==
    ASSUME NEW S, NEW s \in Seq(S), NEW wanted, \A i \in 1..Len(s) : s[i] \in wanted
    PROVE  Kept(s, wanted) = s
<1>1. PICK st \in [0..Len(s) -> Seq(S)] : KeptRun(st, s, wanted)
  BY KeptSteps
<1>2. /\ st[0] = <<>>
      /\ \A k \in 1..Len(s) : st[k] = Append(st[k - 1], s[k])
      /\ Kept(s, wanted) = st[Len(s)]
  BY <1>1 DEF KeptRun
<1> DEFINE n == Len(s)
           good == {k \in 0..n : Len(st[k]) = k /\ \A i \in 1..k : st[k][i] = s[i]}
<1>3. n \in Nat /\ 0 \in good
  BY <1>2
<1>4. ASSUME NEW k \in 0..(n - 1), k \in good PROVE k + 1 \in good
  <2>1. /\ k \in 0..n /\ k \in Nat /\ k + 1 \in 1..n /\ k + 1 \in 0..n /\ (k + 1) - 1 = k
        /\ st[k] \in Seq(S) /\ s[k + 1] \in S
    BY <1>3
  <2>2. st[k + 1] = Append(st[k], s[k + 1])
    BY <1>2, <2>1
  <2>3. /\ Len(st[k]) = k /\ \A i \in 1..k : st[k][i] = s[i]
    BY <1>4
  <2>4. Len(st[k + 1]) = k + 1 /\ \A i \in 1..(k + 1) : st[k + 1][i] = s[i]
    BY <2>1, <2>2, <2>3
  <2> QED
    BY <2>1, <2>4
<1>5. n \in good
  <2>1. \A k \in 0..n : k \in good
    <3> HIDE DEF good, n
    <3> QED
      BY <1>3, <1>4, UpTo
  <2> QED
    BY <1>3, <2>1
<1>6. st[n] \in Seq(S) /\ Len(st[n]) = n /\ \A i \in 1..n : st[n][i] = s[i]
  BY <1>3, <1>5
<1>7. st[n] = s
  BY <1>6
<1> QED
  BY <1>2, <1>7

\* What has a value at each of the first numbers is a list.
LEMMA AList ==
    ASSUME NEW n \in Nat, NEW s, s = [i \in 1..n |-> s[i]]
    PROVE  IsList(s) /\ Len(s) = n
<1>1. \A i \in 1..n : s[i] \in ToSet(s)
  BY DEF ToSet
<1>2. s \in [1..n -> ToSet(s)]
  BY <1>1
<1> QED
  BY <1>2 DEF IsList

\* Two lists of the same files are one.
LEMMA SameFilesAreEqual ==
    ASSUME NEW a, NEW b, IsFiles(a), IsFiles(b), SameFiles(a, b)
    PROVE  a = b
<1>1. /\ a \in Seq(ToSet(a)) /\ b \in Seq(ToSet(b)) /\ Len(a) = Len(b)
      /\ \A i \in 1..Len(b) : a[i].path = b[i].path /\ a[i].length = b[i].length
  BY DEF IsFiles, IsList, SameFiles
<1>2. DOMAIN a = 1..Len(a) /\ DOMAIN b = 1..Len(b)
  BY <1>1
<1>3. ASSUME NEW i \in 1..Len(a) PROVE a[i] = b[i]
  <2>1. a[i] \in ToSet(a) /\ b[i] \in ToSet(b)
    BY <1>1, <1>2 DEF ToSet
  <2>2. a[i] = [path |-> a[i].path, length |-> a[i].length]
        /\ b[i] = [path |-> b[i].path, length |-> b[i].length]
    BY <2>1 DEF IsFiles
  <2> QED
    BY <1>1, <2>2
<1> QED
  BY <1>1, <1>2, <1>3

\* A commit the barrier lets through keeps every selection's pieces:
\* runMetadataCommitBarrier.
LEMMA AnyCommitKeepsTheSelection ==
    ASSUME NEW observed, NEW expected, NEW reservation,
           IsFiles(observed.files), IsFiles(expected.files)
    PROVE  CommitKeepsTheSelection(observed, expected, reservation)
<1> SUFFICES ASSUME BarrierPasses(observed, expected, reservation)
             PROVE  CommitKeepsTheSelection(observed, expected, reservation)
  BY DEF CommitKeepsTheSelection
<1>1. observed.files = expected.files
  BY SameFilesAreEqual DEF BarrierPasses
<1>2. observed.pieceLength = expected.pieceLength /\ observed.length = expected.length
  BY DEF BarrierPasses
<1> QED
  BY <1>1, <1>2, Zenon DEF CommitKeepsTheSelection

(* ----------------------------------- order ---------------------------------- *)

\* The list t is s with an item put behind its first k.
PutBehind(t, S, s, k, x) ==
    /\ t \in Seq(S) /\ Len(t) = Len(s) + 1
    /\ \A i \in 1..k : t[i] = s[i]
    /\ t[k + 1] = x
    /\ \A i \in (k + 1)..Len(s) : t[i + 1] = s[i]

\* An item put behind the first k is in its place, and the others keep their
\* order.
LEMMA InsertedBehind ==
    ASSUME NEW S, NEW s \in Seq(S), NEW k \in 0..Len(s), NEW x \in S
    PROVE  PutBehind(InsertAt(s, k + 1, x), S, s, k, x)
<1> DEFINE a == SubSeq(s, 1, k)
           b == SubSeq(s, k + 1, Len(s))
           m == <<x>>
           l == a \o m
           t == l \o b
<1>1. Len(s) \in Nat /\ k \in Nat /\ k <= Len(s) /\ (k + 1) - 1 = k
  OBVIOUS
<1>2. InsertAt(s, k + 1, x) = t
  BY <1>1 DEF InsertAt
<1>3. a \in Seq(S) /\ Len(a) = k /\ \A i \in 1..k : a[i] = s[i]
  BY <1>1
<1>4. b \in Seq(S) /\ Len(b) = Len(s) - k /\ \A i \in 1..(Len(s) - k) : b[i] = s[k + i]
  BY <1>1
<1>5. m \in Seq(S) /\ Len(m) = 1 /\ m[1] = x
  OBVIOUS
<1> HIDE DEF a, b, m
<1>6. l \in Seq(S) /\ Len(l) = k + 1 /\ (\A i \in 1..k : l[i] = s[i]) /\ l[k + 1] = x
  <2>1. l \in Seq(S) /\ Len(l) = Len(a) + Len(m)
        /\ \A i \in 1..(Len(a) + Len(m)) : l[i] = IF i <= Len(a) THEN a[i] ELSE m[i - Len(a)]
    BY <1>3, <1>5, ConcatProperties
  <2> HIDE DEF l
  <2>2. Len(l) = k + 1 /\ \A i \in 1..(k + 1) : l[i] = IF i <= k THEN a[i] ELSE m[i - k]
    BY <1>3, <1>5, <2>1
  <2>3. \A i \in 1..k : i \in 1..(k + 1) /\ i <= k
    BY <1>1
  <2>4. k + 1 \in 1..(k + 1) /\ ~ (k + 1 <= k) /\ (k + 1) - k = 1
    BY <1>1
  <2> QED
    BY <1>3, <1>5, <2>1, <2>2, <2>3, <2>4
<1> HIDE DEF l
<1>7. t \in Seq(S) /\ Len(t) = Len(l) + Len(b)
      /\ \A i \in 1..(Len(l) + Len(b)) : t[i] = IF i <= Len(l) THEN l[i] ELSE b[i - Len(l)]
  BY <1>4, <1>6, ConcatProperties
<1> HIDE DEF t
<1>8. Len(t) = Len(s) + 1
      /\ \A i \in 1..(Len(s) + 1) : t[i] = IF i <= k + 1 THEN l[i] ELSE b[i - (k + 1)]
  BY <1>1, <1>4, <1>6, <1>7
<1>9. \A i \in 1..k : t[i] = s[i]
  BY <1>1, <1>6, <1>8
<1>10. t[k + 1] = x
  BY <1>1, <1>6, <1>8
<1>11. ASSUME NEW i \in (k + 1)..Len(s) PROVE t[i + 1] = s[i]
  <2>1. i + 1 \in 1..(Len(s) + 1) /\ ~ (i + 1 <= k + 1) /\ (i + 1) - (k + 1) = i - k
        /\ i - k \in 1..(Len(s) - k) /\ k + (i - k) = i
    BY <1>1
  <2> QED
    BY <1>4, <1>8, <2>1
<1> QED
  BY <1>2, <1>7, <1>8, <1>9, <1>10, <1>11 DEF PutBehind

\* A list in the order of its ranks, which are numbers.
InOrderOf(s, rank) == \A i, j \in 1..Len(s) : i < j => rank[s[i]] <= rank[s[j]]

Before(s, rank, r) == {i \in 1..Len(s) : rank[s[i]] <= r}

\* A part of the first numbers that goes with each number its smaller ones is the
\* first of them.
LEMMA FirstOfThem ==
    ASSUME NEW n \in Nat, NEW s \in SUBSET (1..n),
           \A i \in s : \A j \in 1..n : j < i => j \in s
    PROVE  Cardinality(s) \in 0..n /\ s = 1..Cardinality(s)
<1> DEFINE rest == (1..(n + 1)) \ s
<1>1. rest \in SUBSET (1..(n + 1)) /\ rest # {} /\ n + 1 \in rest
  OBVIOUS
<1>2. PICK m \in rest : \A j \in rest : m <= j
  <2> HIDE DEF rest
  <2>1. n + 1 \in Nat
    OBVIOUS
  <2> QED
    BY <1>1, <2>1, SmallestOfSome
<1>3. m \in 1..(n + 1) /\ m \notin s
  OBVIOUS
<1>4. s = 1..(m - 1)
  <2>1. \A i \in 1..(m - 1) : i \in s
    BY <1>2, <1>3
  <2>2. \A i \in s : i < m
    BY <1>2, <1>3
  <2>3. \A i \in s : i \in 1..(m - 1)
    BY <1>3, <2>2
  <2> QED
    BY <2>1, <2>3
<1>5. Cardinality(1..(m - 1)) = m - 1
  <2>1. 1 \in Int /\ m - 1 \in Int /\ m - 1 >= 0
    BY <1>3
  <2> QED
    BY <2>1, FS_Interval
<1> QED
  BY <1>3, <1>4, <1>5

\* An item is put behind those of no higher rank.
Inserted(sorted, item, rank) ==
    InsertAt(sorted, Cardinality(Before(sorted, rank, rank[item])) + 1, item)

\* How many items rank no later is a place of the list.
LEMMA BeforeIsCounted ==
    ASSUME NEW n \in Nat, NEW s, Len(s) = n, NEW rank, NEW r
    PROVE  Cardinality(Before(s, rank, r)) \in 0..n
<1> DEFINE b == Before(s, rank, r)
<1>1. b \in SUBSET (1..n) /\ IsFiniteSet(1..n) /\ Cardinality(1..n) = n
  BY FS_Interval DEF Before
<1> HIDE DEF b
<1>2. IsFiniteSet(b) /\ Cardinality(b) <= n /\ Cardinality(b) \in Nat
  BY <1>1, FS_Subset, FS_CardinalityType
<1> QED
  BY <1>2 DEF b

\* An item inserted by its rank leaves a list of the same things.
LEMMA InsertedIsAList ==
    ASSUME NEW S, NEW s \in Seq(S), NEW x \in S, NEW rank
    PROVE  Inserted(s, x, rank) \in Seq(S)
<1>1. Len(s) \in Nat
  OBVIOUS
<1>2. Cardinality(Before(s, rank, rank[x])) \in 0..Len(s)
  BY <1>1, BeforeIsCounted
<1> QED
  BY <1>2, InsertedBehind DEF PutBehind, Inserted

\* A list is sorted item by item.
RankedRun(st, s, rank) ==
    /\ st[0] = <<>>
    /\ \A k \in 1..Len(s) :
          st[k] = Inserted(st[k - 1], s[k], rank)
    /\ Ranked(s, rank) = st[Len(s)]

\* Sorting goes through such states.
LEMMA RankedSteps ==
    ASSUME NEW S, NEW s \in Seq(S), NEW rank
    PROVE  \E st \in [0..Len(s) -> Seq(S)] : RankedRun(st, s, rank)
<1> DEFINE n == Len(s)
           T == Seq(S)
           base == <<>>
           step == [p \in T \X (1..n) |-> Inserted(p[1], s[p[2]], rank)]
           IsFold(f) == f = [t \in SUBSET DOMAIN s |->
                           IF t = {} THEN base ELSE Inserted(f[t \ {Max(t)}], s[Max(t)], rank)]
           iter == CHOOSE f : IsFold(f)
<1>1. n \in Nat /\ base \in T /\ DOMAIN s = 1..n
  OBVIOUS
<1>2. step \in [T \X (1..n) -> T]
  <2>1. \A p \in T \X (1..n) : Inserted(p[1], s[p[2]], rank) \in T
    BY InsertedIsAList
  <2> QED
    BY <2>1
<1>3. \A a \in T, k \in 1..n : step[<<a, k>>] = Inserted(a, s[k], rank)
  OBVIOUS
<1>4. Ranked(s, rank) = iter[1..n]
  BY <1>1 DEF Ranked, Inserted, Before, FoldLeft, MapThenFoldSet
<1> HIDE DEF T, n, step, base
<1>5. PICK f \in [SUBSET (1..n) -> T] :
         /\ GoesOn(f, base, T, step, n)
         /\ \A t \in SUBSET (1..n) : t # {} => Max(t) \in 1..n /\ f[t \ {Max(t)}] \in T
  BY <1>1, <1>2, FoldGoesOn
<1>6. IsFold(f)
  BY <1>1, <1>3, <1>5 DEF GoesOn
<1>7. IsFold(iter)
  <2> HIDE DEF IsFold
  <2> QED
    BY <1>6
<1> HIDE DEF iter
<1>8. GoesOn(iter, base, T, step, n)
  BY <1>1, <1>3, <1>5, <1>7, ZenonT(30) DEF GoesOn
<1>9. PICK st \in [0..n -> T] : Runs(st, base, T, step, n) /\ EndsWith(iter, st, n)
  <2> HIDE DEF IsFold
  <2>1. base \in T /\ n \in Nat
    BY <1>1
  <2> QED
    BY <1>2, <1>8, <2>1, StatesOfFold
<1> QED
  BY <1>3, <1>4, <1>9, ZenonT(30) DEF Runs, EndsWith, RankedRun, n, T, base

\* What of a list is sorted after its first k items: those items, in order.
SortedSo(t, s, rank, k) ==
    /\ Len(t) = k /\ InOrderOf(t, rank)
    /\ ToSet(t) = {s[i] : i \in 1..k}

\* The items so far, sorted, stay so with the next one inserted.
LEMMA SortedOneMore ==
    ASSUME NEW S, NEW s \in Seq(S), NEW rank, \A x \in S : rank[x] \in Int,
           NEW k \in Nat, k + 1 \in 1..Len(s),
           NEW t \in Seq(S), SortedSo(t, s, rank, k)
    PROVE  SortedSo(Inserted(t, s[k + 1], rank), s, rank, k + 1)
<1> DEFINE x == s[k + 1]
           b == Before(t, rank, rank[x])
           c == Cardinality(b)
           new == Inserted(t, x, rank)
<1>1. x \in S /\ Len(t) = k /\ InOrderOf(t, rank) /\ ToSet(t) = {s[i] : i \in 1..k}
  BY DEF SortedSo
<1> HIDE DEF x
<1>2. DOMAIN t = 1..k /\ \A i \in 1..k : t[i] \in S /\ rank[t[i]] \in Int
  BY <1>1
<1>3. rank[x] \in Int
  BY <1>1
<1>4. c \in 0..k /\ b = 1..c
  <2>1. b \in SUBSET (1..k)
    BY <1>1 DEF Before
  <2>2. \A i \in b : \A j \in 1..k : j < i => j \in b
    <3> SUFFICES ASSUME NEW i \in b, NEW j \in 1..k, j < i PROVE j \in b
      OBVIOUS
    <3>1. i \in 1..k /\ rank[t[i]] <= rank[x]
      BY <1>1 DEF Before
    <3>2. rank[t[j]] <= rank[t[i]]
      BY <1>1, <3>1 DEF InOrderOf
    <3>3. rank[t[j]] <= rank[x]
      BY <1>2, <1>3, <3>1, <3>2
    <3> QED
      BY <1>1, <3>3 DEF Before
  <2> HIDE DEF b
  <2> QED
    BY <2>1, <2>2, FirstOfThem
<1>5. /\ \A i \in 1..c : rank[t[i]] <= rank[x]
      /\ \A i \in (c + 1)..k : rank[x] < rank[t[i]]
  <2>1. \A i \in 1..k : i \in b <=> rank[t[i]] <= rank[x]
    BY <1>1 DEF Before
  <2> HIDE DEF b, c
  <2>2. \A i \in 1..c : i \in 1..k /\ i \in b
    BY <1>4
  <2>3. \A i \in (c + 1)..k : i \in 1..k /\ i \notin b
    BY <1>4
  <2> QED
    BY <1>2, <1>3, <2>1, <2>2, <2>3
<1>6. new = InsertAt(t, c + 1, x)
  BY DEF Inserted
<1> HIDE DEF new, c, b
<1>7. /\ new \in Seq(S) /\ Len(new) = k + 1
      /\ \A i \in 1..c : new[i] = t[i]
      /\ new[c + 1] = x
      /\ \A i \in (c + 1)..k : new[i + 1] = t[i]
  <2>1. t \in Seq(S) /\ c \in 0..Len(t) /\ x \in S
    BY <1>1, <1>4
  <2>2. PutBehind(new, S, t, c, x)
    BY <1>6, <2>1, InsertedBehind
  <2> QED
    BY <1>1, <2>2 DEF PutBehind
<1>8. \A i \in 1..(k + 1) : \/ i \in 1..c \/ i = c + 1 \/ (i - 1 \in (c + 1)..k /\ (i - 1) + 1 = i)
  BY <1>4
<1>9. InOrderOf(new, rank)
  <2> SUFFICES ASSUME NEW i \in 1..(k + 1), NEW j \in 1..(k + 1), i < j
               PROVE  rank[new[i]] <= rank[new[j]]
    BY <1>7 DEF InOrderOf
  <2>0. \A l \in 1..k, m \in 1..k : l < m => rank[t[l]] <= rank[t[m]]
    BY <1>1 DEF InOrderOf
  <2>1. CASE i \in 1..c /\ j \in 1..c
    <3>1. i \in 1..k /\ j \in 1..k
      BY <1>4, <2>1
    <3> QED
      BY <1>7, <2>0, <2>1, <3>1
  <2>2. CASE i \in 1..c /\ j = c + 1
    BY <1>5, <1>7, <2>2
  <2>3. CASE i \in 1..c /\ j - 1 \in (c + 1)..k
    <3>1. i \in 1..k /\ j - 1 \in 1..k /\ i < j - 1 /\ new[j] = t[j - 1]
      BY <1>4, <1>7, <2>3
    <3> QED
      BY <1>7, <2>0, <2>3, <3>1
  <2>4. CASE i = c + 1 /\ j - 1 \in (c + 1)..k
    <3>1. new[j] = t[j - 1] /\ rank[x] < rank[t[j - 1]] /\ j - 1 \in 1..k
      BY <1>4, <1>5, <1>7, <2>4
    <3> QED
      BY <1>2, <1>3, <1>7, <2>4, <3>1
  <2>5. CASE i - 1 \in (c + 1)..k /\ j - 1 \in (c + 1)..k
    <3>1. new[i] = t[i - 1] /\ new[j] = t[j - 1] /\ i - 1 < j - 1
          /\ i - 1 \in 1..k /\ j - 1 \in 1..k
      BY <1>4, <1>7, <2>5
    <3> QED
      BY <2>0, <3>1
  <2>6. \/ i \in 1..c /\ j \in 1..c
        \/ i \in 1..c /\ j = c + 1
        \/ i \in 1..c /\ j - 1 \in (c + 1)..k
        \/ i = c + 1 /\ j - 1 \in (c + 1)..k
        \/ i - 1 \in (c + 1)..k /\ j - 1 \in (c + 1)..k
    BY <1>4, <1>8
  <2> QED
    BY <2>1, <2>2, <2>3, <2>4, <2>5, <2>6
<1>10. ToSet(new) = {s[i] : i \in 1..(k + 1)}
  <2>1. DOMAIN new = 1..(k + 1)
    BY <1>7
  <2>2. {s[i] : i \in 1..(k + 1)} = {s[i] : i \in 1..k} \cup {x}
    <3>1. \A i : i \in 1..(k + 1) <=> i \in 1..k \/ i = k + 1
      OBVIOUS
    <3> QED
      BY <3>1 DEF x
  <2>3. ASSUME NEW y \in ToSet(new) PROVE y \in ToSet(t) \cup {x}
    <3>1. PICK i \in 1..(k + 1) : y = new[i]
      BY <2>1 DEF ToSet
    <3>2. CASE i \in 1..c
      <4>1. i \in 1..k
        BY <1>4, <3>2
      <4> QED
        BY <1>2, <1>7, <3>1, <3>2, <4>1 DEF ToSet
    <3>3. CASE i = c + 1
      BY <1>7, <3>1, <3>3
    <3>4. CASE i - 1 \in (c + 1)..k /\ (i - 1) + 1 = i
      <4>1. i - 1 \in 1..k /\ new[i] = t[i - 1]
        BY <1>4, <1>7, <3>4
      <4> QED
        BY <1>2, <3>1, <4>1 DEF ToSet
    <3> QED
      BY <1>8, <3>2, <3>3, <3>4
  <2>4. x \in ToSet(new)
    <3>1. c + 1 \in 1..(k + 1)
      BY <1>4
    <3> QED
      BY <1>7, <2>1, <3>1 DEF ToSet
  <2>5. ASSUME NEW y \in ToSet(t) PROVE y \in ToSet(new)
    <3>1. PICK i \in 1..k : y = t[i]
      BY <1>2 DEF ToSet
    <3>2. CASE i \in 1..c
      <4>1. i \in 1..(k + 1)
        BY <1>4
      <4> QED
        BY <1>7, <2>1, <3>1, <3>2, <4>1 DEF ToSet
    <3>3. CASE i \in (c + 1)..k
      <4>1. i + 1 \in 1..(k + 1) /\ new[i + 1] = t[i]
        BY <1>4, <1>7, <3>3
      <4> QED
        BY <2>1, <3>1, <4>1 DEF ToSet
    <3> QED
      BY <1>4, <3>2, <3>3
  <2> QED
    BY <1>1, <2>2, <2>3, <2>4, <2>5
<1> QED
  BY <1>7, <1>9, <1>10 DEF SortedSo, new, x

\* Sorting a list by ranks that are numbers keeps its items and their number and
\* puts them in the order of the ranks.
LEMMA RankedIsInOrder ==
    ASSUME NEW S, NEW s \in Seq(S), NEW rank, \A x \in S : rank[x] \in Int
    PROVE  /\ Ranked(s, rank) \in Seq(S)
           /\ Len(Ranked(s, rank)) = Len(s)
           /\ ToSet(Ranked(s, rank)) = ToSet(s)
           /\ InOrderOf(Ranked(s, rank), rank)
<1> DEFINE n == Len(s)
<1>1. PICK st \in [0..n -> Seq(S)] : RankedRun(st, s, rank)
  BY RankedSteps
<1>2. /\ st[0] = <<>>
      /\ \A k \in 1..n : st[k] = Inserted(st[k - 1], s[k], rank)
      /\ Ranked(s, rank) = st[n]
  BY <1>1 DEF RankedRun
<1> DEFINE good == {k \in 0..n : SortedSo(st[k], s, rank, k)}
<1>3. n \in Nat /\ DOMAIN s = 1..n
  OBVIOUS
<1>4. 0 \in good
  <2>1. st[0] = <<>> /\ 1..0 = {} /\ ToSet(<<>>) = {}
    BY <1>2 DEF ToSet
  <2>2. SortedSo(st[0], s, rank, 0)
    BY <2>1 DEF SortedSo, InOrderOf
  <2> QED
    BY <1>3, <2>2
<1>5. ASSUME NEW k \in 0..(n - 1), k \in good PROVE k + 1 \in good
  <2>1. /\ k \in 0..n /\ k \in Nat /\ k + 1 \in 1..Len(s) /\ k + 1 \in 0..n /\ (k + 1) - 1 = k
    BY <1>3
  <2>2. st[k + 1] = Inserted(st[k], s[k + 1], rank) /\ st[k] \in Seq(S) /\ SortedSo(st[k], s, rank, k)
    BY <1>2, <1>5, <2>1
  <2>3. SortedSo(Inserted(st[k], s[k + 1], rank), s, rank, k + 1)
    BY <2>1, <2>2, SortedOneMore
  <2> QED
    BY <2>1, <2>2, <2>3
<1>6. SortedSo(st[n], s, rank, n) /\ st[n] \in Seq(S)
  <2>1. \A k \in 0..n : k \in good
    <3> HIDE DEF good, n
    <3> QED
      BY <1>3, <1>4, <1>5, UpTo
  <2> QED
    BY <1>3, <2>1
<1>7. ToSet(s) = {s[i] : i \in 1..n}
  BY <1>3 DEF ToSet
<1> QED
  BY <1>2, <1>6, <1>7 DEF SortedSo

(* ---------------------------------- pieces ---------------------------------- *)

Ranges == [start : Nat, end : Nat]

\* A range joined to the last one, or put behind it.
Joined(merged, range) ==
    IF merged # <<>> /\ range.start <= Last(merged).end + 1
    THEN [merged EXCEPT ![Len(merged)].end = IF range.end > @ THEN range.end ELSE @]
    ELSE Append(merged, range)

\* A range joined to canonical ranges leaves ranges: the last one grown, or one
\* more.
LEMMA JoinedIsAList ==
    ASSUME NEW m \in Seq(Ranges), NEW range \in Ranges
    PROVE  /\ m # <<>> => /\ Len(m) \in Nat \ {0} /\ Last(m) = m[Len(m)] /\ Last(m) \in Ranges
                          /\ Last(m).start \in Nat /\ Last(m).end \in Nat
           /\ Joined(m, range) \in Seq(Ranges)
<1>1. range.start \in Nat /\ range.end \in Nat
  BY DEF Ranges
<1>2. CASE m = <<>>
  BY <1>2 DEF Joined
<1>3. CASE m # <<>>
  <2>1. Len(m) \in Nat \ {0} /\ Last(m) = m[Len(m)] /\ m[Len(m)] \in Ranges
    BY <1>3 DEF Last
  <2> DEFINE l == m[Len(m)]
             e == IF range.end > l.end THEN range.end ELSE l.end
             grown == [m EXCEPT ![Len(m)].end = e]
  <2>2. l.start \in Nat /\ l.end \in Nat /\ e \in Nat
    BY <1>1, <2>1 DEF Ranges
  <2>3. [l EXCEPT !.end = e] \in Ranges
    BY <2>1, <2>2 DEF Ranges
  <2>4. grown = [m EXCEPT ![Len(m)] = [l EXCEPT !.end = e]]
    BY <2>1
  <2>5. grown \in Seq(Ranges)
    BY <2>1, <2>3, <2>4
  <2>6. Joined(m, range) \in {grown, Append(m, range)}
    BY DEF Joined
  <2> QED
    BY <2>1, <2>2, <2>5, <2>6, SMTT(30)
<1> QED
  BY <1>2, <1>3

\* Ranges are merged one by one.
MergeRun(st, s) ==
    /\ st[0] = <<>>
    /\ \A k \in 1..Len(s) : st[k] = Joined(st[k - 1], s[k])
    /\ Merge(s) = st[Len(s)]

\* Merging goes through such states.
LEMMA MergeSteps ==
    ASSUME NEW s \in Seq(Ranges)
    PROVE  \E st \in [0..Len(s) -> Seq(Ranges)] : MergeRun(st, s)
<1> DEFINE n == Len(s)
           T == Seq(Ranges)
           base == <<>>
           step == [p \in T \X (1..n) |-> Joined(p[1], s[p[2]])]
           IsFold(f) == f = [t \in SUBSET DOMAIN s |->
                           IF t = {} THEN base ELSE Joined(f[t \ {Max(t)}], s[Max(t)])]
           iter == CHOOSE f : IsFold(f)
<1>1. n \in Nat /\ base \in T /\ DOMAIN s = 1..n
  OBVIOUS
<1>2. step \in [T \X (1..n) -> T]
  <2>1. \A a \in Seq(Ranges), r \in Ranges : Joined(a, r) \in Seq(Ranges)
    BY JoinedIsAList
  <2>2. \A i \in 1..n : s[i] \in Ranges
    OBVIOUS
  <2> QED
    BY <2>1, <2>2
<1>3. \A a \in T, k \in 1..n : step[<<a, k>>] = Joined(a, s[k])
  OBVIOUS
<1>4. Merge(s) = iter[1..n]
  BY <1>1 DEF Merge, Joined, FoldLeft, MapThenFoldSet
<1> HIDE DEF T, n, step, base
<1>5. PICK f \in [SUBSET (1..n) -> T] :
         /\ GoesOn(f, base, T, step, n)
         /\ \A t \in SUBSET (1..n) : t # {} => Max(t) \in 1..n /\ f[t \ {Max(t)}] \in T
  BY <1>1, <1>2, FoldGoesOn
<1>6. IsFold(f)
  BY <1>1, <1>3, <1>5 DEF GoesOn
<1>7. IsFold(iter)
  <2> HIDE DEF IsFold
  <2> QED
    BY <1>6
<1> HIDE DEF iter
<1>8. GoesOn(iter, base, T, step, n)
  BY <1>1, <1>3, <1>5, <1>7, ZenonT(30) DEF GoesOn
<1>9. PICK st \in [0..n -> T] : Runs(st, base, T, step, n) /\ EndsWith(iter, st, n)
  <2> HIDE DEF IsFold
  <2>1. base \in T /\ n \in Nat
    BY <1>1
  <2> QED
    BY <1>2, <1>8, <2>1, StatesOfFold
<1> QED
  BY <1>3, <1>4, <1>9, ZenonT(30) DEF Runs, EndsWith, MergeRun, n, T, base

\* Ranges with something between any two.
Canonical(m) ==
    /\ m \in Seq(Ranges)
    /\ \A i \in 1..Len(m) : m[i].start <= m[i].end
    /\ \A i \in 1..(Len(m) - 1) : m[i].end + 1 < m[i + 1].start

\* The numbers of the first n ranges.
Covered(m, n) == UNION {m[i].start..m[i].end : i \in 1..n}

\* What is covered is in a range.
LEMMA IsCovered ==
    ASSUME NEW m, NEW n \in Nat, NEW x
    PROVE  x \in Covered(m, n) <=> \E i \in 1..n : x \in m[i].start..m[i].end
BY DEF Covered

\* What the ranges of a sorted list are merged to after the first k of them.
MergedSo(m, s, k) ==
    /\ Canonical(m)
    /\ Covered(m, Len(m)) = Covered(s, k)
    /\ m # <<>> => \E i \in 1..k : Last(m).start = s[i].start

\* Ranges merged so far stay canonical, and cover as much, with the next one.
LEMMA MergedOneMore ==
    ASSUME NEW s \in Seq(Ranges), NEW k \in Nat, k + 1 \in 1..Len(s),
           s[k + 1].start <= s[k + 1].end,
           \A i \in 1..k : s[i].start <= s[k + 1].start,
           NEW m, MergedSo(m, s, k)
    PROVE  MergedSo(Joined(m, s[k + 1]), s, k + 1)
<1> DEFINE r == s[k + 1]
           new == Joined(m, r)
           n == Len(m)
<1>1. /\ m \in Seq(Ranges) /\ n \in Nat
      /\ \A i \in 1..n : m[i].start <= m[i].end /\ m[i].start \in Nat /\ m[i].end \in Nat
      /\ \A i \in 1..(n - 1) : m[i].end + 1 < m[i + 1].start
      /\ Covered(m, n) = Covered(s, k)
      /\ m # <<>> => \E i \in 1..k : Last(m).start = s[i].start
  <2>1. /\ m \in Seq(Ranges)
        /\ \A i \in 1..n : m[i].start <= m[i].end
        /\ \A i \in 1..(n - 1) : m[i].end + 1 < m[i + 1].start
        /\ Covered(m, n) = Covered(s, k)
        /\ m # <<>> => \E i \in 1..k : Last(m).start = s[i].start
    BY DEF MergedSo, Canonical
  <2>2. n \in Nat /\ \A i \in 1..n : m[i] \in Ranges
    BY <2>1
  <2>3. \A i \in 1..n : m[i].start \in Nat /\ m[i].end \in Nat
    BY <2>2 DEF Ranges
  <2> QED
    BY <2>1, <2>2, <2>3
<1>2. r \in Ranges /\ r.start \in Nat /\ r.end \in Nat /\ r.start <= r.end
  <2>1. r \in Ranges /\ r.start <= r.end
    OBVIOUS
  <2> HIDE DEF r
  <2> QED
    BY <2>1 DEF Ranges
<1>3. new \in Seq(Ranges)
  BY <1>1, <1>2, JoinedIsAList
<1>4. \A i \in 1..k : s[i].start <= r.start
  OBVIOUS
<1>5. \A x : x \in Covered(s, k + 1) <=> x \in Covered(s, k) \/ x \in r.start..r.end
  <2> TAKE x
  <2>1. x \in Covered(s, k + 1) <=> \E i \in 1..(k + 1) : x \in s[i].start..s[i].end
    BY IsCovered
  <2>2. x \in Covered(s, k) <=> \E i \in 1..k : x \in s[i].start..s[i].end
    BY IsCovered
  <2>3. \A i : i \in 1..(k + 1) <=> i \in 1..k \/ i = k + 1
    OBVIOUS
  <2> QED
    BY <2>1, <2>2, <2>3
<1>6. \A x : x \in Covered(m, n) <=> \E i \in 1..n : x \in m[i].start..m[i].end
  BY <1>1, IsCovered
<1> HIDE DEF r
<1>7. CASE m # <<>> /\ r.start <= Last(m).end + 1
  <2> DEFINE l == m[n]
             e == IF r.end > l.end THEN r.end ELSE l.end
  <2>1. n \in 1..n /\ Last(m) = l
    BY <1>1, <1>2, <1>7, JoinedIsAList
  <2>2. new = [m EXCEPT ![n].end = e]
    BY <1>7 DEF Joined
  <2>3. l.start \in Nat /\ l.end \in Nat /\ l.start <= l.end /\ l \in Ranges
    BY <1>1, <2>1
  <2>4. PICK i \in 1..k : l.start = s[i].start
    BY <1>1, <1>7, <2>1
  <2>5. l.start <= r.start /\ r.start <= l.end + 1
    BY <1>4, <1>7, <2>1, <2>4
  <2>6. /\ Len(new) = n /\ new[n].start = l.start /\ new[n].end = e
        /\ \A j \in 1..n : j # n => new[j] = m[j]
    <3> DEFINE g == [l EXCEPT !.end = e]
    <3>1. g.start = l.start /\ g.end = e
      BY <2>3 DEF Ranges
    <3>2. new = [m EXCEPT ![n] = g]
      BY <2>1, <2>2
    <3> HIDE DEF g, new, l
    <3>3. Len(new) = n /\ new[n] = g /\ \A j \in 1..n : j # n => new[j] = m[j]
      BY <1>1, <2>1, <3>2
    <3> QED
      BY <3>1, <3>3
  <2> HIDE DEF new
  <2>7. \A j \in 1..n : new[j].start = m[j].start
    BY <2>1, <2>6
  <2>8. /\ \A j \in 1..n : new[j].start <= new[j].end
        /\ \A j \in 1..(n - 1) : new[j].end + 1 < new[j + 1].start
    <3>1. e \in Nat /\ l.end <= e /\ l.start <= e
      BY <1>2, <2>3
    <3>2. \A j \in 1..(n - 1) : j \in 1..n /\ j # n /\ j + 1 \in 1..n
      BY <1>1
    <3> QED
      BY <1>1, <2>6, <2>7, <3>1, <3>2
  <2>9. \A x : x \in l.start..e <=> x \in l.start..l.end \/ x \in r.start..r.end
    <3>1. e = (IF r.end > l.end THEN r.end ELSE l.end)
      OBVIOUS
    <3> HIDE DEF e, l
    <3>2. CASE r.end > l.end
      <4>1. e = r.end
        BY <3>1, <3>2
      <4> QED
        BY <1>2, <2>3, <2>5, <3>2, <4>1
    <3>3. CASE ~ (r.end > l.end)
      <4>1. e = l.end
        BY <3>1, <3>3
      <4> QED
        BY <1>2, <2>3, <2>5, <3>3, <4>1
    <3> QED
      BY <3>2, <3>3
  <2>10. ASSUME NEW x
         PROVE  x \in Covered(new, n) <=> x \in Covered(m, n) \/ x \in r.start..r.end
    <3>1. x \in Covered(new, n) <=> \E j \in 1..n : x \in new[j].start..new[j].end
      BY <1>1, IsCovered
    <3>2. \A j \in 1..n : j # n => (x \in new[j].start..new[j].end <=> x \in m[j].start..m[j].end)
      BY <2>6
    <3>3. x \in new[n].start..new[n].end <=> x \in m[n].start..m[n].end \/ x \in r.start..r.end
      BY <2>6, <2>9
    <3> HIDE DEF l
    <3> QED
      BY <1>6, <2>1, <3>1, <3>2, <3>3
  <2>11. Covered(new, Len(new)) = Covered(s, k + 1)
    BY <1>1, <1>5, <2>6, <2>10
  <2>12. Last(new).start = s[i].start /\ i \in 1..(k + 1)
    BY <2>4, <2>6 DEF Last
  <2>13. Canonical(new)
    BY <1>3, <2>6, <2>8 DEF Canonical
  <2>14. MergedSo(new, s, k + 1)
    BY <2>11, <2>12, <2>13 DEF MergedSo
  <2> QED
    BY <2>14 DEF new, r
<1>8. CASE ~ (m # <<>> /\ r.start <= Last(m).end + 1)
  <2>1. new = Append(m, r)
    BY <1>8 DEF Joined
  <2>2. /\ Len(new) = n + 1 /\ new[n + 1] = r
        /\ \A j \in 1..n : new[j] = m[j]
    BY <1>1, <1>2, <2>1
  <2> HIDE DEF new
  <2>3. n # 0 => m[n].end + 1 < r.start
    <3> SUFFICES ASSUME n # 0 PROVE m[n].end + 1 < r.start
      OBVIOUS
    <3>1. m # <<>> /\ Last(m) = m[n] /\ n \in 1..n
      BY <1>1, <1>2, JoinedIsAList
    <3>2. ~ (r.start <= m[n].end + 1)
      BY <1>8, <3>1
    <3>3. m[n].end \in Nat /\ r.start \in Nat
      BY <1>1, <1>2, <3>1
    <3> QED
      BY <3>2, <3>3
  <2>4. \A j \in 1..((n + 1) - 1) : new[j].end + 1 < new[j + 1].start
    <3>1. \A j \in 1..((n + 1) - 1) : j \in 1..n /\ (j = n \/ (j \in 1..(n - 1) /\ j + 1 \in 1..n))
      BY <1>1
    <3>2. ASSUME NEW j \in 1..((n + 1) - 1) PROVE new[j].end + 1 < new[j + 1].start
      <4>1. CASE j = n
        <5>1. n # 0 /\ new[j] = m[n] /\ new[j + 1] = r
          BY <1>1, <2>2, <4>1
        <5> QED
          BY <2>3, <5>1
      <4>2. CASE j \in 1..(n - 1) /\ j \in 1..n /\ j + 1 \in 1..n
        BY <1>1, <2>2, <4>2
      <4> QED
        BY <3>1, <4>1, <4>2
    <3> QED
      BY <3>2
  <2>5. \A j \in 1..(n + 1) : new[j].start <= new[j].end
    <3>1. \A j \in 1..(n + 1) : j = n + 1 \/ j \in 1..n
      BY <1>1
    <3> QED
      BY <1>1, <1>2, <2>2, <3>1
  <2>6. ASSUME NEW x
        PROVE  x \in Covered(new, n + 1) <=> x \in Covered(m, n) \/ x \in r.start..r.end
    <3>0. n + 1 \in Nat
      BY <1>1
    <3>1. x \in Covered(new, n + 1) <=> \E j \in 1..(n + 1) : x \in new[j].start..new[j].end
      BY <3>0, IsCovered
    <3>2. \A j : j \in 1..(n + 1) <=> j \in 1..n \/ j = n + 1
      BY <1>1
    <3> QED
      BY <1>6, <2>2, <3>1, <3>2
  <2>7. Covered(new, Len(new)) = Covered(s, k + 1)
    BY <1>1, <1>5, <2>2, <2>6
  <2>8. Last(new).start = s[k + 1].start /\ k + 1 \in 1..(k + 1)
    BY <2>2 DEF Last, r
  <2>9. Canonical(new)
    BY <1>3, <2>2, <2>4, <2>5 DEF Canonical
  <2>10. MergedSo(new, s, k + 1)
    BY <2>7, <2>8, <2>9 DEF MergedSo
  <2> QED
    BY <2>10 DEF new, r
<1> QED
  BY <1>7, <1>8

\* Sorted ranges are merged to canonical ones of the same numbers.
LEMMA MergedIsCanonical ==
    ASSUME NEW s \in Seq(Ranges), \A i \in 1..Len(s) : s[i].start <= s[i].end,
           \A i, j \in 1..Len(s) : i < j => s[i].start <= s[j].start
    PROVE  Canonical(Merge(s)) /\ Covered(Merge(s), Len(Merge(s))) = Covered(s, Len(s))
<1> DEFINE n == Len(s)
<1>1. PICK st \in [0..n -> Seq(Ranges)] : MergeRun(st, s)
  BY MergeSteps
<1>2. st[0] = <<>> /\ (\A k \in 1..n : st[k] = Joined(st[k - 1], s[k])) /\ Merge(s) = st[n]
  BY <1>1 DEF MergeRun
<1> DEFINE good == {k \in 0..n : MergedSo(st[k], s, k)}
<1>3. n \in Nat
  OBVIOUS
<1>4. 0 \in good
  <2>1. 1..0 = {} /\ Len(<<>>) = 0 /\ <<>> \in Seq(Ranges)
    OBVIOUS
  <2>2. MergedSo(<<>>, s, 0)
    BY <2>1 DEF MergedSo, Canonical, Covered
  <2> QED
    BY <1>2, <1>3, <2>2
<1>5. ASSUME NEW k \in 0..(n - 1), k \in good PROVE k + 1 \in good
  <2>1. k \in Nat /\ k + 1 \in 1..n /\ (k + 1) - 1 = k /\ k + 1 \in 0..n
        /\ \A i \in 1..k : i \in 1..n /\ i < k + 1
    BY <1>3
  <2>2. MergedSo(Joined(st[k], s[k + 1]), s, k + 1)
    BY <1>5, <2>1, MergedOneMore
  <2> QED
    BY <1>2, <2>1, <2>2
<1>6. n \in good
  <2> HIDE DEF good, n
  <2>1. \A k \in 0..n : k \in good
    BY <1>3, <1>4, <1>5, UpTo
  <2> QED
    BY <1>3, <2>1
<1> QED
  BY <1>2, <1>6 DEF MergedSo

\* A range ends before every later one starts, and two numbers away from it.
LEMMA InTurn ==
    ASSUME NEW m, Canonical(m), NEW j \in 1..Len(m)
    PROVE  /\ \A i \in 1..Len(m) : m[i].start \in Nat /\ m[i].end \in Nat /\ m[i].start <= m[i].end
           /\ \A i \in 1..Len(m) : i < j => m[i].end + 1 < m[j].start
<1> DEFINE n == Len(m)
           good == {k \in 0..n : \A i \in 1..n : i < k => m[i].end + 1 < m[k].start}
<1>1. /\ m \in Seq(Ranges) /\ n \in Nat
      /\ \A i \in 1..n : m[i].start <= m[i].end
      /\ \A i \in 1..(n - 1) : m[i].end + 1 < m[i + 1].start
  BY DEF Canonical
<1>2. \A i \in 1..n : m[i] \in Ranges
  BY <1>1
<1>3. \A i \in 1..n : m[i].start \in Nat /\ m[i].end \in Nat
  BY <1>2 DEF Ranges
<1>4. 0 \in good
  BY <1>1
<1>5. ASSUME NEW k \in 0..(n - 1), k \in good PROVE k + 1 \in good
  <2>1. k + 1 \in 0..n /\ k + 1 \in 1..n
    BY <1>1
  <2>2. ASSUME NEW i \in 1..n, i < k + 1 PROVE m[i].end + 1 < m[k + 1].start
    <3>1. k \in 1..(n - 1) /\ k \in 1..n /\ m[k].end + 1 < m[k + 1].start
      BY <1>1, <2>2
    <3>2. CASE i = k
      BY <3>1, <3>2
    <3>3. CASE i < k
      <4>1. m[i].end + 1 < m[k].start /\ m[k].start <= m[k].end
        BY <1>1, <1>5, <3>1, <3>3
      <4>2. /\ m[i].end \in Nat /\ m[k].start \in Nat /\ m[k].end \in Nat
            /\ m[k + 1].start \in Nat
        BY <1>3, <2>1, <3>1
      <4>3. \A p, q, r, t \in Nat : p + 1 < q /\ q <= r /\ r + 1 < t => p + 1 < t
        OBVIOUS
      <4> QED
        BY <3>1, <4>1, <4>2, <4>3, Zenon
    <3> QED
      BY <2>2, <3>1, <3>2, <3>3
  <2> QED
    BY <2>1, <2>2
<1>6. \A k \in 0..n : k \in good
  <2> HIDE DEF good, n
  <2> QED
    BY <1>1, <1>4, <1>5, UpTo
<1>7. j \in good
  BY <1>1, <1>6
<1> QED
  BY <1>1, <1>3, <1>7

\* Two canonical lists that agree on the first k ranges, and of which all numbers
\* of the first are numbers of the second: where the next range of the first
\* starts and ends.
LEMMA NextRange ==
    ASSUME NEW a, NEW b, Canonical(a), Canonical(b),
           Covered(a, Len(a)) = Covered(b, Len(b)),
           NEW k \in Nat, k < Len(a), k <= Len(b), \A i \in 1..k : a[i] = b[i]
    PROVE  /\ k < Len(b) /\ b[k + 1].start <= a[k + 1].start
           /\ b[k + 1].start = a[k + 1].start => a[k + 1].end <= b[k + 1].end
<1> DEFINE next == a[k + 1]
<1>1. Len(a) \in Nat /\ Len(b) \in Nat /\ k + 1 \in 1..Len(a)
  BY DEF Canonical
<1>2. /\ \A i \in 1..Len(a) : a[i].start \in Nat /\ a[i].end \in Nat /\ a[i].start <= a[i].end
      /\ \A i \in 1..Len(a) : i < k + 1 => a[i].end + 1 < next.start
  BY <1>1, InTurn
<1>3. \A j \in 1..Len(b) :
         /\ \A i \in 1..Len(b) : b[i].start \in Nat /\ b[i].end \in Nat /\ b[i].start <= b[i].end
         /\ \A i \in 1..Len(b) : i < j => b[i].end + 1 < b[j].start
  BY InTurn
<1>4. ASSUME NEW x, x \in next.start..next.end
      PROVE  \E j \in 1..Len(b) : x \in b[j].start..b[j].end
  <2>1. \E i \in 1..Len(a) : x \in a[i].start..a[i].end
    BY <1>1, <1>4
  <2>2. x \in Covered(a, Len(a))
    BY <1>1, <2>1, IsCovered
  <2> QED
    BY <1>1, <2>2, IsCovered
<1>5. PICK j \in 1..Len(b) : next.start \in b[j].start..b[j].end
  <2>1. next.start \in next.start..next.end
    BY <1>1, <1>2
  <2> QED
    BY <1>4, <2>1
<1>6. k < j
  <2> SUFFICES ASSUME j <= k PROVE FALSE
    BY <1>1
  <2>1. j \in 1..k /\ j \in 1..Len(a) /\ j < k + 1
    BY <1>1
  <2>2. a[j] = b[j] /\ a[j].end + 1 < next.start
    BY <1>2, <2>1
  <2> QED
    BY <1>1, <1>2, <1>5, <2>1, <2>2
<1>7. k + 1 \in 1..Len(b) /\ k < Len(b)
  BY <1>1, <1>6
<1>8. b[k + 1].start <= next.start
  <2>1. b[k + 1].start <= b[j].start
    <3>1. CASE j = k + 1
      BY <1>3, <1>7, <3>1
    <3>2. CASE k + 1 < j
      <4>1. b[k + 1].end + 1 < b[j].start /\ b[k + 1].start <= b[k + 1].end
        BY <1>3, <1>7, <3>2
      <4> QED
        BY <1>3, <1>7, <4>1
    <3> QED
      BY <1>6, <1>7, <3>1, <3>2
  <2> QED
    BY <1>1, <1>2, <1>3, <1>5, <1>7, <2>1
<1>9. ASSUME b[k + 1].start = next.start, b[k + 1].end < next.end PROVE FALSE
  <2> DEFINE x == b[k + 1].end + 1
             l == b[k + 1]
  <2>1. l.start \in Nat /\ l.end \in Nat /\ l.start <= l.end
        /\ next.start \in Nat /\ next.end \in Nat
    BY <1>1, <1>2, <1>3, <1>7
  <2>2. x \in next.start..next.end
    BY <1>9, <2>1
  <2>3. PICK i \in 1..Len(b) : x \in b[i].start..b[i].end
    BY <1>4, <2>2
  <2>4. b[i].start \in Nat /\ b[i].end \in Nat /\ b[i].start <= x /\ x <= b[i].end
    BY <1>3, <2>3
  <2>5. CASE i = k + 1
    BY <2>1, <2>4, <2>5
  <2>6. CASE i < k + 1
    <3>1. b[i].end + 1 < l.start
      BY <1>3, <1>7, <2>6
    <3>2. x = l.end + 1
      OBVIOUS
    <3> HIDE DEF l, x, next
    <3>3. l.start \in Nat /\ l.end \in Nat /\ l.start <= l.end
      BY <2>1
    <3> QED
      BY <2>4, <3>1, <3>2, <3>3
  <2>7. CASE k + 1 < i
    <3>1. x < b[i].start
      BY <1>3, <1>7, <2>7
    <3>2. x \in Nat
      BY <2>1
    <3> HIDE DEF x
    <3> QED
      BY <2>4, <3>1, <3>2
  <2> QED
    BY <1>7, <2>5, <2>6, <2>7
<1>10. b[k + 1].start = next.start => next.end <= b[k + 1].end
  BY <1>1, <1>2, <1>3, <1>7, <1>9
<1> QED
  BY <1>7, <1>8, <1>10

\* Canonical ranges are determined by their numbers.
LEMMA CanonicalIsUnique ==
    ASSUME NEW a, NEW b, Canonical(a), Canonical(b),
           Covered(a, Len(a)) = Covered(b, Len(b))
    PROVE  SameRanges(a, b)
<1> DEFINE n == Len(a)
           good == {k \in 0..n : k <= Len(b) /\ \A i \in 1..k : a[i] = b[i]}
<1>1. /\ n \in Nat /\ Len(b) \in Nat
      /\ \A i \in 1..n : a[i] \in Ranges
      /\ \A i \in 1..Len(b) : b[i] \in Ranges
  BY DEF Canonical
<1>2. 0 \in good
  BY <1>1
<1>3. ASSUME NEW k \in 0..(n - 1), k \in good PROVE k + 1 \in good
  <2>1. k \in Nat /\ k < n /\ k <= Len(b) /\ k + 1 \in 0..n /\ k + 1 \in 1..n
        /\ \A i \in 1..k : a[i] = b[i] /\ b[i] = a[i]
    BY <1>1, <1>3
  <2>2. /\ k < Len(b) /\ b[k + 1].start <= a[k + 1].start
        /\ b[k + 1].start = a[k + 1].start => a[k + 1].end <= b[k + 1].end
    BY <2>1, NextRange
  <2>3. /\ a[k + 1].start <= b[k + 1].start
        /\ a[k + 1].start = b[k + 1].start => b[k + 1].end <= a[k + 1].end
    BY <2>1, <2>2, NextRange
  <2> DEFINE p == a[k + 1]
             q == b[k + 1]
  <2>4. p \in Ranges /\ q \in Ranges
    BY <1>1, <2>1, <2>2
  <2> HIDE DEF p, q
  <2>5. /\ p.start \in Nat /\ p.end \in Nat /\ q.start \in Nat /\ q.end \in Nat
        /\ p = [start |-> p.start, end |-> p.end] /\ q = [start |-> q.start, end |-> q.end]
    BY <2>4 DEF Ranges
  <2>6. p = q
    <3>1. p.start = q.start
      BY <2>2, <2>3, <2>5 DEF p, q
    <3>2. p.end = q.end
      BY <2>2, <2>3, <2>5, <3>1 DEF p, q
    <3> QED
      BY <2>5, <3>1, <3>2
  <2>7. \A i \in 1..(k + 1) : i \in 1..k \/ i = k + 1
    BY <2>1
  <2> QED
    BY <1>1, <2>1, <2>2, <2>6, <2>7 DEF p, q
<1>4. n \in good
  <2> HIDE DEF good, n
  <2>1. \A k \in 0..n : k \in good
    BY <1>1, <1>2, <1>3, UpTo
  <2> QED
    BY <1>1, <2>1
<1>5. Len(b) <= n
  <2> SUFFICES ASSUME n < Len(b) PROVE FALSE
    BY <1>1
  <2>1. \A i \in 1..n : b[i] = a[i]
    BY <1>4
  <2> QED
    BY <1>1, <2>1, NextRange
<1> QED
  BY <1>1, <1>4, <1>5 DEF SameRanges

\* The piece of a byte, and the last piece of a torrent.
LEMMA PieceOf ==
    ASSUME NEW d \in Nat \ {0}, NEW b \in Nat
    PROVE  /\ b \div d \in Nat
           /\ d * (b \div d) <= b /\ b < d * (b \div d) + d
OBVIOUS

\* A byte between two multiples of the piece length is in that piece.
LEMMA PieceIs ==
    ASSUME NEW d \in Nat \ {0}, NEW b \in Nat, NEW q \in Nat, d * q <= b, b < d * q + d
    PROVE  b \div d = q
OBVIOUS

\* A later byte is in no earlier piece.
LEMMA LaterPiece ==
    ASSUME NEW d \in Nat \ {0}, NEW a \in Nat, NEW b \in Nat, a <= b
    PROVE  a \div d <= b \div d
OBVIOUS

\* A byte of a torrent is in one of its pieces.
LEMMA PieceOfTheTorrent ==
    ASSUME NEW d \in Nat \ {0}, NEW b \in Nat, NEW n \in Nat, b < n
    PROVE  b \div d \in 0..(Ceil(n, d) - 1)
<1>1. b + d \in Nat /\ n + d - 1 \in Nat /\ b + d <= n + d - 1
  OBVIOUS
<1>2. (b + d) \div d <= (n + d - 1) \div d
  BY <1>1, LaterPiece
<1>3. (b + d) \div d = (b \div d) + 1
  <2> DEFINE q == b \div d
  <2>1. q \in Nat /\ d * q <= b /\ b < d * q + d
    BY PieceOf
  <2> HIDE DEF q
  <2>2. d * (q + 1) = d * q + d
    BY <2>1
  <2>3. d * (q + 1) <= b + d /\ b + d < d * (q + 1) + d /\ q + 1 \in Nat
    BY <2>1, <2>2
  <2>4. (b + d) \div d = q + 1
    BY <1>1, <2>3, PieceIs
  <2> QED
    BY <2>4 DEF q
<1>4. b \div d \in Nat /\ (n + d - 1) \div d \in Nat
  BY <1>1, PieceOf
<1> QED
  BY <1>2, <1>3, <1>4 DEF Ceil

\* The pieces from a first byte's to a last one's are those of the bytes between.
LEMMA PiecesBetween ==
    ASSUME NEW d \in Nat \ {0}, NEW o \in Nat, NEW e \in Nat, o <= e, NEW p
    PROVE  p \in (o \div d)..(e \div d) <=> \E b \in o..e : p = b \div d
<1>1. ASSUME NEW b \in o..e PROVE b \div d \in (o \div d)..(e \div d)
  <2>1. b \in Nat /\ o <= b /\ b <= e
    OBVIOUS
  <2>2. o \div d <= b \div d /\ b \div d <= e \div d
    BY <2>1, LaterPiece
  <2> QED
    BY <2>1, <2>2, PieceOf
<1>2. ASSUME p \in (o \div d)..(e \div d) PROVE \E b \in o..e : p = b \div d
  <2> DEFINE q == o \div d
             r == e \div d
             b == IF d * p <= o THEN o ELSE d * p
  <2>1. /\ q \in Nat /\ d * q <= o /\ o < d * q + d
        /\ r \in Nat /\ d * r <= e /\ e < d * r + d
    BY PieceOf
  <2> HIDE DEF q, r
  <2>2. p \in Nat /\ q <= p /\ p <= r
    BY <1>2, <2>1 DEF q, r
  <2>3. d * p \in Nat /\ d * q <= d * p /\ d * p <= d * r
    BY <2>1, <2>2
  <2>4. b \in o..e /\ b \in Nat /\ d * p <= b /\ b < d * p + d
    BY <2>1, <2>3
  <2>5. b \div d = p
    BY <2>2, <2>4, PieceIs
  <2> QED
    BY <2>4, <2>5
<1> QED
  BY <1>1, <1>2

Chosen(files, selected) ==
    UNION {files[i].offset..(files[i].offset + files[i].length - 1) :
              i \in {j \in 1..Len(files) : files[j].index \in selected}}

Wanted(files, selected) == {f \in ToSet(files) : f.index \in selected /\ f.length > 0}

\* What desiredPieceRanges asks for before it answers.
Answerable(files, selected, geometry) ==
    /\ GeometrySound(geometry)
    /\ selected \subseteq {files[i].index : i \in 1..Len(files)}
    /\ \A f \in Wanted(files, selected) :
          f.offset >= 0 /\ f.offset + f.length <= geometry.totalLength

RangesFor(files, selected, geometry) ==
    LET wanted == Kept(files, Wanted(files, selected))
        ranges == [i \in 1..Len(wanted) |-> RangeOf(wanted[i], geometry)]
    IN  Merge(Ranked(ranges, [r \in ToSet(ranges) |-> r.start]))

\* A selection is answered with ranges or, when it means no pieces, not at all.
LEMMA RangesWanted ==
    ASSUME NEW files, NEW selected, NEW geometry, ArePlaced(files, geometry)
    PROVE  DesiredPieceRanges(files, selected, geometry) =
              IF Answerable(files, selected, geometry)
              THEN RangesFor(files, selected, geometry) ELSE Invalid
<1> DEFINE W == Wanted(files, selected)
           wanted == Kept(files, W)
<1>1. wanted \in Seq(ToSet(files)) /\ ToSet(wanted) = ToSet(files) \cap W
  BY KeptIsOfTheList DEF ArePlaced, IsList
<1>2. DOMAIN wanted = 1..Len(wanted) /\ W \subseteq ToSet(files)
  BY <1>1 DEF Wanted
<1> HIDE DEF wanted, W
<1>3. ToSet(wanted) = W
  BY <1>1, <1>2
<1>4. (\A i \in 1..Len(wanted) :
          wanted[i].offset >= 0 /\ wanted[i].offset + wanted[i].length <= geometry.totalLength)
      <=> \A f \in W : f.offset >= 0 /\ f.offset + f.length <= geometry.totalLength
  BY <1>2, <1>3 DEF ToSet
<1> QED
  BY <1>4 DEF DesiredPieceRanges, Answerable, RangesFor, Wanted, W, wanted

\* The range of a file holds the pieces of its bytes.
LEMMA RangeOfAFile ==
    ASSUME NEW f, NEW g, f.offset \in Nat, f.length \in Nat \ {0},
           g.pieceLength \in Nat \ {0}
    PROVE  /\ RangeOf(f, g) \in Ranges /\ RangeOf(f, g).start <= RangeOf(f, g).end
           /\ \A p : p \in RangeOf(f, g).start..RangeOf(f, g).end <=>
                       \E b \in f.offset..(f.offset + f.length - 1) : p = b \div g.pieceLength
<1> DEFINE d == g.pieceLength
           o == f.offset
           e == f.offset + f.length - 1
<1>1. d \in Nat \ {0} /\ o \in Nat /\ e \in Nat /\ o <= e
  OBVIOUS
<1>2. RangeOf(f, g) = [start |-> o \div d, end |-> e \div d]
  BY DEF RangeOf
<1> HIDE DEF d, o, e
<1>3. o \div d \in Nat /\ e \div d \in Nat /\ o \div d <= e \div d
  BY <1>1, PieceOf, LaterPiece
<1>4. \A p : p \in (o \div d)..(e \div d) <=> \E b \in o..e : p = b \div d
  BY <1>1, PiecesBetween, ZenonT(30)
<1>5. RangeOf(f, g) \in Ranges /\ RangeOf(f, g).start = o \div d /\ RangeOf(f, g).end = e \div d
  BY <1>2, <1>3 DEF Ranges
<1> QED
  BY <1>3, <1>4, <1>5 DEF d, o, e

\* What a selection is answered with: ranges with a piece between any two, of
\* exactly the pieces of the bytes that were chosen.
AreThePieces(ranges, files, selected, geometry) ==
    /\ Canonical(ranges)
    /\ \A p : p \in Covered(ranges, Len(ranges)) <=>
                 \E b \in Chosen(files, selected) : p = b \div geometry.pieceLength

\* A byte is chosen when it is a wanted file's.
LEMMA ChosenAreWanted ==
    ASSUME NEW files, NEW selected, NEW geometry, ArePlaced(files, geometry), NEW b
    PROVE  b \in Chosen(files, selected) <=>
              \E f \in Wanted(files, selected) : b \in f.offset..(f.offset + f.length - 1)
<1>1. /\ DOMAIN files = 1..Len(files)
      /\ \A i \in 1..Len(files) : files[i].offset \in Int /\ files[i].length \in Nat
  BY DEF ArePlaced, IsList, ToSet
<1>2. ASSUME NEW i \in 1..Len(files), files[i].index \in selected,
             b \in files[i].offset..(files[i].offset + files[i].length - 1)
      PROVE  files[i] \in Wanted(files, selected)
  <2>1. files[i].length > 0
    BY <1>1, <1>2
  <2> QED
    BY <1>1, <1>2, <2>1 DEF Wanted, ToSet
<1>3. ASSUME NEW f \in Wanted(files, selected)
      PROVE  \E i \in 1..Len(files) : f = files[i] /\ files[i].index \in selected
  BY <1>1 DEF Wanted, ToSet
<1>4. b \in Chosen(files, selected) <=>
         \E i \in 1..Len(files) : files[i].index \in selected
                                  /\ b \in files[i].offset..(files[i].offset + files[i].length - 1)
  BY DEF Chosen
<1> QED
  BY <1>2, <1>3, <1>4, Zenon

\* The ranges a selection is answered with are of its bytes: desiredPieceRanges.
LEMMA RangesForThePieces ==
    ASSUME NEW files, NEW selected, NEW geometry, ArePlaced(files, geometry),
           Answerable(files, selected, geometry)
    PROVE  AreThePieces(RangesFor(files, selected, geometry), files, selected, geometry)
<1> DEFINE d == geometry.pieceLength
           W == Wanted(files, selected)
           wanted == Kept(files, W)
           n == Len(wanted)
           ranges == [i \in 1..n |-> RangeOf(wanted[i], geometry)]
           rank == [r \in ToSet(ranges) |-> r.start]
           sorted == Ranked(ranges, rank)
           merged == Merge(sorted)
<1>1. d \in Nat \ {0}
  BY DEF Answerable, GeometrySound, ArePlaced
<1>2. wanted \in Seq(ToSet(files)) /\ ToSet(wanted) = W
  <2>1. W \subseteq ToSet(files)
    BY DEF Wanted
  <2> HIDE DEF W
  <2>2. ToSet(files) \cap W = W
    BY <2>1
  <2> QED
    BY <2>2, KeptIsOfTheList DEF ArePlaced, IsList
<1>3. \A f \in W : f.offset \in Nat /\ f.length \in Nat \ {0}
  BY DEF W, Wanted, Answerable, ArePlaced
<1>4. RangesFor(files, selected, geometry) = merged
  BY DEF RangesFor
<1> HIDE DEF wanted, W, d
<1>5. n \in Nat /\ DOMAIN wanted = 1..n /\ (\A i \in 1..n : wanted[i] \in W)
      /\ \A f \in W : \E i \in 1..n : wanted[i] = f
  <2>1. n \in Nat /\ DOMAIN wanted = 1..n
    BY <1>2
  <2> QED
    BY <1>2, <2>1 DEF ToSet
<1>6. \A f \in W : /\ RangeOf(f, geometry) \in Ranges
                   /\ RangeOf(f, geometry).start <= RangeOf(f, geometry).end
  BY <1>1, <1>3, RangeOfAFile DEF d
<1>7. \A r : r \in ToSet(ranges) <=> \E f \in W : r = RangeOf(f, geometry)
  <2>1. DOMAIN ranges = 1..n /\ \A i \in 1..n : ranges[i] = RangeOf(wanted[i], geometry)
    OBVIOUS
  <2> HIDE DEF ranges, n
  <2> QED
    BY <1>5, <2>1 DEF ToSet
<1>8. IsList(ranges) /\ Len(ranges) = n
  <2>1. ranges = [i \in 1..n |-> ranges[i]]
    OBVIOUS
  <2> HIDE DEF ranges, n
  <2> QED
    BY <1>5, <2>1, AList
<1>9. \A r \in ToSet(ranges) : r \in Ranges /\ r.start <= r.end /\ rank[r] = r.start /\ r.start \in Nat
  <2>1. \A r \in ToSet(ranges) : rank[r] = r.start
    OBVIOUS
  <2>2. \A r \in Ranges : r.start \in Nat
    BY DEF Ranges
  <2> HIDE DEF ranges, rank
  <2> QED
    BY <1>6, <1>7, <2>1, <2>2
<1> HIDE DEF ranges, rank
<1>10. /\ sorted \in Seq(ToSet(ranges)) /\ ToSet(sorted) = ToSet(ranges)
       /\ InOrderOf(sorted, rank)
  <2>1. ranges \in Seq(ToSet(ranges)) /\ \A r \in ToSet(ranges) : rank[r] \in Int
    BY <1>8, <1>9 DEF IsList
  <2> QED
    BY <2>1, RankedIsInOrder
<1> HIDE DEF sorted
<1>11. /\ Len(sorted) \in Nat /\ DOMAIN sorted = 1..Len(sorted)
       /\ \A i \in 1..Len(sorted) : sorted[i] \in ToSet(ranges)
  BY <1>10
<1>12. /\ sorted \in Seq(Ranges)
       /\ \A i \in 1..Len(sorted) : sorted[i].start <= sorted[i].end
       /\ \A i, j \in 1..Len(sorted) : i < j => sorted[i].start <= sorted[j].start
  <2>1. sorted = [i \in 1..Len(sorted) |-> sorted[i]]
    BY <1>10
  <2>2. \A i \in 1..Len(sorted) : sorted[i] \in Ranges
    BY <1>9, <1>11
  <2>3. sorted \in Seq(Ranges)
    BY <1>11, <2>1, <2>2
  <2>4. \A i \in 1..Len(sorted) : sorted[i].start <= sorted[i].end /\ rank[sorted[i]] = sorted[i].start
    BY <1>9, <1>11
  <2> QED
    BY <1>10, <2>3, <2>4 DEF InOrderOf
<1>13. Canonical(merged) /\ Covered(merged, Len(merged)) = Covered(sorted, Len(sorted))
  BY <1>12, MergedIsCanonical
<1> HIDE DEF merged
<1>14. ASSUME NEW p
       PROVE  p \in Covered(sorted, Len(sorted)) <=>
                 \E f \in W : p \in RangeOf(f, geometry).start..RangeOf(f, geometry).end
  <2>1. p \in Covered(sorted, Len(sorted)) <=>
           \E i \in 1..Len(sorted) : p \in sorted[i].start..sorted[i].end
    BY <1>11, IsCovered
  <2>2. \A r : r \in ToSet(ranges) <=> \E i \in 1..Len(sorted) : sorted[i] = r
    BY <1>10, <1>11 DEF ToSet
  <2> QED
    BY <1>7, <2>1, <2>2, Zenon
<1>15. ASSUME NEW p
       PROVE  (\E f \in W : p \in RangeOf(f, geometry).start..RangeOf(f, geometry).end)
                 <=> \E b \in Chosen(files, selected) : p = b \div d
  <2>1. ASSUME NEW f \in W
        PROVE  p \in RangeOf(f, geometry).start..RangeOf(f, geometry).end <=>
                  \E b \in f.offset..(f.offset + f.length - 1) : p = b \div d
    BY <1>1, <1>3, RangeOfAFile DEF d
  <2>2. \A b : b \in Chosen(files, selected) <=>
                 \E f \in W : b \in f.offset..(f.offset + f.length - 1)
    BY ChosenAreWanted DEF W
  <2> QED
    BY <2>1, <2>2, Zenon
<1> QED
  BY <1>4, <1>13, <1>14, <1>15 DEF AreThePieces, d

\* The pieces of a chosen byte are pieces of the torrent.
LEMMA ChosenIsInTheTorrent ==
    ASSUME NEW files, NEW selected, NEW geometry, ArePlaced(files, geometry),
           Answerable(files, selected, geometry), NEW b \in Chosen(files, selected)
    PROVE  b \div geometry.pieceLength \in 0..(geometry.pieceCount - 1)
<1>1. PICK f \in Wanted(files, selected) : b \in f.offset..(f.offset + f.length - 1)
  BY ChosenAreWanted
<1>2. /\ f.offset \in Int /\ f.length \in Nat
      /\ f.offset >= 0 /\ f.offset + f.length <= geometry.totalLength
  BY DEF Wanted, Answerable, ArePlaced
<1>3. /\ geometry.pieceLength \in Nat \ {0} /\ geometry.totalLength \in Nat
      /\ geometry.pieceCount = Ceil(geometry.totalLength, geometry.pieceLength)
  BY DEF Answerable, GeometrySound, ArePlaced
<1>4. b \in Nat /\ b < geometry.totalLength
  BY <1>1, <1>2, <1>3
<1> QED
  BY <1>3, <1>4, PieceOfTheTorrent

\* Whatever the files and the pieces' length, a selection's ranges hold its
\* bytes' pieces.
LEMMA PiecesAreOfTheSelection ==
    ASSUME NEW files, NEW selected, NEW geometry, ArePlaced(files, geometry)
    PROVE  RangesAreThePieces(files, selected, geometry)
<1> DEFINE D(s) == DesiredPieceRanges(files, s, geometry)
           ranges == D(selected)
           d == geometry.pieceLength
           last == geometry.pieceCount - 1
           others == {s \in SUBSET {files[i].index : i \in 1..Len(files)} :
                        Covered(D(s), Len(D(s))) = Covered(ranges, Len(ranges))}
<1>1. \A s : D(s) = IF Answerable(files, s, geometry)
                    THEN RangesFor(files, s, geometry) ELSE Invalid
  BY RangesWanted
<1>2. \A s : Answerable(files, s, geometry) => AreThePieces(D(s), files, s, geometry)
  BY <1>1, RangesForThePieces
<1> HIDE DEF D
<1>3. SUFFICES ASSUME ranges # Invalid
               PROVE  /\ Covered(ranges, Len(ranges)) = {b \div d : b \in Chosen(files, selected)}
                      /\ Covered(ranges, Len(ranges)) \subseteq 0..last
                      /\ \A i \in 1..(Len(ranges) - 1) : ranges[i].end + 1 < ranges[i + 1].start
                      /\ \A s \in others : SameRanges(D(s), ranges)
  BY DEF RangesAreThePieces, Covered, Chosen, D
<1>4. Answerable(files, selected, geometry) /\ AreThePieces(ranges, files, selected, geometry)
  BY <1>1, <1>2, <1>3
<1>5. Canonical(ranges)
      /\ \A p : p \in Covered(ranges, Len(ranges)) <=> \E b \in Chosen(files, selected) : p = b \div d
  BY <1>4 DEF AreThePieces
<1>6. \A b \in Chosen(files, selected) : b \div d \in 0..last
  BY <1>4, ChosenIsInTheTorrent
<1> HIDE DEF ranges, d, last
<1>7. Covered(ranges, Len(ranges)) \subseteq 0..last
  BY <1>5, <1>6
<1>8. ASSUME NEW s \in others PROVE SameRanges(D(s), ranges)
  <2>1. Covered(D(s), Len(D(s))) = Covered(ranges, Len(ranges))
    BY DEF others
  <2>2. CASE Answerable(files, s, geometry)
    <3>1. Canonical(D(s))
      BY <1>2, <2>2 DEF AreThePieces
    <3> QED
      BY <1>5, <2>1, <3>1, CanonicalIsUnique
  <2>3. CASE ~ Answerable(files, s, geometry)
    <3>1. D(s) = Invalid
      BY <1>1, <2>3
    <3>2. -1 \in Covered(Invalid, Len(Invalid))
      BY DEF Invalid, Covered
    <3>3. -1 \in 0..last
      BY <1>7, <2>1, <3>1, <3>2
    <3> QED
      BY <3>3
  <2> QED
    BY <2>2, <2>3
<1>9. Covered(ranges, Len(ranges)) = {b \div d : b \in Chosen(files, selected)}
  BY <1>5
<1>10. \A i \in 1..(Len(ranges) - 1) : ranges[i].end + 1 < ranges[i + 1].start
  BY <1>5 DEF Canonical
<1> QED
  BY <1>7, <1>8, <1>9, <1>10

(* --------------------------- each item only once ---------------------------- *)

\* An item that is not among those before it.
Noted(kept, item) == IF item \in ToSet(kept) THEN kept ELSE Append(kept, item)

\* The first mentions of a list's items are gathered item by item.
FirstsRun(st, s) ==
    /\ st[0] = <<>>
    /\ \A k \in 1..Len(s) : st[k] = Noted(st[k - 1], s[k])
    /\ Firsts(s) = st[Len(s)]

\* Listing each item once goes through such states.
LEMMA FirstsSteps ==
    ASSUME NEW S, NEW s \in Seq(S)
    PROVE  \E st \in [0..Len(s) -> Seq(S)] : FirstsRun(st, s)
<1> DEFINE n == Len(s)
           T == Seq(S)
           base == <<>>
           step == [p \in T \X (1..n) |-> Noted(p[1], s[p[2]])]
           IsFold(f) == f = [t \in SUBSET DOMAIN s |->
                           IF t = {} THEN base ELSE Noted(f[t \ {Max(t)}], s[Max(t)])]
           iter == CHOOSE f : IsFold(f)
<1>1. n \in Nat /\ base \in T /\ DOMAIN s = 1..n
  OBVIOUS
<1>2. step \in [T \X (1..n) -> T]
  <2>1. \A a \in Seq(S), x \in S : Noted(a, x) \in Seq(S)
    BY DEF Noted
  <2>2. \A i \in 1..n : s[i] \in S
    OBVIOUS
  <2> QED
    BY <2>1, <2>2
<1>3. \A a \in T, k \in 1..n : step[<<a, k>>] = Noted(a, s[k])
  OBVIOUS
<1>4. Firsts(s) = iter[1..n]
  BY <1>1 DEF Firsts, Noted, FoldLeft, MapThenFoldSet
<1> HIDE DEF T, n, step, base
<1>5. PICK f \in [SUBSET (1..n) -> T] :
         /\ GoesOn(f, base, T, step, n)
         /\ \A t \in SUBSET (1..n) : t # {} => Max(t) \in 1..n /\ f[t \ {Max(t)}] \in T
  BY <1>1, <1>2, FoldGoesOn
<1>6. IsFold(f)
  BY <1>1, <1>3, <1>5 DEF GoesOn
<1>7. IsFold(iter)
  <2> HIDE DEF IsFold
  <2> QED
    BY <1>6
<1> HIDE DEF iter
<1>8. GoesOn(iter, base, T, step, n)
  BY <1>1, <1>3, <1>5, <1>7, ZenonT(30) DEF GoesOn
<1>9. PICK st \in [0..n -> T] : Runs(st, base, T, step, n) /\ EndsWith(iter, st, n)
  <2> HIDE DEF IsFold
  <2>1. base \in T /\ n \in Nat
    BY <1>1
  <2> QED
    BY <1>2, <1>8, <2>1, StatesOfFold
<1> QED
  BY <1>3, <1>4, <1>9, ZenonT(30) DEF Runs, EndsWith, FirstsRun, n, T, base

\* No item twice.
NoneTwice(s) == \A i, j \in 1..Len(s) : s[i] = s[j] => i = j

\* An item that is noted leaves none twice, and all of them.
LEMMA NotedIsOnce ==
    ASSUME NEW S, NEW kept \in Seq(S), NoneTwice(kept), NEW x \in S
    PROVE  NoneTwice(Noted(kept, x)) /\ ToSet(Noted(kept, x)) = ToSet(kept) \cup {x}
<1> DEFINE n == Len(kept)
           new == Append(kept, x)
<1>1. n \in Nat /\ DOMAIN kept = 1..n
  OBVIOUS
<1>2. CASE x \in ToSet(kept)
  BY <1>2 DEF Noted
<1>3. CASE x \notin ToSet(kept)
  <2>1. Noted(kept, x) = new
    BY <1>3 DEF Noted
  <2>2. /\ Len(new) = n + 1 /\ DOMAIN new = 1..(n + 1)
        /\ new[n + 1] = x /\ \A i \in 1..n : new[i] = kept[i]
    OBVIOUS
  <2> HIDE DEF new
  <2>3. /\ \A i \in 1..(n + 1) : i \in 1..n \/ i = n + 1
        /\ \A i \in 1..n : i \in 1..(n + 1) /\ kept[i] # x
        /\ n + 1 \in 1..(n + 1)
    BY <1>1, <1>3 DEF ToSet
  <2>4. NoneTwice(new)
    <3> SUFFICES ASSUME NEW i \in 1..(n + 1), NEW j \in 1..(n + 1), new[i] = new[j] PROVE i = j
      BY <2>2 DEF NoneTwice
    <3>1. CASE i \in 1..n /\ j \in 1..n
      BY <2>2, <3>1 DEF NoneTwice
    <3>2. CASE i = n + 1 \/ j = n + 1
      BY <2>2, <2>3, <3>2
    <3> QED
      BY <2>3, <3>1, <3>2
  <2>5. \A y : y \in ToSet(new) <=> y \in ToSet(kept) \/ y = x
    <3>1. \A y : y \in ToSet(new) <=> \E i \in 1..(n + 1) : y = new[i]
      BY <2>2 DEF ToSet
    <3>2. \A y : y \in ToSet(kept) <=> \E i \in 1..n : y = kept[i]
      BY <1>1 DEF ToSet
    <3> QED
      BY <2>2, <2>3, <3>1, <3>2
  <2> QED
    BY <2>1, <2>4, <2>5
<1> QED
  BY <1>2, <1>3

\* The first mentions of a list's items are all of them, none twice.
LEMMA FirstsAreAll ==
    ASSUME NEW S, NEW s \in Seq(S)
    PROVE  /\ Firsts(s) \in Seq(S) /\ NoneTwice(Firsts(s))
           /\ ToSet(Firsts(s)) = ToSet(s)
<1> DEFINE n == Len(s)
<1>1. PICK st \in [0..n -> Seq(S)] : FirstsRun(st, s)
  BY FirstsSteps
<1>2. st[0] = <<>> /\ (\A k \in 1..n : st[k] = Noted(st[k - 1], s[k])) /\ Firsts(s) = st[n]
  BY <1>1 DEF FirstsRun
<1> DEFINE good == {k \in 0..n : NoneTwice(st[k]) /\ ToSet(st[k]) = {s[i] : i \in 1..k}}
<1>3. n \in Nat /\ DOMAIN s = 1..n
  OBVIOUS
<1>4. 0 \in good
  <2>1. 1..0 = {} /\ Len(<<>>) = 0 /\ DOMAIN <<>> = {}
    OBVIOUS
  <2>2. NoneTwice(<<>>) /\ ToSet(<<>>) = {s[i] : i \in 1..0}
    BY <2>1 DEF NoneTwice, ToSet
  <2> QED
    BY <1>2, <1>3, <2>2
<1>5. ASSUME NEW k \in 0..(n - 1), k \in good PROVE k + 1 \in good
  <2>1. /\ k \in 0..n /\ k + 1 \in 1..n /\ k + 1 \in 0..n /\ (k + 1) - 1 = k
        /\ st[k] \in Seq(S) /\ s[k + 1] \in S
    BY <1>3
  <2>2. NoneTwice(st[k]) /\ ToSet(st[k]) = {s[i] : i \in 1..k}
    BY <1>5
  <2>3. st[k + 1] = Noted(st[k], s[k + 1])
    BY <1>2, <2>1
  <2>4. NoneTwice(st[k + 1]) /\ ToSet(st[k + 1]) = ToSet(st[k]) \cup {s[k + 1]}
    BY <2>1, <2>2, <2>3, NotedIsOnce
  <2>5. \A i : i \in 1..(k + 1) <=> i \in 1..k \/ i = k + 1
    BY <2>1
  <2>6. {s[i] : i \in 1..(k + 1)} = {s[i] : i \in 1..k} \cup {s[k + 1]}
    BY <2>5
  <2> QED
    BY <2>1, <2>2, <2>4, <2>6
<1>6. n \in good
  <2>1. \A k \in 0..n : k \in good
    <3> HIDE DEF good, n
    <3> QED
      BY <1>3, <1>4, <1>5, UpTo
  <2> QED
    BY <1>3, <2>1
<1>7. st[n] \in Seq(S)
  BY <1>3
<1> QED
  BY <1>2, <1>3, <1>6, <1>7 DEF ToSet

\* A list without repetition has as many items as places.
LEMMA AsManyAsPlaces ==
    ASSUME NEW S, NEW s \in Seq(S), NoneTwice(s)
    PROVE  Cardinality(ToSet(s)) = Len(s)
<1>1. Len(s) \in Nat /\ DOMAIN s = 1..Len(s)
  OBVIOUS
<1>2. s \in [1..Len(s) -> ToSet(s)]
  BY <1>1 DEF ToSet
<1>3. s \in Injection(1..Len(s), ToSet(s))
  BY <1>1, <1>2 DEF NoneTwice, Injection, IsInjective
<1>5. s \in Surjection(1..Len(s), ToSet(s))
  BY <1>1, <1>2 DEF Surjection, ToSet
<1>4. IsFiniteSet(1..Len(s)) /\ Cardinality(1..Len(s)) = Len(s)
  BY <1>1, FS_Interval
<1> QED
  BY <1>3, <1>4, <1>5, FS_Surjection

\* A tier's trackers are known ones that no tier before it has, each once.
LEMMA AddedAreNew ==
    ASSUME NEW all, NEW tier, IsList(tier)
    PROVE  /\ NewTrackers(all, tier) \in Seq(ToSet(tier)) /\ NoneTwice(NewTrackers(all, tier))
           /\ \A url : url \in ToSet(NewTrackers(all, tier)) <=>
                 /\ url \in ToSet(tier) /\ KnownTracker(url)
                 /\ \A i \in 1..Len(all) : url \notin ToSet(all[i])
<1> DEFINE W == {url \in ToSet(tier) :
                    KnownTracker(url) /\ \A i \in 1..Len(all) : url \notin ToSet(all[i])}
           kept == Kept(tier, W)
<1>1. kept \in Seq(ToSet(tier)) /\ ToSet(kept) = ToSet(tier) \cap W
  BY KeptIsOfTheList DEF IsList
<1>2. NewTrackers(all, tier) = Firsts(kept)
  BY DEF NewTrackers
<1> HIDE DEF kept
<1>3. /\ Firsts(kept) \in Seq(ToSet(tier)) /\ NoneTwice(Firsts(kept))
      /\ ToSet(Firsts(kept)) = ToSet(kept)
  BY <1>1, FirstsAreAll
<1> QED
  BY <1>1, <1>2, <1>3

\* What a tier adds to the tiers.
WithTier(all, tier) ==
    IF NewTrackers(all, tier) = <<>> THEN all ELSE Append(all, NewTrackers(all, tier))

\* Tiers are looked at one by one.
TiersRun(st, tiers) ==
    /\ st[0] = <<>>
    /\ \A k \in 1..Len(tiers) : st[k] = WithTier(st[k - 1], tiers[k])
    /\ ValidTiers(tiers) = st[Len(tiers)]

\* Tiers are read one by one.
LEMMA TierSteps ==
    ASSUME NEW tiers, IsList(tiers), \A t \in ToSet(tiers) : IsList(t),
           NEW U, U = UNION {ToSet(t) : t \in ToSet(tiers)}
    PROVE  \E st \in [0..Len(tiers) -> Seq(Seq(U))] : TiersRun(st, tiers)
<1> DEFINE n == Len(tiers)
           T == Seq(Seq(U))
           base == <<>>
           step == [p \in T \X (1..n) |-> WithTier(p[1], tiers[p[2]])]
           IsFold(f) == f = [t \in SUBSET DOMAIN tiers |->
                           IF t = {} THEN base ELSE WithTier(f[t \ {Max(t)}], tiers[Max(t)])]
           iter == CHOOSE f : IsFold(f)
<1>1. n \in Nat /\ base \in T /\ DOMAIN tiers = 1..n
  BY DEF IsList
<1>2. step \in [T \X (1..n) -> T]
  <2>1. ASSUME NEW a \in Seq(Seq(U)), NEW i \in 1..n PROVE WithTier(a, tiers[i]) \in Seq(Seq(U))
    <3>1. tiers[i] \in ToSet(tiers)
      BY <1>1 DEF ToSet
    <3>2. NewTrackers(a, tiers[i]) \in Seq(ToSet(tiers[i])) /\ ToSet(tiers[i]) \subseteq U
      BY <3>1, AddedAreNew
    <3>3. NewTrackers(a, tiers[i]) \in Seq(U)
      BY <3>2
    <3> QED
      BY <3>3 DEF WithTier
  <2> QED
    BY <2>1
<1>3. \A a \in T, k \in 1..n : step[<<a, k>>] = WithTier(a, tiers[k])
  OBVIOUS
<1>4. ValidTiers(tiers) = iter[1..n]
  BY <1>1 DEF ValidTiers, WithTier, FoldLeft, MapThenFoldSet
<1> HIDE DEF T, n, step, base
<1>5. PICK f \in [SUBSET (1..n) -> T] :
         /\ GoesOn(f, base, T, step, n)
         /\ \A t \in SUBSET (1..n) : t # {} => Max(t) \in 1..n /\ f[t \ {Max(t)}] \in T
  BY <1>1, <1>2, FoldGoesOn
<1>6. IsFold(f)
  BY <1>1, <1>3, <1>5 DEF GoesOn
<1>7. IsFold(iter)
  <2> HIDE DEF IsFold
  <2> QED
    BY <1>6
<1> HIDE DEF iter
<1>8. GoesOn(iter, base, T, step, n)
  BY <1>1, <1>3, <1>5, <1>7, ZenonT(30) DEF GoesOn
<1>9. PICK st \in [0..n -> T] : Runs(st, base, T, step, n) /\ EndsWith(iter, st, n)
  <2> HIDE DEF IsFold
  <2>1. base \in T /\ n \in Nat
    BY <1>1
  <2> QED
    BY <1>2, <1>8, <2>1, StatesOfFold
<1> QED
  BY <1>3, <1>4, <1>9, ZenonT(30) DEF Runs, EndsWith, TiersRun, n, T, base

\* The tiers name each tracker once, and none is empty.
TiersAreSound(tiers) ==
    /\ \A i \in 1..Len(tiers) : tiers[i] # <<>> /\ NoneTwice(tiers[i])
    /\ \A i, j \in 1..Len(tiers) : \A url \in ToSet(tiers[i]) : url \in ToSet(tiers[j]) => i = j

\* The trackers of sound tiers stay in one tier each with the next tier's new
\* ones.
LEMMA OneTierMore ==
    ASSUME NEW U, NEW all \in Seq(Seq(U)), TiersAreSound(all), NEW tier, IsList(tier)
    PROVE  TiersAreSound(WithTier(all, tier))
<1> DEFINE n == Len(all)
           added == NewTrackers(all, tier)
           new == Append(all, added)
<1>1. /\ NoneTwice(added)
      /\ \A url \in ToSet(added) : \A i \in 1..n : url \notin ToSet(all[i])
  BY AddedAreNew
<1> HIDE DEF added
<1>2. CASE added = <<>>
  BY <1>2 DEF WithTier, added
<1>3. CASE added # <<>>
  <2>1. WithTier(all, tier) = new
    BY <1>3 DEF WithTier, added
  <2>2. n \in Nat /\ Len(new) = n + 1 /\ new[n + 1] = added /\ \A i \in 1..n : new[i] = all[i]
    OBVIOUS
  <2> HIDE DEF new
  <2>3. \A i \in 1..(n + 1) : i \in 1..n \/ i = n + 1
    BY <2>2
  <2>4. \A i \in 1..(n + 1) : new[i] # <<>> /\ NoneTwice(new[i])
    BY <1>1, <1>3, <2>2, <2>3 DEF TiersAreSound
  <2>5. ASSUME NEW i \in 1..(n + 1), NEW j \in 1..(n + 1), NEW url \in ToSet(new[i]), url \in ToSet(new[j])
        PROVE  i = j
    <3>1. CASE i \in 1..n /\ j \in 1..n
      BY <2>2, <2>5, <3>1 DEF TiersAreSound
    <3>2. CASE i = n + 1 /\ j \in 1..n
      BY <1>1, <2>2, <2>5, <3>2
    <3>3. CASE i \in 1..n /\ j = n + 1
      BY <1>1, <2>2, <2>5, <3>3
    <3> QED
      BY <2>3, <3>1, <3>2, <3>3
  <2> QED
    BY <2>1, <2>2, <2>4, <2>5 DEF TiersAreSound
<1> QED
  BY <1>2, <1>3

\* Whatever tiers are written, those that are kept are sound.
LEMMA ValidTiersAreSound ==
    ASSUME NEW tiers, IsList(tiers), \A t \in ToSet(tiers) : IsList(t)
    PROVE  /\ TiersAreSound(ValidTiers(tiers))
           /\ ValidTiers(tiers) \in Seq(Seq(UNION {ToSet(t) : t \in ToSet(tiers)}))
<1> DEFINE n == Len(tiers)
           U == UNION {ToSet(t) : t \in ToSet(tiers)}
<1> HIDE DEF U
<1>1. PICK st \in [0..n -> Seq(Seq(U))] : TiersRun(st, tiers)
  BY TierSteps DEF U
<1>2. /\ st[0] = <<>> /\ \A k \in 1..n : st[k] = WithTier(st[k - 1], tiers[k])
      /\ ValidTiers(tiers) = st[n]
  BY <1>1 DEF TiersRun
<1> DEFINE good == {k \in 0..n : TiersAreSound(st[k])}
<1>3. n \in Nat /\ \A i \in 1..n : IsList(tiers[i])
  BY DEF IsList, ToSet
<1>4. 0 \in good
  <2>1. 1..0 = {} /\ Len(<<>>) = 0
    OBVIOUS
  <2>2. TiersAreSound(<<>>)
    BY <2>1 DEF TiersAreSound
  <2> QED
    BY <1>2, <1>3, <2>2
<1>5. ASSUME NEW k \in 0..(n - 1), k \in good PROVE k + 1 \in good
  <2>1. /\ k \in 0..n /\ k + 1 \in 1..n /\ k + 1 \in 0..n /\ (k + 1) - 1 = k
        /\ st[k] \in Seq(Seq(U)) /\ IsList(tiers[k + 1])
    BY <1>3
  <2>2. TiersAreSound(st[k])
    BY <1>5
  <2>3. TiersAreSound(WithTier(st[k], tiers[k + 1]))
    BY <2>1, <2>2, OneTierMore
  <2> QED
    BY <1>2, <2>1, <2>3
<1>6. n \in good
  <2>1. \A k \in 0..n : k \in good
    <3> HIDE DEF good, n
    <3> QED
      BY <1>3, <1>4, <1>5, UpTo
  <2> QED
    BY <1>3, <2>1
<1>7. st[n] \in Seq(Seq(U))
  BY <1>3
<1> QED
  BY <1>2, <1>6, <1>7 DEF U

\* A list of one tier is what that tier adds to nothing.
LEMMA TiersOfOne ==
    ASSUME NEW tier, IsList(tier)
    PROVE  ValidTiers(<<tier>>) = WithTier(<<>>, tier)
<1> DEFINE tiers == <<tier>>
           U == UNION {ToSet(t) : t \in ToSet(tiers)}
<1>1. Len(tiers) = 1 /\ tiers[1] = tier /\ DOMAIN tiers = 1..1
  OBVIOUS
<1>2. ToSet(tiers) = {tier} /\ IsList(tiers)
  BY <1>1 DEF ToSet, IsList
<1> HIDE DEF tiers
<1>3. PICK st \in [0..Len(tiers) -> Seq(Seq(U))] : TiersRun(st, tiers)
  BY <1>2, TierSteps
<1>4. /\ st[0] = <<>> /\ st[1] = WithTier(st[1 - 1], tiers[1])
      /\ ValidTiers(tiers) = st[1]
  BY <1>1, <1>3 DEF TiersRun
<1> QED
  BY <1>1, <1>4 DEF tiers

(* ------------------------------ files laid out ------------------------------- *)

\* Files that have a length.
AreSized(files) == IsList(files) /\ \A f \in ToSet(files) : f.length \in Nat

\* Lengths are added up file by file.
TotalRun(st, files) ==
    /\ st[0] = 0
    /\ \A k \in 1..Len(files) : st[k] = st[k - 1] + files[k].length
    /\ TotalLength(files) = st[Len(files)]

\* Lengths add up file by file.
LEMMA TotalSteps ==
    ASSUME NEW files, AreSized(files)
    PROVE  \E st \in [0..Len(files) -> Nat] : TotalRun(st, files)
<1> DEFINE n == Len(files)
           T == Nat
           base == 0
           step == [p \in T \X (1..n) |-> p[1] + files[p[2]].length]
           IsFold(f) == f = [t \in SUBSET DOMAIN files |->
                           IF t = {} THEN base ELSE f[t \ {Max(t)}] + files[Max(t)].length]
           iter == CHOOSE f : IsFold(f)
<1>1. n \in Nat /\ base \in T /\ DOMAIN files = 1..n
  BY DEF AreSized, IsList
<1>2. step \in [T \X (1..n) -> T]
  <2>1. \A i \in 1..n : files[i].length \in Nat
    BY <1>1 DEF AreSized, ToSet
  <2> QED
    BY <2>1
<1>3. \A a \in T, k \in 1..n : step[<<a, k>>] = a + files[k].length
  OBVIOUS
<1>4. TotalLength(files) = iter[1..n]
  BY <1>1 DEF TotalLength, FoldLeft, MapThenFoldSet
<1> HIDE DEF T, n, step, base
<1>5. PICK f \in [SUBSET (1..n) -> T] :
         /\ GoesOn(f, base, T, step, n)
         /\ \A t \in SUBSET (1..n) : t # {} => Max(t) \in 1..n /\ f[t \ {Max(t)}] \in T
  BY <1>1, <1>2, FoldGoesOn
<1>6. IsFold(f)
  BY <1>1, <1>3, <1>5 DEF GoesOn
<1>7. IsFold(iter)
  <2> HIDE DEF IsFold
  <2> QED
    BY <1>6
<1> HIDE DEF iter
<1>8. GoesOn(iter, base, T, step, n)
  BY <1>1, <1>3, <1>5, <1>7, ZenonT(30) DEF GoesOn
<1>9. PICK st \in [0..n -> T] : Runs(st, base, T, step, n) /\ EndsWith(iter, st, n)
  <2> HIDE DEF IsFold
  <2>1. base \in T /\ n \in Nat
    BY <1>1
  <2> QED
    BY <1>2, <1>8, <2>1, StatesOfFold
<1> QED
  BY <1>3, <1>4, <1>9, ZenonT(30) DEF Runs, EndsWith, TotalRun, n, T, base

\* The first k files are as long as the sum has come to after k of them.
LEMMA TotalOfAPart ==
    ASSUME NEW files, AreSized(files), NEW st \in [0..Len(files) -> Nat], TotalRun(st, files),
           NEW k \in 0..Len(files)
    PROVE  TotalLength(SubSeq(files, 1, k)) = st[k]
<1> DEFINE part == SubSeq(files, 1, k)
<1>1. /\ Len(files) \in Nat /\ k \in Nat /\ files \in Seq(ToSet(files)) /\ DOMAIN files = 1..Len(files)
      /\ \A i \in 1..k : i \in 1..Len(files)
  BY DEF AreSized, IsList
<1>2. part = [i \in 1..k |-> files[i]]
  BY <1>1
<1> HIDE DEF part
<1>3. Len(part) = k /\ DOMAIN part = 1..k /\ \A i \in 1..k : part[i] = files[i]
  BY <1>1, <1>2
<1>4. AreSized(part)
  <2>1. \A i \in 1..k : files[i].length \in Nat
    BY <1>1 DEF AreSized, ToSet
  <2>2. \A f \in ToSet(part) : f.length \in Nat
    BY <1>3, <2>1 DEF ToSet
  <2>3. part = [i \in 1..k |-> part[i]]
    BY <1>2, <1>3
  <2>4. IsList(part)
    BY <1>1, <2>3, AList
  <2> QED
    BY <2>2, <2>4 DEF AreSized
<1>5. PICK sp \in [0..k -> Nat] : TotalRun(sp, part)
  BY <1>3, <1>4, TotalSteps
<1>6. /\ sp[0] = 0 /\ (\A j \in 1..k : sp[j] = sp[j - 1] + files[j].length)
      /\ TotalLength(part) = sp[k]
  BY <1>3, <1>5 DEF TotalRun
<1>7. st[0] = 0 /\ \A j \in 1..k : st[j] = st[j - 1] + files[j].length
  BY <1>1 DEF TotalRun
<1> DEFINE good == {j \in 0..k : sp[j] = st[j]}
<1>8. 0 \in good
  BY <1>1, <1>6, <1>7
<1>9. ASSUME NEW j \in 0..(k - 1), j \in good PROVE j + 1 \in good
  <2>1. j + 1 \in 1..k /\ (j + 1) - 1 = j /\ j + 1 \in 0..k
    BY <1>1
  <2>2. sp[j + 1] = sp[j] + files[j + 1].length /\ st[j + 1] = st[j] + files[j + 1].length
    BY <1>6, <1>7, <2>1
  <2> QED
    BY <1>9, <2>1, <2>2
<1>10. \A j \in 0..k : j \in good
  <2> HIDE DEF good
  <2> QED
    BY <1>1, <1>8, <1>9, UpTo
<1>11. sp[k] = st[k]
  <2>1. k \in good
    BY <1>1, <1>10
  <2> QED
    BY <2>1
<1>12. TotalLength(part) = st[k]
  BY <1>6, <1>11
<1> QED
  BY <1>12, Zenon DEF part

\* Files are laid end to end, from the first byte to the last.
EndToEnd(laid, files) ==
    /\ Len(laid) = Len(files)
    /\ \A i \in 1..Len(files) :
          /\ laid[i].index = i - 1 /\ laid[i].length = files[i].length
          /\ laid[i].path = files[i].path
          /\ laid[i].offset \in Nat /\ laid[i].length \in Nat
          /\ laid[i].offset + laid[i].length <= TotalLength(files)
    /\ Len(files) > 0 => laid[1].offset = 0
    /\ \A i \in 1..(Len(files) - 1) : laid[i + 1].offset = laid[i].offset + laid[i].length
    /\ TotalLength(files) \in Nat

\* Laid files lie end to end, from the first byte on.
LEMMA LaidEndToEnd ==
    ASSUME NEW files, AreSized(files)
    PROVE  EndToEnd(Laid(files), files) /\ IsList(Laid(files))
<1> DEFINE n == Len(files)
           laid == Laid(files)
<1>1. n \in Nat /\ files \in Seq(ToSet(files)) /\ DOMAIN files = 1..n
  BY DEF AreSized, IsList
<1>2. PICK st \in [0..n -> Nat] : TotalRun(st, files)
  BY TotalSteps
<1>3. /\ st[0] = 0 /\ (\A k \in 1..n : st[k] = st[k - 1] + files[k].length)
      /\ TotalLength(files) = st[n]
  BY <1>2 DEF TotalRun
<1>4. \A k \in 0..n : TotalLength(SubSeq(files, 1, k)) = st[k]
  BY <1>2, TotalOfAPart
<1>5. \A i \in 1..n : files[i].length \in Nat
  BY <1>1 DEF AreSized, ToSet
<1>6. laid = [i \in 1..n |-> laid[i]] /\ DOMAIN laid = 1..n
  BY DEF Laid
<1>7. \A i \in 1..n : /\ laid[i].index = i - 1 /\ laid[i].length = files[i].length
                      /\ laid[i].path = files[i].path
                      /\ laid[i].offset = TotalLength(SubSeq(files, 1, i - 1))
  BY DEF Laid
<1> HIDE DEF laid
<1>8. Len(laid) = n /\ IsList(laid)
  BY <1>1, <1>6, AList
<1>9. \A i \in 1..n : laid[i].offset = st[i - 1] /\ i - 1 \in 0..n /\ i \in 0..n
  <2> TAKE i \in 1..n
  <2>1. i - 1 \in 0..n /\ i \in 0..n
    BY <1>1
  <2> QED
    BY <1>4, <1>7, <2>1
<1> DEFINE good == {k \in 0..n : \A i \in 0..k : st[i] <= st[k]}
<1>10. 0 \in good
  <2>1. \A i \in 0..0 : i = 0
    OBVIOUS
  <2> QED
    BY <1>1, <1>3, <2>1
<1>11. ASSUME NEW k \in 0..(n - 1), k \in good PROVE k + 1 \in good
  <2>1. k \in 0..n /\ k + 1 \in 1..n /\ (k + 1) - 1 = k /\ k + 1 \in 0..n
        /\ \A i \in 0..(k + 1) : i \in 0..n /\ (i \in 0..k \/ i = k + 1)
    BY <1>1
  <2>2. st[k + 1] = st[k] + files[k + 1].length /\ st[k] \in Nat /\ st[k + 1] \in Nat
        /\ files[k + 1].length \in Nat
    BY <1>3, <1>5, <2>1
  <2>3. \A i \in 0..k : st[i] <= st[k] /\ st[i] \in Nat
    BY <1>11, <2>1
  <2>4. \A i \in 0..(k + 1) : st[i] <= st[k + 1]
    <3> TAKE i \in 0..(k + 1)
    <3>1. CASE i \in 0..k
      <4>1. st[i] <= st[k] /\ st[i] \in Nat
        BY <2>3, <3>1
      <4> QED
        BY <2>2, <4>1
    <3>2. CASE i = k + 1
      BY <2>2, <3>2
    <3> QED
      BY <2>1, <3>1, <3>2
  <2> QED
    BY <2>1, <2>4
<1>12. \A i \in 0..n : st[i] <= st[n]
  <2>1. \A k \in 0..n : k \in good
    <3> HIDE DEF good, n
    <3> QED
      BY <1>1, <1>10, <1>11, UpTo
  <2> QED
    BY <1>1, <2>1
<1>13. \A i \in 1..n : /\ laid[i].offset \in Nat /\ laid[i].length \in Nat
                       /\ laid[i].offset + laid[i].length = st[i]
                       /\ st[i] <= TotalLength(files)
  BY <1>3, <1>5, <1>7, <1>9, <1>12
<1>14. n > 0 => laid[1].offset = 0
  <2> SUFFICES ASSUME n > 0 PROVE laid[1].offset = 0
    OBVIOUS
  <2>1. 1 \in 1..n /\ 1 - 1 = 0
    BY <1>1
  <2> QED
    BY <1>3, <1>9, <2>1
<1>15. \A i \in 1..(n - 1) : laid[i + 1].offset = laid[i].offset + laid[i].length
  <2> TAKE i \in 1..(n - 1)
  <2>1. i \in 1..n /\ i + 1 \in 1..n /\ (i + 1) - 1 = i
    BY <1>1
  <2> QED
    BY <1>9, <1>13, <2>1
<1>16. TotalLength(files) \in Nat
  BY <1>1, <1>3
<1>17. \A i \in 1..n : laid[i].offset + laid[i].length <= TotalLength(files)
  BY <1>13
<1>18. EndToEnd(laid, files)
  BY <1>7, <1>8, <1>13, <1>14, <1>15, <1>16, <1>17 DEF EndToEnd
<1> QED
  BY <1>8, <1>18 DEF laid

\* Every selection of files that are laid end to end has its ranges.
LEMMA SelectionsHaveRanges ==
    ASSUME NEW files, AreSized(files), NEW geometry, GeometrySound(geometry),
           geometry.pieceLength \in Int, geometry.totalLength = TotalLength(files),
           NEW s \in SUBSET {Laid(files)[i].index : i \in 1..Len(Laid(files))}
    PROVE  DesiredPieceRanges(Laid(files), s, geometry) # Invalid
<1> DEFINE laid == Laid(files)
           n == Len(files)
           ranges == DesiredPieceRanges(laid, s, geometry)
<1>1. EndToEnd(laid, files) /\ IsList(laid)
  BY LaidEndToEnd
<1> HIDE DEF laid
<1>2. /\ Len(laid) = n /\ DOMAIN laid = 1..n /\ geometry.totalLength \in Int
      /\ \A i \in 1..n : /\ laid[i].offset \in Nat /\ laid[i].length \in Nat
                         /\ laid[i].offset + laid[i].length <= geometry.totalLength
  BY <1>1 DEF EndToEnd, IsList
<1>3. \A f \in ToSet(laid) : /\ f.offset \in Nat /\ f.length \in Nat
                             /\ f.offset + f.length <= geometry.totalLength
  BY <1>2 DEF ToSet
<1>4. ArePlaced(laid, geometry)
  BY <1>1, <1>2, <1>3 DEF ArePlaced
<1>5. Answerable(laid, s, geometry)
  <2>1. \A f \in Wanted(laid, s) : f \in ToSet(laid)
    BY DEF Wanted
  <2>2. \A f \in Wanted(laid, s) : f.offset >= 0 /\ f.offset + f.length <= geometry.totalLength
    BY <1>3, <2>1
  <2>3. s \subseteq {laid[i].index : i \in 1..Len(laid)}
    BY DEF laid
  <2> QED
    BY <2>2, <2>3 DEF Answerable
<1>6. ranges = RangesFor(laid, s, geometry)
  BY <1>4, <1>5, RangesWanted
<1>7. AreThePieces(ranges, laid, s, geometry)
  BY <1>4, <1>5, <1>6, RangesForThePieces
<1> HIDE DEF ranges
<1>8. ranges \in Seq(Ranges)
  BY <1>7 DEF AreThePieces, Canonical
<1>9. Invalid[1].start = -1 /\ Len(Invalid) = 1
  BY DEF Invalid
<1>10. ranges # Invalid
  <2> SUFFICES ASSUME ranges = Invalid PROVE FALSE
    OBVIOUS
  <2>1. 1 \in 1..Len(ranges)
    BY <1>9
  <2>2. ranges[1] \in Ranges
    BY <1>8, <2>1
  <2>3. ranges[1].start \in Nat
    BY <2>2 DEF Ranges
  <2> QED
    BY <1>9, <2>3
<1> QED
  BY <1>10 DEF ranges, laid

(* ------------------------------ files in places ------------------------------ *)

IdOf(file) == PathIdentity(file.path)

\* Where the files are, and the directories they are in.
Places(files) == UNION {{IdOf(f)} \cup Above(IdOf(f)) : f \in ToSet(files)}

Trees(files) ==
    [sound : BOOLEAN, files : SUBSET Places(files), directories : SUBSET Places(files)]

NoFiles == [sound |-> TRUE, files |-> {}, directories |-> {}]

\* Whether a tree has room for a file.
Fits(tree, id) ==
    /\ tree.sound /\ id \notin tree.files \cup tree.directories
    /\ Above(id) \cap tree.files = {}

\* A file placed in a tree leaves a tree, sound when there was room for it.
LEMMA PlacedIsATree ==
    ASSUME NEW files, NEW f \in ToSet(files), NEW tree \in Trees(files)
    PROVE  /\ Placed(tree, f.path) \in Trees(files)
           /\ Placed(tree, f.path).sound <=> Fits(tree, IdOf(f))
           /\ Placed(tree, f.path).files = tree.files \cup {IdOf(f)}
           /\ Placed(tree, f.path).directories = tree.directories \cup Above(IdOf(f))
<1> DEFINE new == Placed(tree, f.path)
<1>1. /\ new = [sound |-> new.sound, files |-> new.files, directories |-> new.directories]
      /\ new.files = tree.files \cup {IdOf(f)}
      /\ new.directories = tree.directories \cup Above(IdOf(f))
  BY DEF Placed, IdOf
<1>2. new.sound = Fits(tree, IdOf(f))
  BY DEF Placed, IdOf, Fits
<1>3. new.sound \in BOOLEAN
  BY <1>2 DEF Fits
<1>4. {IdOf(f)} \cup Above(IdOf(f)) \subseteq Places(files)
  BY DEF Places
<1>5. tree.files \subseteq Places(files) /\ tree.directories \subseteq Places(files)
  BY DEF Trees
<1> HIDE DEF new
<1>6. new.files \in SUBSET Places(files) /\ new.directories \in SUBSET Places(files)
  BY <1>1, <1>4, <1>5
<1>7. new \in Trees(files)
  BY <1>1, <1>3, <1>6 DEF Trees
<1> QED
  BY <1>1, <1>2, <1>7 DEF new

\* Files are placed one by one.
TreeRun(st, files) ==
    /\ st[0] = NoFiles
    /\ \A k \in 1..Len(files) : st[k] = Placed(st[k - 1], files[k].path)
    /\ Tree(files) = st[Len(files)]

\* A tree grows file by file.
LEMMA TreeSteps ==
    ASSUME NEW files, IsList(files)
    PROVE  \E st \in [0..Len(files) -> Trees(files)] : TreeRun(st, files)
<1> DEFINE n == Len(files)
           T == Trees(files)
           base == NoFiles
           step == [p \in T \X (1..n) |-> Placed(p[1], files[p[2]].path)]
           IsFold(f) == f = [t \in SUBSET DOMAIN files |->
                           IF t = {} THEN base ELSE Placed(f[t \ {Max(t)}], files[Max(t)].path)]
           iter == CHOOSE f : IsFold(f)
<1>1. n \in Nat /\ base \in T /\ DOMAIN files = 1..n
  BY DEF IsList, NoFiles, Trees
<1>2. step \in [T \X (1..n) -> T]
  <2>1. \A i \in 1..n : files[i] \in ToSet(files)
    BY <1>1 DEF ToSet
  <2>2. \A i \in 1..n, tree \in T : Placed(tree, files[i].path) \in T
    BY <2>1, PlacedIsATree
  <2> QED
    BY <2>2
<1>3. \A a \in T, k \in 1..n : step[<<a, k>>] = Placed(a, files[k].path)
  OBVIOUS
<1>4. Tree(files) = iter[1..n]
  BY <1>1 DEF Tree, NoFiles, FoldLeft, MapThenFoldSet
<1> HIDE DEF T, n, step, base
<1>5. PICK f \in [SUBSET (1..n) -> T] :
         /\ GoesOn(f, base, T, step, n)
         /\ \A t \in SUBSET (1..n) : t # {} => Max(t) \in 1..n /\ f[t \ {Max(t)}] \in T
  BY <1>1, <1>2, FoldGoesOn
<1>6. IsFold(f)
  BY <1>1, <1>3, <1>5 DEF GoesOn
<1>7. IsFold(iter)
  <2> HIDE DEF IsFold
  <2> QED
    BY <1>6
<1> HIDE DEF iter
<1>8. GoesOn(iter, base, T, step, n)
  BY <1>1, <1>3, <1>5, <1>7, ZenonT(30) DEF GoesOn
<1>9. PICK st \in [0..n -> T] : Runs(st, base, T, step, n) /\ EndsWith(iter, st, n)
  <2> HIDE DEF IsFold
  <2>1. base \in T /\ n \in Nat
    BY <1>1
  <2> QED
    BY <1>2, <1>8, <2>1, StatesOfFold
<1> QED
  BY <1>3, <1>4, <1>9, ZenonT(30) DEF Runs, EndsWith, TreeRun, n, T, base

\* No two of the first k files are one, and none is a directory of another.
FilesApart(files, k) ==
    \A i, j \in 1..k :
        i # j => IdOf(files[i]) # IdOf(files[j]) /\ IdOf(files[i]) \notin Above(IdOf(files[j]))

\* The tree of the first k files.
TreeOf(tree, files, k) ==
    /\ \A id : id \in tree.files <=> \E i \in 1..k : id = IdOf(files[i])
    /\ \A id : id \in tree.directories <=> \E i \in 1..k : id \in Above(IdOf(files[i]))
    /\ tree.sound => FilesApart(files, k)

\* A tree of the files so far is one of them and the next one placed in it.
LEMMA OneFileMore ==
    ASSUME NEW files, IsList(files), NEW k \in Nat, k + 1 \in 1..Len(files),
           NEW tree \in Trees(files), TreeOf(tree, files, k)
    PROVE  TreeOf(Placed(tree, files[k + 1].path), files, k + 1)
<1> DEFINE f == files[k + 1]
           new == Placed(tree, f.path)
<1>1. f \in ToSet(files)
  BY DEF IsList, ToSet
<1>2. /\ new.sound <=> Fits(tree, IdOf(f))
      /\ new.files = tree.files \cup {IdOf(f)}
      /\ new.directories = tree.directories \cup Above(IdOf(f))
  BY <1>1, PlacedIsATree
<1> HIDE DEF new
<1>3. /\ \A id : id \in tree.files <=> \E i \in 1..k : id = IdOf(files[i])
      /\ \A id : id \in tree.directories <=> \E i \in 1..k : id \in Above(IdOf(files[i]))
      /\ tree.sound => FilesApart(files, k)
  BY DEF TreeOf
<1>4. \A i : i \in 1..(k + 1) <=> i \in 1..k \/ i = k + 1
  OBVIOUS
<1>5. \A id : id \in new.files <=> \E i \in 1..(k + 1) : id = IdOf(files[i])
  BY <1>2, <1>3, <1>4, Zenon DEF f
<1>6. \A id : id \in new.directories <=> \E i \in 1..(k + 1) : id \in Above(IdOf(files[i]))
  BY <1>2, <1>3, <1>4, Zenon DEF f
<1>7. ASSUME new.sound PROVE FilesApart(files, k + 1)
  <2>1. /\ FilesApart(files, k)
        /\ \A i \in 1..k : /\ IdOf(f) # IdOf(files[i]) /\ IdOf(f) \notin Above(IdOf(files[i]))
                           /\ IdOf(files[i]) \notin Above(IdOf(f))
    BY <1>2, <1>3, <1>7 DEF Fits
  <2> SUFFICES ASSUME NEW i \in 1..(k + 1), NEW j \in 1..(k + 1), i # j
               PROVE  /\ IdOf(files[i]) # IdOf(files[j])
                      /\ IdOf(files[i]) \notin Above(IdOf(files[j]))
    BY DEF FilesApart
  <2>2. CASE i \in 1..k /\ j \in 1..k
    BY <2>1, <2>2 DEF FilesApart
  <2>3. CASE i = k + 1 /\ j \in 1..k
    BY <2>1, <2>3 DEF f
  <2>4. CASE i \in 1..k /\ j = k + 1
    BY <2>1, <2>4 DEF f
  <2> QED
    BY <1>4, <2>2, <2>3, <2>4
<1> QED
  BY <1>5, <1>6, <1>7 DEF TreeOf, new, f

\* Files that could all be placed are apart.
LEMMA PlacedFilesAreApart ==
    ASSUME NEW files, IsList(files), Tree(files).sound
    PROVE  FilesApart(files, Len(files))
<1> DEFINE n == Len(files)
<1>1. PICK st \in [0..n -> Trees(files)] : TreeRun(st, files)
  BY TreeSteps
<1>2. /\ st[0] = NoFiles /\ \A k \in 1..n : st[k] = Placed(st[k - 1], files[k].path)
      /\ Tree(files) = st[n]
  BY <1>1 DEF TreeRun
<1> DEFINE good == {k \in 0..n : TreeOf(st[k], files, k)}
<1>3. n \in Nat
  BY DEF IsList
<1>4. 0 \in good
  <2>1. 1..0 = {} /\ NoFiles.files = {} /\ NoFiles.directories = {}
    BY DEF NoFiles
  <2>2. TreeOf(NoFiles, files, 0)
    BY <2>1 DEF TreeOf, FilesApart
  <2> QED
    BY <1>2, <1>3, <2>2
<1>5. ASSUME NEW k \in 0..(n - 1), k \in good PROVE k + 1 \in good
  <2>1. k \in 0..n /\ k \in Nat /\ k + 1 \in 1..n /\ k + 1 \in 0..n /\ (k + 1) - 1 = k
        /\ st[k] \in Trees(files)
    BY <1>3
  <2>2. TreeOf(st[k], files, k)
    BY <1>5
  <2>3. TreeOf(Placed(st[k], files[k + 1].path), files, k + 1)
    BY <2>1, <2>2, OneFileMore
  <2> QED
    BY <1>2, <2>1, <2>3
<1>6. n \in good
  <2>1. \A k \in 0..n : k \in good
    <3> HIDE DEF good, n
    <3> QED
      BY <1>3, <1>4, <1>5, UpTo
  <2> QED
    BY <1>3, <2>1
<1>7. TreeOf(Tree(files), files, n)
  BY <1>2, <1>6
<1> QED
  BY <1>7 DEF TreeOf

\* Files apart are not below one another.
LEMMA ApartIsNotBelow ==
    ASSUME NEW a, IsList(a), Len(a) > 0, NEW b, IsList(b), a # b, a \notin Above(b)
    PROVE  ~IsPrefix(a, b)
<1> SUFFICES ASSUME IsPrefix(a, b) PROVE FALSE
  OBVIOUS
<1>1. /\ Len(a) \in Nat /\ Len(b) \in Nat /\ a \in Seq(ToSet(a)) /\ b \in Seq(ToSet(b))
      /\ Len(a) <= Len(b) /\ SubSeq(a, 1, Len(a)) = SubSeq(b, 1, Len(a))
  BY DEF IsList, IsPrefix
<1>2. SubSeq(a, 1, Len(a)) = a /\ SubSeq(b, 1, Len(b)) = b
  BY <1>1
<1>3. CASE Len(a) = Len(b)
  BY <1>1, <1>2, <1>3
<1>4. CASE Len(a) # Len(b)
  <2>1. Len(a) \in 1..(Len(b) - 1)
    BY <1>1, <1>4
  <2>2. a = SubSeq(b, 1, Len(a))
    BY <1>1, <1>2
  <2> QED
    BY <2>1, <2>2, ZenonT(30) DEF Above
<1> QED
  BY <1>3, <1>4

\* No file of a manifest is where another or a directory of another is.
LEMMA ManifestIsPlaced ==
    ASSUME NEW files, IsList(files), Tree(files).sound,
           \A i \in 1..Len(files) : IsList(files[i].path) /\ Len(files[i].path) > 0
    PROVE  \A i, j \in 1..Len(files) :
              i # j => ~IsPrefix(PathIdentity(files[i].path), PathIdentity(files[j].path))
<1>1. FilesApart(files, Len(files))
  BY PlacedFilesAreApart
<1>2. ASSUME NEW i \in 1..Len(files)
      PROVE  IsList(IdOf(files[i])) /\ Len(IdOf(files[i])) > 0
  <2> DEFINE path == files[i].path
             id == IdOf(files[i])
  <2>1. Len(path) \in Nat /\ Len(path) > 0
    BY DEF IsList
  <2>2. id = [k \in 1..Len(path) |-> Identity[path[k]]]
    BY DEF IdOf, PathIdentity
  <2>3. id = [k \in 1..Len(path) |-> id[k]]
    BY <2>2
  <2> HIDE DEF id
  <2>4. IsList(id) /\ Len(id) = Len(path)
    BY <2>1, <2>3, AList
  <2> QED
    BY <2>1, <2>4 DEF id
<1> SUFFICES ASSUME NEW i \in 1..Len(files), NEW j \in 1..Len(files), i # j
             PROVE  ~IsPrefix(IdOf(files[i]), IdOf(files[j]))
  BY DEF IdOf
<1>3. IdOf(files[i]) # IdOf(files[j]) /\ IdOf(files[i]) \notin Above(IdOf(files[j]))
  BY <1>1 DEF FilesApart
<1> QED
  BY <1>2, <1>3, ApartIsNotBelow

(* -------------------------------- torrents ----------------------------------- *)

\* The value of a key that is there.
LEMMA OnlyIsOfTheField ==
    ASSUME NEW field, field # {}
    PROVE  Only(field) \in field
BY DEF Only

\* Two lists of which one is there, whichever counts.
LEMMA PreferredIsAList ==
    ASSUME NEW regular, NEW utf8, Agree(regular, utf8),
           \A path \in regular \cup utf8 : IsList(path)
    PROVE  IsList(Preferred(regular, utf8))
<1>1. utf8 # {} => Only(utf8) \in utf8
  BY OnlyIsOfTheField
<1>2. utf8 = {} => Only(regular) \in regular
  BY OnlyIsOfTheField DEF Agree
<1> QED
  BY <1>1, <1>2 DEF Preferred

\* Two paths behind one another are a path.
LEMMA JoinedPaths ==
    ASSUME NEW a, IsList(a), NEW b, IsList(b)
    PROVE  IsList(a \o b)
<1> DEFINE s == a \o b
           S == ToSet(a) \cup ToSet(b)
<1>1. a \in Seq(S) /\ b \in Seq(S)
  BY DEF IsList
<1>2. s \in Seq(S)
  BY <1>1
<1> HIDE DEF s
<1>3. s = [i \in 1..Len(s) |-> s[i]] /\ Len(s) \in Nat
  BY <1>2
<1>4. IsList(s)
  BY <1>3, AList
<1> QED
  BY <1>4 DEF s

\* What is known of a manifest that is let through.
IsManifest(files) ==
    /\ AreSized(files) /\ Tree(files).sound
    /\ \A i \in 1..Len(files) : IsList(files[i].path) /\ Len(files[i].path) > 0

\* The files of an info dictionary, before anything is asked of them.
RawFiles(info) ==
    LET name == Preferred(info.name, info.nameUtf8)
        raw == Only(info.files)
    IN  IF info.files = {}
        THEN <<[length |-> Only(info.length), path |-> name]>>
        ELSE [i \in 1..Len(raw) |->
                [length |-> raw[i].length,
                 path |-> name \o Preferred(raw[i].path, raw[i].pathUtf8)]]

\* The files a torrent is let through with have paths, lengths and places:
\* extractManifest.
LEMMA ManifestIsSound ==
    ASSUME NEW root, NEW info, IsTorrentFile(root, info), Manifest(info) # <<>>
    PROVE  IsManifest(Manifest(info))
<1> DEFINE files == RawFiles(info)
           n == Len(files)
           name == Preferred(info.name, info.nameUtf8)
           raw == Only(info.files)
<1>1. /\ Manifest(info) = files
      /\ Agree(info.name, info.nameUtf8)
      /\ (info.files = {}) # (info.length = {})
      /\ \A list \in info.files : \A i \in 1..Len(list) : Agree(list[i].path, list[i].pathUtf8)
      /\ \A i \in 1..n : files[i].length >= 0 /\ PathSound(files[i].path)
      /\ Tree(files).sound
  BY DEF Manifest, RawFiles
<1>2. IsList(name)
  BY <1>1, PreferredIsAList DEF IsTorrentFile
<1> HIDE DEF name
<1>3. /\ IsList(files)
      /\ \A i \in 1..n : files[i].length \in Int /\ IsList(files[i].path)
  <2>1. CASE info.files = {}
    <3> DEFINE length == Only(info.length)
    <3>1. length \in Int
      BY <1>1, <2>1, OnlyIsOfTheField DEF IsTorrentFile
    <3> HIDE DEF length
    <3>2. files = <<[length |-> length, path |-> name]>>
      BY <2>1 DEF RawFiles, length, name
    <3>3. n = 1 /\ files[1].length = length /\ files[1].path = name /\ \A i \in 1..n : i = 1
      BY <3>2
    <3>4. files = [i \in 1..1 |-> files[i]]
      BY <3>2
    <3>5. IsList(files)
      BY <3>4, AList
    <3> QED
      BY <1>2, <3>1, <3>3, <3>5
  <2>2. CASE info.files # {}
    <3> DEFINE m == Len(raw)
               tail(i) == Preferred(raw[i].path, raw[i].pathUtf8)
    <3>1. /\ raw \in info.files /\ IsList(raw)
          /\ \A f \in ToSet(raw) :
                f.length \in Int /\ \A path \in f.path \cup f.pathUtf8 : IsList(path)
      BY <2>2, OnlyIsOfTheField DEF IsTorrentFile
    <3> HIDE DEF raw
    <3>2. m \in Nat /\ \A i \in 1..m : raw[i] \in ToSet(raw)
      BY <3>1 DEF IsList, ToSet
    <3>3. \A i \in 1..m : IsList(tail(i))
      <4> TAKE i \in 1..m
      <4>1. Agree(raw[i].path, raw[i].pathUtf8)
        BY <1>1, <3>1
      <4>2. \A path \in raw[i].path \cup raw[i].pathUtf8 : IsList(path)
        BY <3>1, <3>2
      <4> QED
        BY <4>1, <4>2, PreferredIsAList
    <3>4. files = [i \in 1..m |-> [length |-> raw[i].length, path |-> name \o tail(i)]]
      BY <2>2 DEF RawFiles, name, raw
    <3> HIDE DEF tail
    <3>5. files = [i \in 1..m |-> files[i]]
          /\ \A i \in 1..m : files[i].length = raw[i].length /\ files[i].path = name \o tail(i)
      BY <3>4
    <3>6. IsList(files) /\ n = m
      <4> HIDE DEF files
      <4> QED
        BY <3>2, <3>5, AList
    <3>7. \A i \in 1..n : files[i].length \in Int
      BY <3>1, <3>2, <3>5, <3>6
    <3>8. \A i \in 1..m : IsList(name \o tail(i))
      BY <1>2, <3>3, JoinedPaths
    <3>9. \A i \in 1..n : IsList(files[i].path)
      BY <3>5, <3>6, <3>8
    <3> QED
      BY <3>6, <3>7, <3>9
  <2> QED
    BY <2>1, <2>2
<1> HIDE DEF files
<1>4. AreSized(files)
  <2>1. DOMAIN files = 1..n
    BY <1>3 DEF IsList
  <2> QED
    BY <1>1, <1>3, <2>1 DEF AreSized, ToSet
<1>5. \A i \in 1..n : IsList(files[i].path) /\ Len(files[i].path) > 0
  <2> TAKE i \in 1..n
  <2>1. IsList(files[i].path) /\ PathSound(files[i].path)
    BY <1>1, <1>3
  <2>2. Len(files[i].path) \in 1..MaxPathSegments
    BY <2>1 DEF PathSound
  <2> QED
    BY <2>1, <2>2
<1> QED
  BY <1>1, <1>4, <1>5, SMTT(30) DEF IsManifest

\* The tiers as they are written are lists.
LEMMA RawTiersAreLists ==
    ASSUME NEW root, NEW info, IsTorrentFile(root, info)
    PROVE  IsList(RawTiers(root)) /\ \A tier \in ToSet(RawTiers(root)) : IsList(tier)
<1>1. IsList(<<>>) /\ ToSet(<<>>) = {}
  BY DEF IsList, ToSet
<1>2. ASSUME NEW x PROVE IsList(<<x>>) /\ ToSet(<<x>>) = {x}
  <2> DEFINE s == <<x>>
  <2>1. s = [i \in 1..1 |-> s[i]] /\ s[1] = x /\ DOMAIN s = 1..1
    OBVIOUS
  <2> HIDE DEF s
  <2>2. IsList(s)
    BY <2>1, AList
  <2>3. ToSet(s) = {x}
    BY <2>1 DEF ToSet
  <2> QED
    BY <2>2, <2>3 DEF s
<1> DEFINE announce == Only(root.announce)
<1> HIDE DEF announce
<1>3. \/ RawTiers(root) = <<>>
      \/ RawTiers(root) = <<<<announce>>>>
      \/ RawTiers(root) \in root.tiers
  <2>1. root.tiers # {} => Only(root.tiers) \in root.tiers
    BY OnlyIsOfTheField
  <2> QED
    BY <2>1 DEF RawTiers, announce
<1>4. \A tiers \in root.tiers : IsList(tiers) /\ \A tier \in ToSet(tiers) : IsList(tier)
  BY DEF IsTorrentFile
<1> DEFINE one == <<announce>>
<1>5. IsList(one)
  BY <1>2
<1> HIDE DEF one
<1>6. IsList(<<one>>) /\ ToSet(<<one>>) = {one}
  BY <1>2
<1>7. RawTiers(root) = <<>> \/ RawTiers(root) = <<one>> \/ RawTiers(root) \in root.tiers
  BY <1>3 DEF one
<1> QED
  BY <1>1, <1>4, <1>5, <1>6, <1>7

\* A torrent that is let through is of a sound manifest and sound tiers.
LEMMA WhatIsValidated ==
    ASSUME NEW root, NEW info, IsTorrentFile(root, info), Validated(root, info).code = "OK"
    PROVE  LET torrent == Validated(root, info)
               files == Manifest(info)
           IN  /\ files # <<>> /\ torrent.files = Laid(files)
               /\ torrent.length = TotalLength(files)
               /\ torrent.pieceLength \in 1..MaxPieceLength
               /\ torrent.pieceCount = Ceil(torrent.length, torrent.pieceLength)
               /\ torrent.tiers = ValidTiers(RawTiers(root))
               /\ torrent.private => info.private = {1}
               /\ ~NeedsTracker(info, torrent.tiers)
<1> DEFINE torrent == Validated(root, info)
           files == Manifest(info)
           length == TotalLength(files)
           tiers == ValidTiers(RawTiers(root))
           refused == \/ root.v2
                      \/ ~TiersSound(RawTiers(root))
                      \/ Len(root.seeds) > MaxSeeds
                      \/ ~(info.private \subseteq {0, 1})
                      \/ files = <<>>
                      \/ info.pieceLength \notin 1..MaxPieceLength
                      \/ info.pieces # Ceil(length, info.pieceLength)
                      \/ info.pieces > MaxPieces
           ok == [code |-> "OK", files |-> Laid(files), tiers |-> tiers,
                  seeds |-> ValidSeeds(root.seeds), private |-> info.private = {1},
                  length |-> length, pieceCount |-> info.pieces,
                  pieceLength |-> info.pieceLength]
<1>1. torrent = IF refused THEN Rejects("REFUSED")
                ELSE IF NeedsTracker(info, tiers) THEN Rejects("PRIVATE_TRACKER_REQUIRED")
                ELSE ok
  BY DEF Validated
<1>2. Rejects("REFUSED").code = "REFUSED"
      /\ Rejects("PRIVATE_TRACKER_REQUIRED").code = "PRIVATE_TRACKER_REQUIRED"
  BY DEF Rejects
<1>3. ~refused /\ ~NeedsTracker(info, tiers) /\ torrent = ok
  <2> HIDE DEF refused, ok, tiers
  <2> QED
    BY <1>1, <1>2
<1>4. /\ files # <<>> /\ info.pieceLength \in 1..MaxPieceLength
      /\ info.pieces = Ceil(length, info.pieceLength)
  BY <1>3
<1>5. /\ ok.files = Laid(files) /\ ok.tiers = tiers /\ ok.length = length
      /\ ok.pieceCount = info.pieces /\ ok.pieceLength = info.pieceLength
      /\ ok.private <=> info.private = {1}
  OBVIOUS
<1> HIDE DEF torrent, ok, files, tiers, length
<1>6. /\ files # <<>> /\ torrent.files = Laid(files)
      /\ torrent.length = length
      /\ torrent.pieceLength \in 1..MaxPieceLength
      /\ torrent.pieceCount = Ceil(torrent.length, torrent.pieceLength)
      /\ torrent.tiers = tiers
      /\ torrent.private => info.private = {1}
      /\ ~NeedsTracker(info, torrent.tiers)
  BY <1>3, <1>4, <1>5
<1> QED
  BY <1>6 DEF torrent, files, tiers, length

\* A torrent that is let through can be stored, reached and selected from.
LEMMA TorrentsAreUsable ==
    ASSUME NEW root, NEW info, IsTorrentFile(root, info)
    PROVE  MetadataIsUsable(root, info)
<1> DEFINE torrent == Validated(root, info)
           files == Manifest(info)
           n == Len(files)
           laid == torrent.files
           tiers == torrent.tiers
           geometry == [pieceLength |-> torrent.pieceLength, pieceCount |-> torrent.pieceCount,
                        totalLength |-> torrent.length]
<1> SUFFICES ASSUME torrent.code = "OK"
             PROVE  /\ \A i, j \in 1..Len(laid) :
                          i # j => ~IsPrefix(PathIdentity(laid[i].path), PathIdentity(laid[j].path))
                    /\ laid[1].offset = 0
                    /\ \A i \in 1..(Len(laid) - 1) :
                          laid[i + 1].offset = laid[i].offset + laid[i].length
                    /\ \A s \in SUBSET {laid[i].index : i \in 1..Len(laid)} :
                          DesiredPieceRanges(laid, s, geometry) # Invalid
                    /\ \A i, j \in 1..Len(tiers) : \A k \in 1..Len(tiers[i]), l \in 1..Len(tiers[j]) :
                          tiers[i][k] = tiers[j][l] => i = j /\ k = l
                    /\ \A i \in 1..Len(tiers) : tiers[i] # <<>>
                    /\ torrent.private =>
                          \E i \in 1..Len(tiers) : \E url \in ToSet(tiers[i]) : Announceable(url)
  BY DEF MetadataIsUsable
<1>1. /\ files # <<>> /\ laid = Laid(files)
      /\ torrent.length = TotalLength(files)
      /\ torrent.pieceLength \in 1..MaxPieceLength
      /\ torrent.pieceCount = Ceil(torrent.length, torrent.pieceLength)
      /\ tiers = ValidTiers(RawTiers(root))
      /\ torrent.private => info.private = {1}
      /\ ~NeedsTracker(info, tiers)
  BY WhatIsValidated
<1>2. IsManifest(files)
  BY <1>1, ManifestIsSound
<1> HIDE DEF files, torrent
<1>3. n \in Nat /\ n > 0 /\ IsList(files)
  BY <1>1, <1>2 DEF IsManifest, AreSized, IsList
<1>4. EndToEnd(laid, files)
  BY <1>1, <1>2, LaidEndToEnd DEF IsManifest
<1>5. Len(laid) = n /\ laid[1].offset = 0
  BY <1>3, <1>4 DEF EndToEnd
<1>6. \A i \in 1..(Len(laid) - 1) : laid[i + 1].offset = laid[i].offset + laid[i].length
  BY <1>4, <1>5 DEF EndToEnd
<1>7. \A i, j \in 1..Len(laid) :
         i # j => ~IsPrefix(PathIdentity(laid[i].path), PathIdentity(laid[j].path))
  <2>1. \A i, j \in 1..n :
           i # j => ~IsPrefix(PathIdentity(files[i].path), PathIdentity(files[j].path))
    BY <1>2, <1>3, ManifestIsPlaced DEF IsManifest
  <2>2. \A i \in 1..n : laid[i].path = files[i].path
    BY <1>4 DEF EndToEnd
  <2> QED
    BY <1>5, <2>1, <2>2
<1>8. ASSUME NEW s \in SUBSET {laid[i].index : i \in 1..Len(laid)}
      PROVE  DesiredPieceRanges(laid, s, geometry) # Invalid
  <2>1. /\ geometry.pieceLength = torrent.pieceLength /\ geometry.pieceCount = torrent.pieceCount
        /\ geometry.totalLength = torrent.length
    OBVIOUS
  <2> HIDE DEF geometry
  <2>2. /\ geometry.pieceLength \in Int /\ geometry.pieceLength >= 1
        /\ geometry.totalLength = TotalLength(files) /\ geometry.totalLength >= 0
    BY <1>1, <1>4, <2>1 DEF EndToEnd
  <2>3. GeometrySound(geometry)
    BY <1>1, <2>1, <2>2 DEF GeometrySound
  <2>4. s \in SUBSET {Laid(files)[i].index : i \in 1..Len(Laid(files))}
    BY <1>1
  <2>5. AreSized(files)
    BY <1>2 DEF IsManifest
  <2> HIDE DEF laid
  <2>6. DesiredPieceRanges(Laid(files), s, geometry) # Invalid
    BY <2>2, <2>3, <2>4, <2>5, SelectionsHaveRanges
  <2> QED
    BY <1>1, <2>6
<1>9. TiersAreSound(tiers)
  BY <1>1, RawTiersAreLists, ValidTiersAreSound
<1>10. \A i \in 1..Len(tiers) : tiers[i] \in Seq(UNION {ToSet(t) : t \in ToSet(RawTiers(root))})
  BY <1>1, RawTiersAreLists, ValidTiersAreSound
<1>11. ASSUME NEW i \in 1..Len(tiers), NEW j \in 1..Len(tiers),
              NEW k \in 1..Len(tiers[i]), NEW l \in 1..Len(tiers[j]), tiers[i][k] = tiers[j][l]
       PROVE  i = j /\ k = l
  <2>1. \A m \in 1..Len(tiers) : DOMAIN tiers[m] = 1..Len(tiers[m])
    BY <1>10
  <2>2. tiers[i][k] \in ToSet(tiers[i]) /\ tiers[i][k] \in ToSet(tiers[j])
    BY <1>11, <2>1 DEF ToSet
  <2>3. i = j
    BY <1>9, <2>2 DEF TiersAreSound
  <2> QED
    BY <1>9, <1>11, <2>3 DEF TiersAreSound, NoneTwice
<1>12. \A i \in 1..Len(tiers) : tiers[i] # <<>>
  BY <1>9 DEF TiersAreSound
<1>13. torrent.private =>
          \E i \in 1..Len(tiers) : \E url \in ToSet(tiers[i]) : Announceable(url)
  BY <1>1 DEF NeedsTracker
<1> HIDE DEF laid, tiers, geometry
<1> QED
  BY <1>5, <1>6, <1>7, <1>8, <1>11, <1>12, <1>13, Zenon

(* --------------------------------- magnets ----------------------------------- *)

\* The values of a key are those of its parameters.
LEMMA ValuesAre ==
    ASSUME NEW parameters, IsList(parameters), NEW key
    PROVE  /\ IsList(ValuesOf(parameters, key))
           /\ \A v : v \in ToSet(ValuesOf(parameters, key)) <=>
                 \E p \in ToSet(parameters) : p.key = key /\ v = p.value
<1> DEFINE W == {p \in ToSet(parameters) : p.key = key}
           these == Kept(parameters, W)
           values == ValuesOf(parameters, key)
           n == Len(these)
<1>1. these \in Seq(ToSet(parameters)) /\ ToSet(these) = W
  <2>1. ToSet(parameters) \cap W = W
    OBVIOUS
  <2>2. parameters \in Seq(ToSet(parameters))
    BY DEF IsList
  <2> HIDE DEF W
  <2> QED
    BY <2>1, <2>2, KeptIsOfTheList
<1>2. values = [i \in 1..n |-> these[i].value]
  BY DEF ValuesOf
<1> HIDE DEF these, values, W
<1>3. n \in Nat /\ DOMAIN these = 1..n
  BY <1>1
<1>4. /\ values = [i \in 1..n |-> values[i]] /\ DOMAIN values = 1..n
      /\ \A i \in 1..n : values[i] = these[i].value
  BY <1>2
<1>5. IsList(values)
  BY <1>3, <1>4, AList
<1>6. \A p : p \in W <=> \E i \in 1..n : p = these[i]
  BY <1>1, <1>3 DEF ToSet
<1>7. \A v : v \in ToSet(values) <=> \E i \in 1..n : v = these[i].value
  BY <1>4 DEF ToSet
<1>8. \A p : p \in W <=> p \in ToSet(parameters) /\ p.key = key
  BY DEF W
<1>9. \A v : v \in ToSet(values) <=> \E p \in ToSet(parameters) : p.key = key /\ v = p.value
  <2> TAKE v
  <2>1. ASSUME v \in ToSet(values)
        PROVE  \E p \in ToSet(parameters) : p.key = key /\ v = p.value
    <3>1. PICK i \in 1..n : v = these[i].value
      BY <1>7, <2>1
    <3>2. these[i] \in W
      BY <1>6
    <3>3. these[i] \in ToSet(parameters) /\ these[i].key = key
      BY <1>8, <3>2
    <3> QED
      BY <3>1, <3>3
  <2>2. ASSUME NEW p \in ToSet(parameters), p.key = key, v = p.value
        PROVE  v \in ToSet(values)
    <3>1. p \in W
      BY <1>8, <2>2
    <3>2. PICK i \in 1..n : p = these[i]
      BY <1>6, <3>1
    <3> QED
      BY <1>7, <2>2, <3>2
  <2> QED
    BY <2>1, <2>2
<1> QED
  BY <1>5, <1>9 DEF values

\* One value of a key is one parameter's.
LEMMA OneOfAKey ==
    ASSUME NEW parameters, IsList(parameters), NEW key, Len(ValuesOf(parameters, key)) = 1
    PROVE  Cardinality({i \in 1..Len(parameters) : parameters[i].key = key}) = 1
<1> DEFINE W == {p \in ToSet(parameters) : p.key = key}
           these == Kept(parameters, W)
           places == {i \in 1..Len(parameters) : parameters[i].key = key}
<1>1. these \in Seq(ToSet(parameters)) /\ \E e : Picks(e, these, parameters, W, Len(parameters))
  BY KeptPicks DEF IsList
<1>2. Len(these) = 1
  <2>1. ValuesOf(parameters, key) = [i \in 1..Len(these) |-> these[i].value]
    BY DEF ValuesOf
  <2> HIDE DEF these
  <2>2. Len(these) \in Nat
    BY <1>1
  <2> QED
    BY <2>1, <2>2
<1>3. \A i \in 1..Len(parameters) : parameters[i] \in W <=> parameters[i].key = key
  BY DEF IsList, ToSet
<1> HIDE DEF these, W
<1>4. PICK e : Picks(e, these, parameters, W, Len(parameters))
  BY <1>1
<1>5. /\ e[1] \in 1..Len(parameters) /\ parameters[e[1]] \in W
      /\ \A k \in 1..Len(parameters) : parameters[k] \in W => e[1] = k
  BY <1>2, <1>4 DEF Picks
<1>6. places = {e[1]}
  BY <1>3, <1>5
<1> QED
  BY <1>6, FS_Singleton

\* The trackers of a magnet are the known ones of its parameters.
LEMMA TrackersOfAMagnet ==
    ASSUME NEW urls, IsList(urls)
    PROVE  LET tiers == ValidTiers(<<urls>>)
               flat == IF tiers = <<>> THEN <<>> ELSE tiers[1]
           IN  /\ IsList(flat)
               /\ \A url : url \in ToSet(flat) <=> url \in ToSet(urls) /\ KnownTracker(url)
<1> DEFINE added == NewTrackers(<<>>, urls)
           tiers == ValidTiers(<<urls>>)
           flat == IF tiers = <<>> THEN <<>> ELSE tiers[1]
<1>1. tiers = IF added = <<>> THEN <<>> ELSE Append(<<>>, added)
  BY TiersOfOne DEF WithTier
<1>2. /\ added \in Seq(ToSet(urls))
      /\ \A url : url \in ToSet(added) <=>
            /\ url \in ToSet(urls) /\ KnownTracker(url)
            /\ \A i \in 1..Len(<<>>) : url \notin ToSet(<<>>[i])
  BY AddedAreNew
<1>3. \A url : url \in ToSet(added) <=> url \in ToSet(urls) /\ KnownTracker(url)
  <2>1. 1..Len(<<>>) = {}
    OBVIOUS
  <2> HIDE DEF added
  <2> QED
    BY <1>2, <2>1
<1> HIDE DEF added, tiers
<1>4. flat = added
  <2>1. CASE added = <<>>
    BY <1>1, <2>1
  <2>2. CASE added # <<>>
    <3>1. tiers = <<added>>
      BY <1>1, <2>2
    <3>2. tiers[1] = added /\ Len(tiers) = 1
      BY <3>1
    <3>3. tiers # <<>>
      BY <3>2
    <3> QED
      BY <3>2, <3>3
  <2> QED
    BY <2>1, <2>2
<1>5. IsList(added)
  <2>1. added = [i \in 1..Len(added) |-> added[i]] /\ Len(added) \in Nat
    BY <1>2
  <2> QED
    BY <2>1, AList
<1> HIDE DEF flat
<1>6. IsList(flat) /\ \A url : url \in ToSet(flat) <=> url \in ToSet(urls) /\ KnownTracker(url)
  BY <1>3, <1>4, <1>5
<1> QED
  BY <1>6 DEF flat, tiers

\* Ranges of files, none of them empty.
AreTerms(terms) ==
    /\ IsList(terms)
    /\ \A t \in ToSet(terms) : t[1] \in Nat /\ t[2] \in Nat /\ t[1] <= t[2]

\* The files of a range, in their order.
FilesOf(term) == [i \in 1..(term[2] - term[1] + 1) |-> term[1] + i - 1]

\* The files of a range are the numbers from its first to its last.
LEMMA FilesOfARange ==
    ASSUME NEW t, t[1] \in Nat, t[2] \in Nat, t[1] <= t[2]
    PROVE  FilesOf(t) \in Seq(Nat) /\ \A x : x \in ToSet(FilesOf(t)) <=> x \in t[1]..t[2]
<1> DEFINE a == t[1]
           n == t[2] - t[1] + 1
           s == FilesOf(t)
<1>1. a \in Nat /\ n \in Nat /\ t[2] = a + n - 1 /\ n > 0
  OBVIOUS
<1>2. s = [i \in 1..n |-> a + i - 1]
  BY DEF FilesOf
<1> HIDE DEF s, a, n
<1>3. s \in Seq(Nat) /\ DOMAIN s = 1..n
  BY <1>1, <1>2
<1>4. \A x : x \in ToSet(s) <=> \E i \in 1..n : x = a + i - 1
  BY <1>2, <1>3 DEF ToSet
<1>5. \A x : (\E i \in 1..n : x = a + i - 1) <=> x \in a..(a + n - 1)
  <2>1. ASSUME NEW x \in a..(a + n - 1) PROVE \E i \in 1..n : x = a + i - 1
    <3>1. x - a + 1 \in 1..n /\ x = a + (x - a + 1) - 1
      BY <1>1
    <3> QED
      BY <3>1
  <2>2. ASSUME NEW i \in 1..n PROVE a + i - 1 \in a..(a + n - 1)
    BY <1>1
  <2> QED
    BY <2>1, <2>2
<1> QED
  BY <1>1, <1>3, <1>4, <1>5 DEF s, a

\* Ranges are named one by one.
NamedRun(st, terms) ==
    /\ st[0] = <<>>
    /\ \A k \in 1..Len(terms) : st[k] = st[k - 1] \o FilesOf(terms[k])
    /\ NamedFiles(terms) = st[Len(terms)]

\* Naming goes through such states.
LEMMA NamedSteps ==
    ASSUME NEW terms, AreTerms(terms)
    PROVE  \E st \in [0..Len(terms) -> Seq(Nat)] : NamedRun(st, terms)
<1> DEFINE n == Len(terms)
           T == Seq(Nat)
           base == <<>>
           step == [p \in T \X (1..n) |-> p[1] \o FilesOf(terms[p[2]])]
           IsFold(f) == f = [t \in SUBSET DOMAIN terms |->
                           IF t = {} THEN base ELSE f[t \ {Max(t)}] \o FilesOf(terms[Max(t)])]
           iter == CHOOSE f : IsFold(f)
<1>1. n \in Nat /\ base \in T /\ DOMAIN terms = 1..n
  BY DEF AreTerms, IsList
<1>2. step \in [T \X (1..n) -> T]
  <2>1. \A i \in 1..n : FilesOf(terms[i]) \in Seq(Nat)
    <3> TAKE i \in 1..n
    <3>1. terms[i] \in ToSet(terms)
      BY <1>1 DEF ToSet
    <3> QED
      BY <3>1, FilesOfARange DEF AreTerms
  <2>2. \A a, b \in Seq(Nat) : a \o b \in Seq(Nat)
    OBVIOUS
  <2> QED
    BY <2>1, <2>2
<1>3. \A a \in T, k \in 1..n : step[<<a, k>>] = a \o FilesOf(terms[k])
  OBVIOUS
<1>4. NamedFiles(terms) = iter[1..n]
  BY <1>1 DEF NamedFiles, FilesOf, FoldLeft, MapThenFoldSet
<1> HIDE DEF T, n, step, base
<1>5. PICK f \in [SUBSET (1..n) -> T] :
         /\ GoesOn(f, base, T, step, n)
         /\ \A t \in SUBSET (1..n) : t # {} => Max(t) \in 1..n /\ f[t \ {Max(t)}] \in T
  BY <1>1, <1>2, FoldGoesOn
<1>6. IsFold(f)
  BY <1>1, <1>3, <1>5 DEF GoesOn
<1>7. IsFold(iter)
  <2> HIDE DEF IsFold
  <2> QED
    BY <1>6
<1> HIDE DEF iter
<1>8. GoesOn(iter, base, T, step, n)
  BY <1>1, <1>3, <1>5, <1>7, ZenonT(30) DEF GoesOn
<1>9. PICK st \in [0..n -> T] : Runs(st, base, T, step, n) /\ EndsWith(iter, st, n)
  <2> HIDE DEF IsFold
  <2>1. base \in T /\ n \in Nat
    BY <1>1
  <2> QED
    BY <1>2, <1>8, <2>1, StatesOfFold
<1> QED
  BY <1>3, <1>4, <1>9, ZenonT(30) DEF Runs, EndsWith, NamedRun, n, T, base

\* What two lists hold behind one another either holds.
LEMMA OfEither ==
    ASSUME NEW S, NEW a \in Seq(S), NEW b \in Seq(S), NEW x
    PROVE  x \in ToSet(a \o b) <=> x \in ToSet(a) \/ x \in ToSet(b)
<1> DEFINE s == a \o b
           m == Len(a)
           n == Len(b)
<1>1. /\ m \in Nat /\ n \in Nat /\ DOMAIN a = 1..m /\ DOMAIN b = 1..n /\ DOMAIN s = 1..(m + n)
      /\ \A i \in 1..m : s[i] = a[i]
      /\ \A i \in 1..n : s[m + i] = b[i]
  OBVIOUS
<1> HIDE DEF s
<1>2. x \in ToSet(s) <=> \E i \in 1..(m + n) : x = s[i]
  BY <1>1 DEF ToSet
<1>3. x \in ToSet(a) <=> \E i \in 1..m : x = s[i]
  BY <1>1 DEF ToSet
<1>4. x \in ToSet(b) <=> \E i \in 1..n : x = s[m + i]
  BY <1>1 DEF ToSet
<1>5. /\ \A i \in 1..m : i \in 1..(m + n)
      /\ \A i \in 1..n : m + i \in 1..(m + n)
      /\ \A i \in 1..(m + n) : i \in 1..m \/ (i - m \in 1..n /\ m + (i - m) = i)
  BY <1>1
<1>6. ASSUME NEW i \in 1..(m + n), x = s[i] PROVE x \in ToSet(a) \/ x \in ToSet(b)
  <2>1. CASE i \in 1..m
    BY <1>3, <1>6, <2>1
  <2>2. CASE i - m \in 1..n /\ m + (i - m) = i
    BY <1>4, <1>6, <2>2
  <2> QED
    BY <1>5, <2>1, <2>2
<1>7. ASSUME NEW i \in 1..n, x = s[m + i] PROVE x \in ToSet(s)
  BY <1>2, <1>5, <1>7
<1>8. ASSUME NEW i \in 1..m, x = s[i] PROVE x \in ToSet(s)
  BY <1>2, <1>5, <1>8
<1>9. x \in ToSet(s) <=> x \in ToSet(a) \/ x \in ToSet(b)
  BY <1>2, <1>3, <1>4, <1>6, <1>7, <1>8
<1> QED
  BY <1>9 DEF s

\* The files that are named are those of the ranges.
LEMMA NamedAreTheFiles ==
    ASSUME NEW terms, AreTerms(terms)
    PROVE  /\ NamedFiles(terms) \in Seq(Nat)
           /\ \A x : x \in ToSet(NamedFiles(terms)) <=> \E t \in ToSet(terms) : x \in t[1]..t[2]
<1> DEFINE n == Len(terms)
<1>1. PICK st \in [0..n -> Seq(Nat)] : NamedRun(st, terms)
  BY NamedSteps
<1>2. /\ st[0] = <<>> /\ \A k \in 1..n : st[k] = st[k - 1] \o FilesOf(terms[k])
      /\ NamedFiles(terms) = st[n]
  BY <1>1 DEF NamedRun
<1> DEFINE good == {k \in 0..n :
                      \A x : x \in ToSet(st[k]) <=> \E i \in 1..k : x \in terms[i][1]..terms[i][2]}
<1>3. n \in Nat /\ DOMAIN terms = 1..n /\ \A i \in 1..n : terms[i] \in ToSet(terms)
  BY DEF AreTerms, IsList, ToSet
<1>4. 0 \in good
  <2>1. 1..0 = {} /\ ToSet(<<>>) = {}
    BY DEF ToSet
  <2> QED
    BY <1>2, <1>3, <2>1
<1>5. ASSUME NEW k \in 0..(n - 1), k \in good PROVE k + 1 \in good
  <2>0. k \in Nat /\ k \in 0..n /\ k + 1 \in 1..n /\ k + 1 \in 0..n /\ (k + 1) - 1 = k
    <3> HIDE DEF n, good
    <3> QED
      BY <1>3
  <2>1. /\ k \in 0..n /\ k + 1 \in 1..n /\ k + 1 \in 0..n /\ (k + 1) - 1 = k /\ st[k] \in Seq(Nat)
        /\ \A i : i \in 1..(k + 1) <=> i \in 1..k \/ i = k + 1
    <3>1. st[k] \in Seq(Nat)
      BY <2>0
    <3>2. \A i : i \in 1..(k + 1) <=> i \in 1..k \/ i = k + 1
      BY <2>0
    <3> QED
      BY <2>0, <3>1, <3>2
  <2> DEFINE t == terms[k + 1]
  <2>2. t[1] \in Nat /\ t[2] \in Nat /\ t[1] <= t[2]
    BY <1>3, <2>1 DEF AreTerms
  <2>3. st[k + 1] = st[k] \o FilesOf(t)
    BY <1>2, <2>1
  <2>4. FilesOf(t) \in Seq(Nat) /\ \A x : x \in ToSet(FilesOf(t)) <=> x \in t[1]..t[2]
    BY <2>2, FilesOfARange
  <2>5. \A x : x \in ToSet(st[k]) <=> \E i \in 1..k : x \in terms[i][1]..terms[i][2]
    BY <1>5
  <2>6. ASSUME NEW x
        PROVE  x \in ToSet(st[k + 1]) <=> \E i \in 1..(k + 1) : x \in terms[i][1]..terms[i][2]
    <3>1. x \in ToSet(st[k + 1]) <=> x \in ToSet(st[k]) \/ x \in ToSet(FilesOf(t))
      BY <2>1, <2>3, <2>4, OfEither
    <3>2. x \in ToSet(FilesOf(t)) <=> x \in terms[k + 1][1]..terms[k + 1][2]
      BY <2>4
    <3> HIDE DEF t
    <3> QED
      BY <2>1, <2>5, <3>1, <3>2, Zenon
  <2> QED
    BY <2>1, <2>6
<1>6. n \in good
  <2>1. \A k \in 0..n : k \in good
    <3> HIDE DEF good, n
    <3> QED
      BY <1>3, <1>4, <1>5, UpTo
  <2> QED
    BY <1>3, <2>1
<1>7. \A x : x \in ToSet(NamedFiles(terms)) <=> \E i \in 1..n : x \in terms[i][1]..terms[i][2]
  BY <1>2, <1>6
<1>8. \A t : t \in ToSet(terms) <=> \E i \in 1..n : t = terms[i]
  BY <1>3 DEF ToSet
<1>9. NamedFiles(terms) \in Seq(Nat)
  BY <1>2, <1>3
<1> QED
  BY <1>7, <1>8, <1>9, Zenon

\* A selection is the union of its ranges, no file twice.
LEMMA SelectedAreTheFiles ==
    ASSUME NEW terms, IsList(terms),
           \A t \in ToSet(terms) : t[1] \in Nat /\ t[2] \in Nat,
           Selected(terms) # {}
    PROVE  LET selection == Only(Selected(terms))
           IN  /\ ToSet(selection) = UNION {t[1]..t[2] : t \in ToSet(terms)}
               /\ Cardinality(ToSet(selection)) = Len(selection)
<1> DEFINE selection == Only(Selected(terms))
<1>1. /\ Selected(terms) = {Firsts(NamedFiles(terms))}
      /\ \A i \in 1..Len(terms) : terms[i][1] <= terms[i][2]
  BY DEF Selected
<1>2. selection = Firsts(NamedFiles(terms))
  BY <1>1 DEF Only
<1>3. AreTerms(terms)
  <2>1. \A t \in ToSet(terms) : t[1] <= t[2]
    BY <1>1 DEF IsList, ToSet
  <2> QED
    BY <2>1 DEF AreTerms
<1>4. /\ NamedFiles(terms) \in Seq(Nat)
      /\ \A x : x \in ToSet(NamedFiles(terms)) <=> \E t \in ToSet(terms) : x \in t[1]..t[2]
  BY <1>3, NamedAreTheFiles
<1> HIDE DEF selection
<1>5. /\ selection \in Seq(Nat) /\ NoneTwice(selection)
      /\ ToSet(selection) = ToSet(NamedFiles(terms))
  BY <1>2, <1>4, FirstsAreAll
<1>6. Cardinality(ToSet(selection)) = Len(selection)
  BY <1>5, AsManyAsPlaces
<1>7. ToSet(selection) = UNION {t[1]..t[2] : t \in ToSet(terms)}
  BY <1>4, <1>5
<1> QED
  BY <1>6, <1>7 DEF selection

\* What is known of a magnet that is let through.
WasLetThrough(magnet, parameters, allowDht) ==
    LET tiers == ValidTiers(<<ValuesOf(parameters, "tr")>>)
        flat == IF tiers = <<>> THEN <<>> ELSE tiers[1]
        selections == ValuesOf(parameters, "so")
    IN  /\ Len(ValuesOf(parameters, "xt")) = 1
        /\ Len(selections) <= 1
        /\ Len(selections) = 1 => Selected(selections[1]) # {}
        /\ magnet.dht <=> Kept(flat, {url \in ToSet(flat) : Announceable(url)}) = <<>>
        /\ magnet.dht => allowDht
        /\ magnet.selection = IF selections = <<>> THEN <<>> ELSE Only(Selected(selections[1]))

\* A magnet that is prepared was let through so: prepareMagnet.
LEMMA WhatIsPrepared ==
    ASSUME NEW parameters, NEW allowDht, PrepareMagnet(parameters, allowDht).code = "OK"
    PROVE  WasLetThrough(PrepareMagnet(parameters, allowDht), parameters, allowDht)
<1> DEFINE magnet == PrepareMagnet(parameters, allowDht)
           topics == ValuesOf(parameters, "xt")
           selections == ValuesOf(parameters, "so")
           tiers == ValidTiers(<<ValuesOf(parameters, "tr")>>)
           flat == IF tiers = <<>> THEN <<>> ELSE tiers[1]
           trackers == Kept(flat, {url \in ToSet(flat) : Announceable(url)})
           dht == UsesDht(trackers, tiers)
           seeds == ValidSeeds(ValuesOf(parameters, "ws"))
           refused == \/ Len(parameters) > MaxParameters
                      \/ Len(topics) # 1
                      \/ topics[1].form \notin {"hex", "base32"}
                      \/ Len(selections) > 1
                      \/ Len(selections) = 1 /\ Selected(selections[1]) = {}
                      \/ Len(flat) > MaxTrackers
                      \/ Len(seeds) > MaxSeeds
           chosen == IF selections = <<>> THEN <<>> ELSE Only(Selected(selections[1]))
           ok == [code |-> "OK", hash |-> topics[1].hash, trackers |-> trackers,
                  seeds |-> seeds,
                  selection |-> chosen,
                  dht |-> dht,
                  xsRemoved |-> \E i \in 1..Len(parameters) :
                                    parameters[i].key \in {"xs", "x.pe"}]
<1>1. magnet = IF refused THEN NoMagnet("REFUSED")
               ELSE IF dht /\ ~allowDht THEN NoMagnet("DHT_CONSENT_REQUIRED")
               ELSE ok
  BY DEF PrepareMagnet
<1>2. NoMagnet("REFUSED").code = "REFUSED"
      /\ NoMagnet("DHT_CONSENT_REQUIRED").code = "DHT_CONSENT_REQUIRED"
  BY DEF NoMagnet
<1>3. ~refused /\ ~(dht /\ ~allowDht) /\ magnet = ok
  <2> HIDE DEF refused, dht, ok
  <2> QED
    BY <1>1, <1>2
<1>4. ok.selection = chosen /\ (ok.dht <=> dht)
  <2> HIDE DEF chosen, dht, trackers, topics
  <2> QED
    OBVIOUS
<1>5. dht <=> trackers = <<>>
  BY DEF UsesDht
<1>6. /\ Len(topics) = 1 /\ ~(Len(selections) > 1)
      /\ Len(selections) = 1 => Selected(selections[1]) # {}
  BY <1>3
<1>7. Len(selections) \in Nat
  BY DEF ValuesOf
<1> HIDE DEF magnet, ok, chosen, dht, refused, topics, selections, flat, tiers
<1>8. /\ Len(topics) = 1 /\ Len(selections) <= 1
      /\ Len(selections) = 1 => Selected(selections[1]) # {}
      /\ magnet.dht <=> trackers = <<>>
      /\ magnet.dht => allowDht
      /\ magnet.selection = chosen
  BY <1>3, <1>4, <1>5, <1>6, <1>7
<1> QED
  BY <1>8 DEF WasLetThrough, magnet, chosen, topics, selections, flat, tiers

\* An empty list has no items, and only it.
LEMMA NothingInIt ==
    ASSUME NEW S, NEW s \in Seq(S)
    PROVE  s = <<>> <=> ToSet(s) = {}
<1>1. s = <<>> => ToSet(s) = {}
  BY DEF ToSet
<1>2. ASSUME s # <<>> PROVE ToSet(s) # {}
  <2>1. 1 \in DOMAIN s
    BY <1>2
  <2>2. s[1] \in ToSet(s)
    BY <2>1 DEF ToSet
  <2> QED
    BY <2>2
<1> QED
  BY <1>1, <1>2

\* The trackers it may be staged with are none when none of the magnet's is both
\* known and announceable.
LEMMA NoneToAnnounceTo ==
    ASSUME NEW flat, IsList(flat), NEW urls,
           \A url : url \in ToSet(flat) <=> url \in ToSet(urls) /\ KnownTracker(url)
    PROVE  Kept(flat, {url \in ToSet(flat) : Announceable(url)}) = <<>> <=>
              \A url \in ToSet(urls) : ~(url.sound /\ Announceable(url))
<1> DEFINE W == {url \in ToSet(flat) : Announceable(url)}
           kept == Kept(flat, W)
<1>1. kept \in Seq(ToSet(flat)) /\ ToSet(kept) = W
  <2>1. ToSet(flat) \cap W = W
    OBVIOUS
  <2>2. flat \in Seq(ToSet(flat))
    BY DEF IsList
  <2> HIDE DEF W
  <2> QED
    BY <2>1, <2>2, KeptIsOfTheList
<1> HIDE DEF kept
<1>2. kept = <<>> <=> W = {}
  BY <1>1, NothingInIt
<1>3. W = {} <=> \A url \in ToSet(urls) : ~(KnownTracker(url) /\ Announceable(url))
  OBVIOUS
<1>4. \A url : KnownTracker(url) /\ Announceable(url) <=> url.sound /\ Announceable(url)
  BY DEF KnownTracker, Announceable
<1> HIDE DEF W
<1> QED
  BY <1>2, <1>3, <1>4 DEF kept, W

\* What is staged of a magnet's selections.
LEMMA SelectedOfAMagnet ==
    ASSUME NEW selections, IsList(selections), Len(selections) <= 1,
           \A v \in ToSet(selections) :
              IsList(v) /\ \A t \in ToSet(v) : t[1] \in Nat /\ t[2] \in Nat,
           Len(selections) = 1 => Selected(selections[1]) # {}
    PROVE  LET chosen == IF selections = <<>> THEN <<>> ELSE Only(Selected(selections[1]))
               terms == UNION {ToSet(t) : t \in ToSet(selections)}
           IN  /\ ToSet(chosen) = UNION {t[1]..t[2] : t \in terms}
               /\ Cardinality(ToSet(chosen)) = Len(chosen)
<1> DEFINE chosen == IF selections = <<>> THEN <<>> ELSE Only(Selected(selections[1]))
           terms == UNION {ToSet(t) : t \in ToSet(selections)}
<1>1. CASE selections = <<>>
  <2>1. ToSet(selections) = {} /\ ToSet(<<>>) = {} /\ Len(<<>>) = 0
    BY <1>1 DEF ToSet
  <2>2. terms = {}
    BY <2>1
  <2>3. chosen = <<>>
    BY <1>1
  <2>4. UNION {t[1]..t[2] : t \in terms} = {}
    <3> HIDE DEF terms
    <3> QED
      BY <2>2
  <2> HIDE DEF chosen, terms
  <2>5. Cardinality(ToSet(chosen)) = Len(chosen)
    BY <2>1, <2>3, FS_EmptySet
  <2>6. ToSet(chosen) = UNION {t[1]..t[2] : t \in terms}
    BY <2>1, <2>3, <2>4
  <2> QED
    BY <2>5, <2>6 DEF chosen, terms
<1>2. CASE selections # <<>>
  <2>1. Len(selections) = 1 /\ DOMAIN selections = 1..1
    <3>1. Len(selections) \in Nat /\ Len(selections) # 0 /\ DOMAIN selections = 1..Len(selections)
      BY <1>2 DEF IsList
    <3>2. Len(selections) = 1
      BY <3>1
    <3> QED
      BY <3>1, <3>2
  <2> DEFINE v == selections[1]
  <2>2. ToSet(selections) = {v}
    BY <2>1 DEF ToSet
  <2>3. IsList(v) /\ (\A t \in ToSet(v) : t[1] \in Nat /\ t[2] \in Nat) /\ Selected(v) # {}
    BY <2>1, <2>2
  <2>4. chosen = Only(Selected(v))
    BY <1>2
  <2>5. terms = ToSet(v)
    BY <2>2
  <2> HIDE DEF chosen, terms, v
  <2>6. /\ ToSet(chosen) = UNION {t[1]..t[2] : t \in ToSet(v)}
        /\ Cardinality(ToSet(chosen)) = Len(chosen)
    BY <2>3, <2>4, SelectedAreTheFiles
  <2>7. ToSet(chosen) = UNION {t[1]..t[2] : t \in terms}
    BY <2>5, <2>6
  <2> QED
    BY <2>6, <2>7 DEF chosen, terms
<1> QED
  BY <1>1, <1>2

\* A magnet that is let through names one torrent, uses the DHT exactly when no
\* tracker can be announced to, and then with consent, and its selection is the
\* union of its ranges without a repetition.
LEMMA MagnetsCanBeStaged ==
    ASSUME NEW parameters, AreParameters(parameters), NEW allowDht
    PROVE  MagnetCanBeStaged(parameters, allowDht)
<1> DEFINE magnet == PrepareMagnet(parameters, allowDht)
           urls == ValuesOf(parameters, "tr")
           selections == ValuesOf(parameters, "so")
           terms == UNION {ToSet(t) : t \in ToSet(selections)}
           tiers == ValidTiers(<<urls>>)
           flat == IF tiers = <<>> THEN <<>> ELSE tiers[1]
           once == Cardinality({i \in 1..Len(parameters) : parameters[i].key = "xt"}) = 1
           none == \A url \in ToSet(urls) : ~(url.sound /\ Announceable(url))
           chosen == IF selections = <<>> THEN <<>> ELSE Only(Selected(selections[1]))
<1>1. SUFFICES ASSUME magnet.code = "OK"
               PROVE  /\ once /\ (magnet.dht <=> none) /\ (magnet.dht => allowDht)
                      /\ ToSet(magnet.selection) = UNION {t[1]..t[2] : t \in terms}
                      /\ Cardinality(ToSet(magnet.selection)) = Len(magnet.selection)
  BY DEF MagnetCanBeStaged
<1>2. IsList(parameters)
  BY DEF AreParameters
<1>3. /\ Len(ValuesOf(parameters, "xt")) = 1 /\ Len(selections) <= 1
      /\ Len(selections) = 1 => Selected(selections[1]) # {}
      /\ magnet.dht <=> Kept(flat, {url \in ToSet(flat) : Announceable(url)}) = <<>>
      /\ magnet.dht => allowDht
      /\ magnet.selection = chosen
  <2> HIDE DEF magnet
  <2>1. WasLetThrough(magnet, parameters, allowDht)
    BY <1>1, WhatIsPrepared DEF magnet
  <2> QED
    BY <2>1 DEF WasLetThrough
<1>4. once
  BY <1>2, <1>3, OneOfAKey
<1>5. IsList(urls)
  BY <1>2, ValuesAre
<1>6. IsList(selections) /\ \A v : v \in ToSet(selections) <=>
                               \E p \in ToSet(parameters) : p.key = "so" /\ v = p.value
  BY <1>2, ValuesAre
<1>7. \A v \in ToSet(selections) : IsList(v) /\ \A t \in ToSet(v) : t[1] \in Nat /\ t[2] \in Nat
  BY <1>6 DEF AreParameters
<1>8. IsList(flat) /\ \A url : url \in ToSet(flat) <=> url \in ToSet(urls) /\ KnownTracker(url)
  <2> HIDE DEF urls
  <2> QED
    BY <1>5, TrackersOfAMagnet
<1> HIDE DEF magnet, urls, selections, tiers, flat
<1>9. magnet.dht <=> none
  BY <1>3, <1>8, NoneToAnnounceTo
<1>10. /\ ToSet(chosen) = UNION {t[1]..t[2] : t \in terms}
       /\ Cardinality(ToSet(chosen)) = Len(chosen)
  BY <1>3, <1>6, <1>7, SelectedOfAMagnet
<1> HIDE DEF chosen, terms, none, once
<1> QED
  BY <1>3, <1>4, <1>9, <1>10

(* ---------------------------------- topics ----------------------------------- *)

\* The bit of a number at a place, counted from its last.
Bit(v, p) == (v \div 2^p) % 2

\* A digit behind a number moves the number's bits five places up.
LEMMA BitsMoveUp ==
    ASSUME NEW a \in Nat, NEW d \in 0..31, NEW p \in 0..6
    PROVE  Bit(a * 32 + d, p + 5) = Bit(a, p)
<1> DEFINE v == a * 32 + d
<1>1. /\ v \div 32 = a \div 1 /\ v \div 64 = a \div 2 /\ v \div 128 = a \div 4
      /\ v \div 256 = a \div 8
  OBVIOUS
<1>2. v \div 512 = a \div 16 /\ v \div 1024 = a \div 32 /\ v \div 2048 = a \div 64
  OBVIOUS
<1> HIDE DEF v
<1>3. v \div 2^(p + 5) = a \div 2^p
  <2>1. CASE p = 0
    <3>1. 2^p = 1 /\ 2^(p + 5) = 32
      BY <2>1
    <3> QED
      BY <1>1, <1>2, <3>1
  <2>2. CASE p = 1
    <3>1. 2^p = 2 /\ 2^(p + 5) = 64
      BY <2>2
    <3> QED
      BY <1>1, <1>2, <3>1
  <2>3. CASE p = 2
    <3>1. 2^p = 4 /\ 2^(p + 5) = 128
      BY <2>3
    <3> QED
      BY <1>1, <1>2, <3>1
  <2>4. CASE p = 3
    <3>1. 2^p = 8 /\ 2^(p + 5) = 256
      BY <2>4
    <3> QED
      BY <1>1, <1>2, <3>1
  <2>5. CASE p = 4
    <3>1. 2^p = 16 /\ 2^(p + 5) = 512
      BY <2>5
    <3> QED
      BY <1>1, <1>2, <3>1
  <2>6. CASE p = 5
    <3>1. 2^p = 32 /\ 2^(p + 5) = 1024
      BY <2>6
    <3> QED
      BY <1>1, <1>2, <3>1
  <2>7. CASE p = 6
    <3>1. 2^p = 64 /\ 2^(p + 5) = 2048
      BY <2>7
    <3> QED
      BY <1>1, <1>2, <3>1
  <2> QED
    BY <2>1, <2>2, <2>3, <2>4, <2>5, <2>6, <2>7
<1> QED
  BY <1>3 DEF Bit, v

\* Its own bits are the last five.
LEMMA BitsOfTheDigit ==
    ASSUME NEW a \in Nat, NEW d \in 0..31, NEW p \in 0..4
    PROVE  Bit(a * 32 + d, p) = Bit(d, p)
<1> DEFINE v == a * 32 + d
<1>1. /\ (v \div 1) % 2 = (d \div 1) % 2 /\ (v \div 2) % 2 = (d \div 2) % 2
      /\ (v \div 4) % 2 = (d \div 4) % 2
  OBVIOUS
<1>2. (v \div 8) % 2 = (d \div 8) % 2 /\ (v \div 16) % 2 = (d \div 16) % 2
  OBVIOUS
<1> HIDE DEF v
<1>3. (v \div 2^p) % 2 = (d \div 2^p) % 2
  <2>1. CASE p = 0
    <3>1. 2^p = 1
      BY <2>1
    <3> QED
      BY <1>1, <1>2, <3>1
  <2>2. CASE p = 1
    <3>1. 2^p = 2
      BY <2>2
    <3> QED
      BY <1>1, <1>2, <3>1
  <2>3. CASE p = 2
    <3>1. 2^p = 4
      BY <2>3
    <3> QED
      BY <1>1, <1>2, <3>1
  <2>4. CASE p = 3
    <3>1. 2^p = 8
      BY <2>4
    <3> QED
      BY <1>1, <1>2, <3>1
  <2>5. CASE p = 4
    <3>1. 2^p = 16
      BY <2>5
    <3> QED
      BY <1>1, <1>2, <3>1
  <2> QED
    BY <2>1, <2>2, <2>3, <2>4, <2>5
<1> QED
  BY <1>3 DEF Bit, v

\* The bits of a number without its last ones, and those of the last ones.
LEMMA BitsAbove ==
    ASSUME NEW v \in Nat, NEW r \in 0..4, NEW p \in 0..7
    PROVE  Bit(v \div 2^r, p) = Bit(v, p + r)
<1>1. CASE r = 0
  <2>0. 2^r = 1
    BY <1>1
  <2>1. (v \div 2^r) \div 2^p = v \div 2^(p + r)
    <3>1. CASE p = 0
      <4>1. 2^p = 1 /\ 2^(p + r) = 1
        BY <1>1, <3>1
      <4>2. (v \div 1) \div 1 = v \div 1
        OBVIOUS
      <4> QED
        BY <2>0, <4>1, <4>2
    <3>2. CASE p = 1
      <4>1. 2^p = 2 /\ 2^(p + r) = 2
        BY <1>1, <3>2
      <4>2. (v \div 1) \div 2 = v \div 2
        OBVIOUS
      <4> QED
        BY <2>0, <4>1, <4>2
    <3>3. CASE p = 2
      <4>1. 2^p = 4 /\ 2^(p + r) = 4
        BY <1>1, <3>3
      <4>2. (v \div 1) \div 4 = v \div 4
        OBVIOUS
      <4> QED
        BY <2>0, <4>1, <4>2
    <3>4. CASE p = 3
      <4>1. 2^p = 8 /\ 2^(p + r) = 8
        BY <1>1, <3>4
      <4>2. (v \div 1) \div 8 = v \div 8
        OBVIOUS
      <4> QED
        BY <2>0, <4>1, <4>2
    <3>5. CASE p = 4
      <4>1. 2^p = 16 /\ 2^(p + r) = 16
        BY <1>1, <3>5
      <4>2. (v \div 1) \div 16 = v \div 16
        OBVIOUS
      <4> QED
        BY <2>0, <4>1, <4>2
    <3>6. CASE p = 5
      <4>1. 2^p = 32 /\ 2^(p + r) = 32
        BY <1>1, <3>6
      <4>2. (v \div 1) \div 32 = v \div 32
        OBVIOUS
      <4> QED
        BY <2>0, <4>1, <4>2
    <3>7. CASE p = 6
      <4>1. 2^p = 64 /\ 2^(p + r) = 64
        BY <1>1, <3>7
      <4>2. (v \div 1) \div 64 = v \div 64
        OBVIOUS
      <4> QED
        BY <2>0, <4>1, <4>2
    <3>8. CASE p = 7
      <4>1. 2^p = 128 /\ 2^(p + r) = 128
        BY <1>1, <3>8
      <4>2. (v \div 1) \div 128 = v \div 128
        OBVIOUS
      <4> QED
        BY <2>0, <4>1, <4>2
    <3> QED
      BY <3>1, <3>2, <3>3, <3>4, <3>5, <3>6, <3>7, <3>8
  <2> QED
    BY <2>1 DEF Bit
<1>2. CASE r = 1
  <2>0. 2^r = 2
    BY <1>2
  <2>1. (v \div 2^r) \div 2^p = v \div 2^(p + r)
    <3>1. CASE p = 0
      <4>1. 2^p = 1 /\ 2^(p + r) = 2
        BY <1>2, <3>1
      <4>2. (v \div 2) \div 1 = v \div 2
        OBVIOUS
      <4> QED
        BY <2>0, <4>1, <4>2
    <3>2. CASE p = 1
      <4>1. 2^p = 2 /\ 2^(p + r) = 4
        BY <1>2, <3>2
      <4>2. (v \div 2) \div 2 = v \div 4
        OBVIOUS
      <4> QED
        BY <2>0, <4>1, <4>2
    <3>3. CASE p = 2
      <4>1. 2^p = 4 /\ 2^(p + r) = 8
        BY <1>2, <3>3
      <4>2. (v \div 2) \div 4 = v \div 8
        OBVIOUS
      <4> QED
        BY <2>0, <4>1, <4>2
    <3>4. CASE p = 3
      <4>1. 2^p = 8 /\ 2^(p + r) = 16
        BY <1>2, <3>4
      <4>2. (v \div 2) \div 8 = v \div 16
        OBVIOUS
      <4> QED
        BY <2>0, <4>1, <4>2
    <3>5. CASE p = 4
      <4>1. 2^p = 16 /\ 2^(p + r) = 32
        BY <1>2, <3>5
      <4>2. (v \div 2) \div 16 = v \div 32
        OBVIOUS
      <4> QED
        BY <2>0, <4>1, <4>2
    <3>6. CASE p = 5
      <4>1. 2^p = 32 /\ 2^(p + r) = 64
        BY <1>2, <3>6
      <4>2. (v \div 2) \div 32 = v \div 64
        OBVIOUS
      <4> QED
        BY <2>0, <4>1, <4>2
    <3>7. CASE p = 6
      <4>1. 2^p = 64 /\ 2^(p + r) = 128
        BY <1>2, <3>7
      <4>2. (v \div 2) \div 64 = v \div 128
        OBVIOUS
      <4> QED
        BY <2>0, <4>1, <4>2
    <3>8. CASE p = 7
      <4>1. 2^p = 128 /\ 2^(p + r) = 256
        BY <1>2, <3>8
      <4>2. (v \div 2) \div 128 = v \div 256
        OBVIOUS
      <4> QED
        BY <2>0, <4>1, <4>2
    <3> QED
      BY <3>1, <3>2, <3>3, <3>4, <3>5, <3>6, <3>7, <3>8
  <2> QED
    BY <2>1 DEF Bit
<1>3. CASE r = 2
  <2>0. 2^r = 4
    BY <1>3
  <2>1. (v \div 2^r) \div 2^p = v \div 2^(p + r)
    <3>1. CASE p = 0
      <4>1. 2^p = 1 /\ 2^(p + r) = 4
        BY <1>3, <3>1
      <4>2. (v \div 4) \div 1 = v \div 4
        OBVIOUS
      <4> QED
        BY <2>0, <4>1, <4>2
    <3>2. CASE p = 1
      <4>1. 2^p = 2 /\ 2^(p + r) = 8
        BY <1>3, <3>2
      <4>2. (v \div 4) \div 2 = v \div 8
        OBVIOUS
      <4> QED
        BY <2>0, <4>1, <4>2
    <3>3. CASE p = 2
      <4>1. 2^p = 4 /\ 2^(p + r) = 16
        BY <1>3, <3>3
      <4>2. (v \div 4) \div 4 = v \div 16
        OBVIOUS
      <4> QED
        BY <2>0, <4>1, <4>2
    <3>4. CASE p = 3
      <4>1. 2^p = 8 /\ 2^(p + r) = 32
        BY <1>3, <3>4
      <4>2. (v \div 4) \div 8 = v \div 32
        OBVIOUS
      <4> QED
        BY <2>0, <4>1, <4>2
    <3>5. CASE p = 4
      <4>1. 2^p = 16 /\ 2^(p + r) = 64
        BY <1>3, <3>5
      <4>2. (v \div 4) \div 16 = v \div 64
        OBVIOUS
      <4> QED
        BY <2>0, <4>1, <4>2
    <3>6. CASE p = 5
      <4>1. 2^p = 32 /\ 2^(p + r) = 128
        BY <1>3, <3>6
      <4>2. (v \div 4) \div 32 = v \div 128
        OBVIOUS
      <4> QED
        BY <2>0, <4>1, <4>2
    <3>7. CASE p = 6
      <4>1. 2^p = 64 /\ 2^(p + r) = 256
        BY <1>3, <3>7
      <4>2. (v \div 4) \div 64 = v \div 256
        OBVIOUS
      <4> QED
        BY <2>0, <4>1, <4>2
    <3>8. CASE p = 7
      <4>1. 2^p = 128 /\ 2^(p + r) = 512
        BY <1>3, <3>8
      <4>2. (v \div 4) \div 128 = v \div 512
        OBVIOUS
      <4> QED
        BY <2>0, <4>1, <4>2
    <3> QED
      BY <3>1, <3>2, <3>3, <3>4, <3>5, <3>6, <3>7, <3>8
  <2> QED
    BY <2>1 DEF Bit
<1>4. CASE r = 3
  <2>0. 2^r = 8
    BY <1>4
  <2>1. (v \div 2^r) \div 2^p = v \div 2^(p + r)
    <3>1. CASE p = 0
      <4>1. 2^p = 1 /\ 2^(p + r) = 8
        BY <1>4, <3>1
      <4>2. (v \div 8) \div 1 = v \div 8
        OBVIOUS
      <4> QED
        BY <2>0, <4>1, <4>2
    <3>2. CASE p = 1
      <4>1. 2^p = 2 /\ 2^(p + r) = 16
        BY <1>4, <3>2
      <4>2. (v \div 8) \div 2 = v \div 16
        OBVIOUS
      <4> QED
        BY <2>0, <4>1, <4>2
    <3>3. CASE p = 2
      <4>1. 2^p = 4 /\ 2^(p + r) = 32
        BY <1>4, <3>3
      <4>2. (v \div 8) \div 4 = v \div 32
        OBVIOUS
      <4> QED
        BY <2>0, <4>1, <4>2
    <3>4. CASE p = 3
      <4>1. 2^p = 8 /\ 2^(p + r) = 64
        BY <1>4, <3>4
      <4>2. (v \div 8) \div 8 = v \div 64
        OBVIOUS
      <4> QED
        BY <2>0, <4>1, <4>2
    <3>5. CASE p = 4
      <4>1. 2^p = 16 /\ 2^(p + r) = 128
        BY <1>4, <3>5
      <4>2. (v \div 8) \div 16 = v \div 128
        OBVIOUS
      <4> QED
        BY <2>0, <4>1, <4>2
    <3>6. CASE p = 5
      <4>1. 2^p = 32 /\ 2^(p + r) = 256
        BY <1>4, <3>6
      <4>2. (v \div 8) \div 32 = v \div 256
        OBVIOUS
      <4> QED
        BY <2>0, <4>1, <4>2
    <3>7. CASE p = 6
      <4>1. 2^p = 64 /\ 2^(p + r) = 512
        BY <1>4, <3>7
      <4>2. (v \div 8) \div 64 = v \div 512
        OBVIOUS
      <4> QED
        BY <2>0, <4>1, <4>2
    <3>8. CASE p = 7
      <4>1. 2^p = 128 /\ 2^(p + r) = 1024
        BY <1>4, <3>8
      <4>2. (v \div 8) \div 128 = v \div 1024
        OBVIOUS
      <4> QED
        BY <2>0, <4>1, <4>2
    <3> QED
      BY <3>1, <3>2, <3>3, <3>4, <3>5, <3>6, <3>7, <3>8
  <2> QED
    BY <2>1 DEF Bit
<1>5. CASE r = 4
  <2>0. 2^r = 16
    BY <1>5
  <2>1. (v \div 2^r) \div 2^p = v \div 2^(p + r)
    <3>1. CASE p = 0
      <4>1. 2^p = 1 /\ 2^(p + r) = 16
        BY <1>5, <3>1
      <4>2. (v \div 16) \div 1 = v \div 16
        OBVIOUS
      <4> QED
        BY <2>0, <4>1, <4>2
    <3>2. CASE p = 1
      <4>1. 2^p = 2 /\ 2^(p + r) = 32
        BY <1>5, <3>2
      <4>2. (v \div 16) \div 2 = v \div 32
        OBVIOUS
      <4> QED
        BY <2>0, <4>1, <4>2
    <3>3. CASE p = 2
      <4>1. 2^p = 4 /\ 2^(p + r) = 64
        BY <1>5, <3>3
      <4>2. (v \div 16) \div 4 = v \div 64
        OBVIOUS
      <4> QED
        BY <2>0, <4>1, <4>2
    <3>4. CASE p = 3
      <4>1. 2^p = 8 /\ 2^(p + r) = 128
        BY <1>5, <3>4
      <4>2. (v \div 16) \div 8 = v \div 128
        OBVIOUS
      <4> QED
        BY <2>0, <4>1, <4>2
    <3>5. CASE p = 4
      <4>1. 2^p = 16 /\ 2^(p + r) = 256
        BY <1>5, <3>5
      <4>2. (v \div 16) \div 16 = v \div 256
        OBVIOUS
      <4> QED
        BY <2>0, <4>1, <4>2
    <3>6. CASE p = 5
      <4>1. 2^p = 32 /\ 2^(p + r) = 512
        BY <1>5, <3>6
      <4>2. (v \div 16) \div 32 = v \div 512
        OBVIOUS
      <4> QED
        BY <2>0, <4>1, <4>2
    <3>7. CASE p = 6
      <4>1. 2^p = 64 /\ 2^(p + r) = 1024
        BY <1>5, <3>7
      <4>2. (v \div 16) \div 64 = v \div 1024
        OBVIOUS
      <4> QED
        BY <2>0, <4>1, <4>2
    <3>8. CASE p = 7
      <4>1. 2^p = 128 /\ 2^(p + r) = 2048
        BY <1>5, <3>8
      <4>2. (v \div 16) \div 128 = v \div 2048
        OBVIOUS
      <4> QED
        BY <2>0, <4>1, <4>2
    <3> QED
      BY <3>1, <3>2, <3>3, <3>4, <3>5, <3>6, <3>7, <3>8
  <2> QED
    BY <2>1 DEF Bit
<1>6. r = 0 \/ r = 1 \/ r = 2 \/ r = 3 \/ r = 4
  OBVIOUS
<1> QED
  BY <1>1, <1>2, <1>3, <1>4, <1>5, <1>6

\* The last bits of a number are those of what is left of it.
LEMMA BitsLeft ==
    ASSUME NEW v \in Nat, NEW r \in 0..4, NEW p \in 0..(r - 1)
    PROVE  Bit(v % 2^r, p) = Bit(v, p)
<1>1. CASE r = 1 /\ p = 0
  <2>1. 2^r = 2 /\ 2^p = 1
    BY <1>1
  <2>2. ((v % 2) \div 1) % 2 = (v \div 1) % 2
    OBVIOUS
  <2> QED
    BY <2>1, <2>2 DEF Bit
<1>2. CASE r = 2 /\ p = 0
  <2>1. 2^r = 4 /\ 2^p = 1
    BY <1>2
  <2>2. ((v % 4) \div 1) % 2 = (v \div 1) % 2
    OBVIOUS
  <2> QED
    BY <2>1, <2>2 DEF Bit
<1>3. CASE r = 2 /\ p = 1
  <2>1. 2^r = 4 /\ 2^p = 2
    BY <1>3
  <2>2. ((v % 4) \div 2) % 2 = (v \div 2) % 2
    OBVIOUS
  <2> QED
    BY <2>1, <2>2 DEF Bit
<1>4. CASE r = 3 /\ p = 0
  <2>1. 2^r = 8 /\ 2^p = 1
    BY <1>4
  <2>2. ((v % 8) \div 1) % 2 = (v \div 1) % 2
    OBVIOUS
  <2> QED
    BY <2>1, <2>2 DEF Bit
<1>5. CASE r = 3 /\ p = 1
  <2>1. 2^r = 8 /\ 2^p = 2
    BY <1>5
  <2>2. ((v % 8) \div 2) % 2 = (v \div 2) % 2
    OBVIOUS
  <2> QED
    BY <2>1, <2>2 DEF Bit
<1>6. CASE r = 3 /\ p = 2
  <2>1. 2^r = 8 /\ 2^p = 4
    BY <1>6
  <2>2. ((v % 8) \div 4) % 2 = (v \div 4) % 2
    OBVIOUS
  <2> QED
    BY <2>1, <2>2 DEF Bit
<1>7. CASE r = 4 /\ p = 0
  <2>1. 2^r = 16 /\ 2^p = 1
    BY <1>7
  <2>2. ((v % 16) \div 1) % 2 = (v \div 1) % 2
    OBVIOUS
  <2> QED
    BY <2>1, <2>2 DEF Bit
<1>8. CASE r = 4 /\ p = 1
  <2>1. 2^r = 16 /\ 2^p = 2
    BY <1>8
  <2>2. ((v % 16) \div 2) % 2 = (v \div 2) % 2
    OBVIOUS
  <2> QED
    BY <2>1, <2>2 DEF Bit
<1>9. CASE r = 4 /\ p = 2
  <2>1. 2^r = 16 /\ 2^p = 4
    BY <1>9
  <2>2. ((v % 16) \div 4) % 2 = (v \div 4) % 2
    OBVIOUS
  <2> QED
    BY <2>1, <2>2 DEF Bit
<1>10. CASE r = 4 /\ p = 3
  <2>1. 2^r = 16 /\ 2^p = 8
    BY <1>10
  <2>2. ((v % 16) \div 8) % 2 = (v \div 8) % 2
    OBVIOUS
  <2> QED
    BY <2>1, <2>2 DEF Bit
<1>11. \/ r = 1 /\ p = 0
       \/ r = 2 /\ (p = 0 \/ p = 1)
       \/ r = 3 /\ (p = 0 \/ p = 1 \/ p = 2)
       \/ r = 4 /\ (p = 0 \/ p = 1 \/ p = 2 \/ p = 3)
  OBVIOUS
<1> QED
  BY <1>1, <1>2, <1>3, <1>4, <1>5, <1>6, <1>7, <1>8, <1>9, <1>10, <1>11

\* What is left of a topic's digits.
Decodings == [bytes : Seq(Nat), bits : 0..7, accumulator : Nat]

NoDigits == [bytes |-> <<>>, bits |-> 0, accumulator |-> 0]

\* Five bits more: they wait, or the first eight that do are a byte.
LEMMA DigitIsTaken ==
    ASSUME NEW s \in Decodings, NEW d \in 0..31
    PROVE  LET v == s.accumulator * 32 + d
               r == s.bits - 3
           IN  /\ s.bits < 3 => TakesDigit(s, d) = [bytes |-> s.bytes, bits |-> s.bits + 5,
                                                    accumulator |-> v]
               /\ s.bits >= 3 => TakesDigit(s, d) = [bytes |-> Append(s.bytes, v \div 2^r),
                                                     bits |-> r, accumulator |-> v % 2^r]
<1>1. s.bits \in 0..7
  BY DEF Decodings
<1>2. s.bits + 5 >= 8 <=> s.bits >= 3
  BY <1>1
<1>3. (s.bits + 5) - 8 = s.bits - 3
  BY <1>1
<1> DEFINE v == s.accumulator * 32 + d
           r == s.bits - 3
<1>4. TakesDigit(s, d) =
         IF s.bits >= 3
         THEN [bytes |-> Append(s.bytes, v \div 2^r), bits |-> r, accumulator |-> v % 2^r]
         ELSE [bytes |-> s.bytes, bits |-> s.bits + 5, accumulator |-> v]
  <2> DEFINE w == s.bits + 5
  <2>1. TakesDigit(s, d) =
           IF w >= 8
           THEN [bytes |-> Append(s.bytes, v \div 2^(w - 8)), bits |-> w - 8,
                 accumulator |-> v % 2^(w - 8)]
           ELSE [bytes |-> s.bytes, bits |-> w, accumulator |-> v]
    BY DEF TakesDigit
  <2> HIDE DEF v
  <2>2. (w >= 8 <=> s.bits >= 3) /\ w - 8 = r
    BY <1>2, <1>3
  <2> HIDE DEF w, r
  <2>3. s.bits + 5 = w
    BY DEF w
  <2> QED
    BY <2>1, <2>2, <2>3
<1>5. s.bits < 3 <=> ~(s.bits >= 3)
  BY <1>1
<1> HIDE DEF v, r
<1>6. /\ s.bits < 3 => TakesDigit(s, d) = [bytes |-> s.bytes, bits |-> s.bits + 5,
                                            accumulator |-> v]
      /\ s.bits >= 3 => TakesDigit(s, d) = [bytes |-> Append(s.bytes, v \div 2^r),
                                             bits |-> r, accumulator |-> v % 2^r]
  BY <1>4, <1>5, Zenon
<1> QED
  BY <1>6 DEF v, r

\* A list's items are at its first positions.
LEMMA ItemsAre ==
    ASSUME NEW S, NEW s \in Seq(S)
    PROVE  Len(s) \in Nat /\ DOMAIN s = 1..Len(s) /\ \A i \in 1..Len(s) : s[i] \in S
OBVIOUS

\* A digit leaves bytes, bits that wait, and their number.
LEMMA DecodingGoesOn ==
    ASSUME NEW s \in Decodings, NEW d \in 0..31
    PROVE  TakesDigit(s, d) \in Decodings
<1> DEFINE v == s.accumulator * 32 + d
           r == s.bits - 3
<1>1. s.bytes \in Seq(Nat) /\ s.bits \in 0..7 /\ s.accumulator \in Nat
  BY DEF Decodings
<1>2. v \in Nat
  BY <1>1
<1>3. /\ s.bits < 3 => TakesDigit(s, d) = [bytes |-> s.bytes, bits |-> s.bits + 5,
                                            accumulator |-> v]
      /\ s.bits >= 3 => TakesDigit(s, d) = [bytes |-> Append(s.bytes, v \div 2^r),
                                             bits |-> r, accumulator |-> v % 2^r]
  BY DigitIsTaken
<1> HIDE DEF v, r
<1>4. CASE s.bits < 3
  <2>1. s.bits + 5 \in 0..7
    BY <1>1, <1>4
  <2> QED
    BY <1>1, <1>2, <1>3, <1>4, <2>1 DEF Decodings
<1>5. CASE s.bits >= 3
  <2>1. r \in 0..4
    BY <1>1, <1>5 DEF r
  <2>2. 2^r \in Nat \ {0}
    <3>1. ASSUME r = 0 PROVE 2^r = 1
      BY <3>1
    <3>2. ASSUME r = 1 PROVE 2^r = 2
      BY <3>2
    <3>3. ASSUME r = 2 PROVE 2^r = 4
      BY <3>3
    <3>4. ASSUME r = 3 PROVE 2^r = 8
      BY <3>4
    <3>5. ASSUME r = 4 PROVE 2^r = 16
      BY <3>5
    <3>6. r = 0 \/ r = 1 \/ r = 2 \/ r = 3 \/ r = 4
      BY <2>1
    <3> QED
      BY <3>1, <3>2, <3>3, <3>4, <3>5, <3>6
  <2>3. v \div 2^r \in Nat /\ v % 2^r \in Nat
    BY <1>2, <2>2
  <2>4. Append(s.bytes, v \div 2^r) \in Seq(Nat)
    BY <1>1, <2>3
  <2>5. r \in 0..7
    BY <2>1
  <2> DEFINE new == TakesDigit(s, d)
  <2>6. new = [bytes |-> Append(s.bytes, v \div 2^r), bits |-> r, accumulator |-> v % 2^r]
    BY <1>3, <1>5
  <2> HIDE DEF new
  <2>7. [bytes |-> Append(s.bytes, v \div 2^r), bits |-> r, accumulator |-> v % 2^r] \in Decodings
    BY <2>3, <2>4, <2>5 DEF Decodings
  <2> QED
    BY <2>6, <2>7 DEF new
<1> QED
  BY <1>1, <1>4, <1>5

\* The digits are taken one by one.
DecodingRun(st, digits) ==
    /\ st[0] = NoDigits
    /\ \A k \in 1..Len(digits) : st[k] = TakesDigit(st[k - 1], digits[k])
    /\ Base32Bytes(digits) = st[Len(digits)].bytes

\* Decoding goes through such states.
LEMMA DecodingSteps ==
    ASSUME NEW digits, digits \in Seq(0..31)
    PROVE  \E st \in [0..Len(digits) -> Decodings] : DecodingRun(st, digits)
<1> DEFINE n == Len(digits)
           T == Decodings
           base == NoDigits
           step == [p \in T \X (1..n) |-> TakesDigit(p[1], digits[p[2]])]
           IsFold(f) == f = [t \in SUBSET DOMAIN digits |->
                           IF t = {} THEN base ELSE TakesDigit(f[t \ {Max(t)}], digits[Max(t)])]
           iter == CHOOSE f : IsFold(f)
<1>1. n \in Nat /\ base \in T /\ DOMAIN digits = 1..n
  BY DEF NoDigits, Decodings
<1>2. step \in [T \X (1..n) -> T]
  <2>1. \A i \in 1..n : digits[i] \in 0..31
    BY ItemsAre
  <2>2. \A i \in 1..n, s \in T : TakesDigit(s, digits[i]) \in T
    BY <2>1, DecodingGoesOn
  <2> QED
    BY <2>2
<1>3. \A a \in T, k \in 1..n : step[<<a, k>>] = TakesDigit(a, digits[k])
  OBVIOUS
<1>4. Base32Bytes(digits) = iter[1..n].bytes
  BY <1>1 DEF Base32Bytes, NoDigits, FoldLeft, MapThenFoldSet
<1> HIDE DEF T, n, step, base
<1>5. PICK f \in [SUBSET (1..n) -> T] :
         /\ GoesOn(f, base, T, step, n)
         /\ \A t \in SUBSET (1..n) : t # {} => Max(t) \in 1..n /\ f[t \ {Max(t)}] \in T
  BY <1>1, <1>2, FoldGoesOn
<1>6. IsFold(f)
  BY <1>1, <1>3, <1>5 DEF GoesOn
<1>7. IsFold(iter)
  <2> HIDE DEF IsFold
  <2> QED
    BY <1>6
<1> HIDE DEF iter
<1>8. GoesOn(iter, base, T, step, n)
  BY <1>1, <1>3, <1>5, <1>7, ZenonT(30) DEF GoesOn
<1>9. PICK st \in [0..n -> T] : Runs(st, base, T, step, n) /\ EndsWith(iter, st, n)
  <2> HIDE DEF IsFold
  <2>1. base \in T /\ n \in Nat
    BY <1>1
  <2> QED
    BY <1>2, <1>8, <2>1, StatesOfFold
<1> QED
  BY <1>3, <1>4, <1>9, ZenonT(30) DEF Runs, EndsWith, DecodingRun, n, T, base

\* The bit of the digits at a place, counted from the first.
DigitBit(digits, j) == Bit(digits[(j \div 5) + 1], 4 - (j % 5))

\* What the first k digits became: their bits are those of the bytes, and behind
\* them those that wait.
HoldsTheBits(s, digits, k) ==
    /\ 8 * Len(s.bytes) + s.bits = 5 * k
    /\ \A j \in 0..(8 * Len(s.bytes) - 1) :
          Bit(s.bytes[(j \div 8) + 1], 7 - (j % 8)) = DigitBit(digits, j)
    /\ \A j \in (8 * Len(s.bytes))..(5 * k - 1) :
          Bit(s.accumulator, 5 * k - 1 - j) = DigitBit(digits, j)

\* With the next digit behind them, the bits that waited are still in order.
LEMMA WaitingBits ==
    ASSUME NEW digits \in Seq(0..31), NEW k \in Nat, k + 1 \in 1..Len(digits),
           NEW s \in Decodings, HoldsTheBits(s, digits, k)
    PROVE  \A j \in (8 * Len(s.bytes))..(5 * k + 4) :
              Bit(s.accumulator * 32 + digits[k + 1], 5 * k + 4 - j) = DigitBit(digits, j)
<1> DEFINE a == s.accumulator
           d == digits[k + 1]
           m == Len(s.bytes)
<1>1. a \in Nat /\ d \in 0..31 /\ m \in Nat /\ s.bits \in 0..7 /\ 8 * m + s.bits = 5 * k
  <2>1. d \in 0..31
    BY ItemsAre
  <2>2. a \in Nat /\ s.bytes \in Seq(Nat) /\ s.bits \in 0..7
    BY DEF Decodings
  <2>3. m \in Nat
    BY <2>2, ItemsAre
  <2>4. 8 * m + s.bits = 5 * k
    BY DEF HoldsTheBits
  <2> HIDE DEF a, d, m
  <2> QED
    BY <2>1, <2>2, <2>3, <2>4
<1>2. \A j \in (8 * m)..(5 * k - 1) : Bit(a, 5 * k - 1 - j) = DigitBit(digits, j)
  BY DEF HoldsTheBits
<1> HIDE DEF a, d, m
<1>3. ASSUME NEW j \in (8 * m)..(5 * k + 4)
      PROVE  Bit(a * 32 + d, 5 * k + 4 - j) = DigitBit(digits, j)
  <2>1. CASE j < 5 * k
    <3> DEFINE p == 5 * k - 1 - j
    <3>1. p \in 0..6 /\ p + 5 = 5 * k + 4 - j /\ j \in (8 * m)..(5 * k - 1)
      BY <1>1, <2>1
    <3> HIDE DEF p
    <3>2. Bit(a * 32 + d, p + 5) = Bit(a, p)
      BY <1>1, <3>1, BitsMoveUp
    <3>3. Bit(a, 5 * k - 1 - j) = DigitBit(digits, j)
      BY <1>2, <3>1
    <3> QED
      BY <3>1, <3>2, <3>3 DEF p
  <2>2. CASE j >= 5 * k
    <3> DEFINE p == 5 * k + 4 - j
    <3>1. p \in 0..4 /\ j = 5 * k + (4 - p) /\ j \in Nat
      BY <1>1, <2>2
    <3> HIDE DEF p
    <3>4. j \div 5 = k /\ 4 - (j % 5) = p
      <4>1. \A e \in 0..4 : (5 * k + e) \div 5 = k /\ (5 * k + e) % 5 = e
        OBVIOUS
      <4>2. 4 - p \in 0..4 /\ 4 - (4 - p) = p
        BY <3>1
      <4> QED
        BY <3>1, <4>1, <4>2
    <3>2. Bit(a * 32 + d, p) = Bit(d, p)
      BY <1>1, <3>1, BitsOfTheDigit
    <3>3. Bit(d, p) = DigitBit(digits, j)
      BY <3>4 DEF DigitBit, d
    <3> QED
      BY <3>2, <3>3 DEF p
  <2>3. j < 5 * k \/ j >= 5 * k
    BY <1>1
  <2> QED
    BY <2>1, <2>2, <2>3
<1> QED
  BY <1>3 DEF a, d, m

\* A digit adds five bits: with three or more waiting they make a byte.
LEMMA BitsAddUp ==
    ASSUME NEW a \in Nat, NEW d \in 0..31, NEW m \in Nat, NEW w \in 0..7, NEW k \in Nat,
           8 * m + w = 5 * k
    PROVE  /\ a * 32 + d \in Nat
           /\ w < 3 => 8 * m + (w + 5) = 5 * (k + 1)
           /\ w >= 3 => w - 3 \in 0..4 /\ 8 * (m + 1) + (w - 3) = 5 * k + 5
OBVIOUS

\* The place of a bit in a list of bytes.
LEMMA BitOfAByte ==
    ASSUME NEW x \in Nat, NEW y \in 0..7
    PROVE  (8 * x + y) \div 8 = x /\ (8 * x + y) % 8 = y
OBVIOUS

\* The bits so far are the digits', and stay so with the next digit.
LEMMA OneDigitMore ==
    ASSUME NEW digits \in Seq(0..31), NEW k \in Nat, k + 1 \in 1..Len(digits),
           NEW s \in Decodings, HoldsTheBits(s, digits, k)
    PROVE  HoldsTheBits(TakesDigit(s, digits[k + 1]), digits, k + 1)
<1> DEFINE d == digits[k + 1]
           v == s.accumulator * 32 + d
           r == s.bits - 3
           m == Len(s.bytes)
           new == TakesDigit(s, d)
<1>1. /\ s.accumulator \in Nat /\ d \in 0..31 /\ m \in Nat /\ s.bits \in 0..7
      /\ s.bytes \in Seq(Nat) /\ DOMAIN s.bytes = 1..m /\ 8 * m + s.bits = 5 * k
  <2>1. d \in 0..31
    BY ItemsAre
  <2>2. s.accumulator \in Nat /\ s.bytes \in Seq(Nat) /\ s.bits \in 0..7
    BY DEF Decodings
  <2>3. m \in Nat /\ DOMAIN s.bytes = 1..m
    BY <2>2, ItemsAre
  <2>4. 8 * m + s.bits = 5 * k
    BY DEF HoldsTheBits
  <2> HIDE DEF d, m
  <2> QED
    BY <2>1, <2>2, <2>3, <2>4
<1>0. /\ s.accumulator \in Nat /\ d \in 0..31 /\ m \in Nat /\ s.bits \in 0..7
      /\ 8 * m + s.bits = 5 * k
  BY <1>1
<1>2. \A j \in 0..(8 * m - 1) : Bit(s.bytes[(j \div 8) + 1], 7 - (j % 8)) = DigitBit(digits, j)
  BY DEF HoldsTheBits
<1>3. /\ v \in Nat
      /\ s.bits < 3 => 8 * m + (s.bits + 5) = 5 * (k + 1)
      /\ s.bits >= 3 => r \in 0..4 /\ 8 * (m + 1) + r = 5 * k + 5
  <2> DEFINE a == s.accumulator
             w == s.bits
  <2>1. a \in Nat /\ d \in 0..31 /\ m \in Nat /\ w \in 0..7 /\ 8 * m + w = 5 * k
    BY <1>0
  <2> HIDE DEF a, w, d, m
  <2>2. /\ a * 32 + d \in Nat
        /\ w < 3 => 8 * m + (w + 5) = 5 * (k + 1)
        /\ w >= 3 => w - 3 \in 0..4 /\ 8 * (m + 1) + (w - 3) = 5 * k + 5
    BY <2>1, BitsAddUp
  <2> QED
    BY <2>2 DEF a, w
<1>4. \A j \in (8 * m)..(5 * k + 4) : Bit(v, 5 * k + 4 - j) = DigitBit(digits, j)
  BY WaitingBits
<1>5. /\ s.bits < 3 => new = [bytes |-> s.bytes, bits |-> s.bits + 5, accumulator |-> v]
      /\ s.bits >= 3 => new = [bytes |-> Append(s.bytes, v \div 2^r), bits |-> r,
                               accumulator |-> v % 2^r]
  BY <1>1, DigitIsTaken
<1>6. 5 * (k + 1) = 5 * k + 5 /\ 5 * (k + 1) - 1 = 5 * k + 4
  OBVIOUS
<1> HIDE DEF v, new, d
<1>7. ASSUME s.bits < 3 PROVE HoldsTheBits(new, digits, k + 1)
  <2>1. new.bytes = s.bytes /\ new.bits = s.bits + 5 /\ new.accumulator = v
    BY <1>5, <1>7
  <2>2. 8 * Len(new.bytes) + new.bits = 5 * (k + 1)
    <3>1. Len(new.bytes) = m
      BY <2>1
    <3> QED
      BY <1>3, <1>7, <2>1, <3>1, Zenon
  <2>3. \A j \in 0..(8 * Len(new.bytes) - 1) :
           Bit(new.bytes[(j \div 8) + 1], 7 - (j % 8)) = DigitBit(digits, j)
    BY <1>2, <2>1
  <2>4. \A j \in (8 * Len(new.bytes))..(5 * (k + 1) - 1) :
           Bit(new.accumulator, 5 * (k + 1) - 1 - j) = DigitBit(digits, j)
    BY <1>4, <1>6, <2>1
  <2> QED
    BY <2>2, <2>3, <2>4, Zenon DEF HoldsTheBits
<1>8. ASSUME s.bits >= 3 PROVE HoldsTheBits(new, digits, k + 1)
  <2> DEFINE byte == v \div 2^r
  <2>1. new.bytes = Append(s.bytes, byte) /\ new.bits = r /\ new.accumulator = v % 2^r
    BY <1>5, <1>8
  <2>2. r \in 0..4 /\ 8 * (m + 1) + r = 5 * k + 5
    BY <1>3, <1>8, Zenon
  <2> HIDE DEF r, byte
  <2>3. /\ Len(new.bytes) = m + 1 /\ new.bytes[m + 1] = byte
        /\ \A i \in 1..m : new.bytes[i] = s.bytes[i]
    BY <1>1, <2>1
  <2>4. 8 * Len(new.bytes) + new.bits = 5 * (k + 1)
    BY <1>6, <2>1, <2>2, <2>3
  <2>5. ASSUME NEW j \in 0..(8 * (m + 1) - 1)
        PROVE  Bit(new.bytes[(j \div 8) + 1], 7 - (j % 8)) = DigitBit(digits, j)
    <3>1. CASE j < 8 * m
      <4>1. j \in 0..(8 * m - 1) /\ (j \div 8) + 1 \in 1..m
        BY <1>1, <3>1
      <4>2. new.bytes[(j \div 8) + 1] = s.bytes[(j \div 8) + 1]
        BY <2>3, <4>1
      <4> QED
        BY <1>2, <4>1, <4>2
    <3>2. CASE j >= 8 * m
      <4> DEFINE e == j - 8 * m
      <4> HIDE DEF m
      <4>1. e \in 0..7 /\ j = 8 * m + e
        BY <1>0, <3>2
      <4> HIDE DEF e
      <4>3. j \div 8 = m /\ j % 8 = e
        BY <1>0, <4>1, BitOfAByte
      <4>4. (j \div 8) + 1 = m + 1
        BY <4>3
      <4> DEFINE p == 7 - (j % 8)
      <4>5. p \in 0..7 /\ p + r = 5 * k + 4 - j /\ j \in (8 * m)..(5 * k + 4)
        <5>1. p = 7 - e
          <6>1. j % 8 = e
            BY <4>3
          <6> QED
            BY <6>1
        <5> HIDE DEF p
        <5> QED
          BY <1>0, <2>2, <4>1, <5>1
      <4> HIDE DEF p
      <4>6. Bit(byte, p) = Bit(v, p + r)
        BY <1>3, <2>2, <4>5, BitsAbove DEF byte
      <4>7. Bit(v, 5 * k + 4 - j) = DigitBit(digits, j)
        BY <1>4, <4>5
      <4> QED
        BY <2>3, <4>4, <4>5, <4>6, <4>7 DEF p
    <3>3. j < 8 * m \/ j >= 8 * m
      BY <1>1
    <3> QED
      BY <3>1, <3>2, <3>3
  <2>6. ASSUME NEW j \in (8 * (m + 1))..(5 * k + 4)
        PROVE  Bit(new.accumulator, 5 * k + 4 - j) = DigitBit(digits, j)
    <3> DEFINE p == 5 * k + 4 - j
    <3>1. p \in 0..(r - 1) /\ j \in (8 * m)..(5 * k + 4)
      BY <1>0, <2>2
    <3> HIDE DEF p
    <3>2. Bit(v % 2^r, p) = Bit(v, p)
      BY <1>3, <2>2, <3>1, BitsLeft
    <3>3. Bit(v, 5 * k + 4 - j) = DigitBit(digits, j)
      BY <1>4, <3>1
    <3> QED
      BY <2>1, <3>2, <3>3 DEF p
  <2>7. \A j \in 0..(8 * Len(new.bytes) - 1) :
           Bit(new.bytes[(j \div 8) + 1], 7 - (j % 8)) = DigitBit(digits, j)
    BY <2>3, <2>5
  <2>8. \A j \in (8 * Len(new.bytes))..(5 * (k + 1) - 1) :
           Bit(new.accumulator, 5 * (k + 1) - 1 - j) = DigitBit(digits, j)
    BY <1>6, <2>3, <2>6
  <2> QED
    BY <2>4, <2>7, <2>8, Zenon DEF HoldsTheBits
<1>9. s.bits < 3 \/ s.bits >= 3
  BY <1>1
<1> QED
  BY <1>7, <1>8, <1>9 DEF new, d

\* The bits of the bytes are the bits of the digits, when those fill them.
LEMMA TopicsKeepTheirBits ==
    ASSUME NEW digits, IsTopic(digits)
    PROVE  BtihKeepsItsBits(digits)
<1> DEFINE n == Len(digits)
           bytes == Base32Bytes(digits)
<1>0. SUFFICES /\ 8 * Len(bytes) = 5 * n
               /\ \A j \in 0..(8 * Len(bytes) - 1) :
                     (bytes[(j \div 8) + 1] \div 2^(8 - 1 - (j % 8))) % 2
                        = (digits[(j \div 5) + 1] \div 2^(5 - 1 - (j % 5))) % 2
  BY DEF BtihKeepsItsBits
<1>1. digits \in Seq(0..31) /\ n \in Nat /\ n % 8 = 0
  BY DEF IsTopic
<1>2. PICK st \in [0..n -> Decodings] : DecodingRun(st, digits)
  BY <1>1, DecodingSteps
<1>3. /\ st[0] = NoDigits
      /\ \A k \in 1..n : st[k] = TakesDigit(st[k - 1], digits[k])
      /\ bytes = st[n].bytes
  BY <1>2 DEF DecodingRun
<1> DEFINE good == {k \in 0..n : HoldsTheBits(st[k], digits, k)}
<1> HIDE DEF bytes, n
<1>4. 0 \in good
  <2>1. st[0].bytes = <<>> /\ st[0].bits = 0 /\ Len(<<>>) = 0
    BY <1>3 DEF NoDigits
  <2>2. 0..(8 * 0 - 1) = {} /\ (8 * 0)..(5 * 0 - 1) = {}
    OBVIOUS
  <2>3. HoldsTheBits(st[0], digits, 0)
    BY <2>1, <2>2 DEF HoldsTheBits
  <2> QED
    BY <1>1, <2>3
<1>5. ASSUME NEW k \in 0..(n - 1), k \in good PROVE k + 1 \in good
  <2>1. k \in Nat /\ k \in 0..n /\ k + 1 \in 1..n /\ k + 1 \in 0..n /\ (k + 1) - 1 = k
    <3> HIDE DEF good
    <3> QED
      BY <1>1
  <2>2. st[k] \in Decodings /\ HoldsTheBits(st[k], digits, k)
    BY <1>5, <2>1
  <2>3. st[k + 1] = TakesDigit(st[k], digits[k + 1])
    BY <1>3, <2>1
  <2>4. HoldsTheBits(TakesDigit(st[k], digits[k + 1]), digits, k + 1)
    BY <1>1, <2>1, <2>2, OneDigitMore DEF n
  <2> QED
    BY <2>1, <2>3, <2>4
<1>6. n \in good
  <2>1. \A k \in 0..n : k \in good
    <3> HIDE DEF good
    <3> QED
      BY <1>1, <1>4, <1>5, UpTo
  <2> QED
    BY <1>1, <2>1
<1>7. HoldsTheBits(st[n], digits, n) /\ st[n] \in Decodings
  BY <1>1, <1>6
<1> DEFINE m == Len(bytes)
<1>8. 8 * m + st[n].bits = 5 * n /\ m \in Nat /\ st[n].bits \in 0..7
  <2>1. st[n].bytes \in Seq(Nat) /\ st[n].bits \in 0..7
    BY <1>7 DEF Decodings
  <2>2. m \in Nat
    BY <1>3, <2>1, ItemsAre
  <2>3. 8 * m + st[n].bits = 5 * n
    BY <1>3, <1>7 DEF HoldsTheBits
  <2> QED
    BY <2>1, <2>2, <2>3
<1>9. \A j \in 0..(8 * m - 1) : Bit(bytes[(j \div 8) + 1], 7 - (j % 8)) = DigitBit(digits, j)
  BY <1>3, <1>7 DEF HoldsTheBits
<1>10. 8 * m = 5 * n
  <2>1. n \in Nat /\ n % 8 = 0
    BY <1>1
  <2> DEFINE bits == st[n].bits
  <2>2. 8 * m + bits = 5 * n /\ m \in Nat /\ bits \in 0..7
    BY <1>8
  <2> HIDE DEF m, bits
  <2>3. n = 8 * (n \div 8)
    BY <2>1
  <2>4. n \div 8 \in Nat
    BY <2>1
  <2> QED
    BY <2>1, <2>2, <2>3, <2>4
<1>11. ASSUME NEW j \in 0..(8 * m - 1)
       PROVE  (bytes[(j \div 8) + 1] \div 2^(8 - 1 - (j % 8))) % 2
                 = (digits[(j \div 5) + 1] \div 2^(5 - 1 - (j % 5))) % 2
  <2>1. 8 - 1 - (j % 8) = 7 - (j % 8) /\ 5 - 1 - (j % 5) = 4 - (j % 5)
    BY <1>8
  <2>2. Bit(bytes[(j \div 8) + 1], 7 - (j % 8)) = DigitBit(digits, j)
    BY <1>9
  <2> QED
    BY <2>1, <2>2 DEF Bit, DigitBit
<1>12. \A j \in 0..(8 * m - 1) :
          (bytes[(j \div 8) + 1] \div 2^(8 - 1 - (j % 8))) % 2
             = (digits[(j \div 5) + 1] \div 2^(5 - 1 - (j % 5))) % 2
  BY <1>11
<1> QED
  BY <1>10, <1>12, Zenon

================================================================================
