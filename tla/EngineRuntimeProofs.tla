-------------------------- MODULE EngineRuntimeProofs --------------------------
(***************************************************************************)
(* Theorems about EngineRuntime and its preparation store, for any number  *)
(* of preparations, sizes, limits and acquisitions, and about ResumeStore, *)
(* for any number of saves in progress, any selections, crashes and        *)
(* changes of the payload.                                                 *)
(***************************************************************************)
EXTENDS EngineRuntime, ResumeStore, FiniteSetTheorems, TLAPS

(* ------------------- preparations and acquisitions ------------------------ *)

Bytes(some) == UNION {{p} \X (1..BytesOf[p]) : p \in some}

Reading == {p \in Remote : phase[p] = "reading"}

\* What is counted is finite, and the fetches are those under way.
Counted ==
    /\ IsFiniteSet(Kept(store)) /\ IsFiniteSet(Bytes(Kept(store)))
    /\ IsFiniteSet(Reading)
    /\ fetching = Cardinality(Reading)

\* The lane holds one of the commands, and none once it is closed.
LaneHolds ==
    /\ cmd \in {Idle} \cup [kind : {"open", "add"}, p : Preparations]
                      \cup [kind : {"archive", "remove"}, h : InfoHashes]
    /\ life \in {"closing", "closed"} => cmd = Idle

\* A preparation is kept once its metadata is stored, and told when it is ready.
KeptWhenStored ==
    /\ \A p \in Kept(store) : phase[p] \in {"stored", "ready"}
    /\ \A p \in told : phase[p] = "ready"

\* A reservation is that of the add in the lane, of a preparation that was told.
ReservedByLane ==
    /\ \A p \in Preparations :
          store.state[p] = "committing" <=> cmd = [kind |-> "add", p |-> p]
    /\ \A p \in Preparations : cmd = [kind |-> "add", p |-> p] => p \in told

\* A preparation that became a torrent is not kept any more, and not opened again.
AddedOnce ==
    \A p \in Preparations :
        /\ adds[p] \in {0, 1}
        /\ adds[p] = 1 => p \in told /\ store.state[p] = Absent

\* An open under way is awaited by the lane or its acquisition, or aborted.
OpenIsAwaited ==
    \A p \in Preparations :
        phase[p] \in {"reading", "validating", "stored"} =>
            cmd = [kind |-> "open", p |-> p] \/ p \in tracked \/ p \in aborted

\* What is kept and ready was told, can be asked about, or was not asked about.
ReadyIsNamed ==
    \A p \in Kept(store) : phase[p] = "ready" => p \in told \cup tracked \cup missed

\* Once the store is cleared only an open that comes late is kept.
ClearedStays == life \in {"closing", "closed"} => \A p \in Kept(store) : phase[p] = "stored"

IInv ==
    /\ TypeOK /\ StoreAgrees(store) /\ Counted /\ LaneHolds /\ KeptWhenStored
    /\ ReservedByLane /\ AddedOnce /\ OpenIsAwaited /\ ReadyIsNamed /\ ClearedStays

USE StoreAssumption, RuntimeAssumption

-----------------------------------------------------------------------------
(* Sums of bytes.                                                          *)

LEMMA BytesMember ==
    ASSUME NEW some \in SUBSET Preparations, NEW x
    PROVE  x \in Bytes(some) <=> \E p \in some : \E b \in 1..BytesOf[p] : x = <<p, b>>
  BY DEF Bytes

LEMMA BytesOfOne ==
    ASSUME NEW p \in Preparations
    PROVE  IsFiniteSet(Bytes({p})) /\ Cardinality(Bytes({p})) = BytesOf[p]
<1> DEFINE b == 1..BytesOf[p]
<1>1. Bytes({p}) = {p} \X b
  BY DEF Bytes
<1>2. IsFiniteSet({p}) /\ Cardinality({p}) = 1
  BY FS_Singleton
<1>3. BytesOf[p] \in Nat
  OBVIOUS
<1>4. IsFiniteSet(b) /\ Cardinality(b) = BytesOf[p]
  BY <1>3, FS_Interval
<1> HIDE DEF b
<1>5. IsFiniteSet({p} \X b) /\ Cardinality({p} \X b) = Cardinality({p}) * Cardinality(b)
  BY <1>2, <1>4, FS_Product
<1>6. Cardinality({p}) * Cardinality(b) = BytesOf[p]
  BY <1>2, <1>3, <1>4
<1> QED
  BY <1>1, <1>5, <1>6

LEMMA BytesIsCardinality ==
    ASSUME NEW some \in SUBSET Preparations, IsFiniteSet(Bytes(some))
    PROVE  BytesIn(some) = Cardinality(Bytes(some)) /\ BytesIn(some) \in Nat
<1>1. BytesIn(some) = Cardinality(Bytes(some))
  BY DEF BytesIn, Bytes
<1> QED
  BY <1>1, FS_CardinalityType

\* A preparation adds its bytes to those of the others.
LEMMA BytesWithOneMore ==
    ASSUME NEW some \in SUBSET Preparations, IsFiniteSet(Bytes(some)),
           NEW p \in Preparations, p \notin some
    PROVE  /\ IsFiniteSet(Bytes(some \cup {p}))
           /\ BytesIn(some \cup {p}) = BytesIn(some) + BytesOf[p]
<1>1. Bytes(some \cup {p}) = Bytes(some) \cup Bytes({p})
  BY BytesMember
<1>2. Bytes(some) \cap Bytes({p}) = {}
  BY BytesMember
<1>3. IsFiniteSet(Bytes({p})) /\ Cardinality(Bytes({p})) = BytesOf[p]
  BY BytesOfOne
<1>4. /\ IsFiniteSet(Bytes(some) \cup Bytes({p}))
      /\ Cardinality(Bytes(some) \cup Bytes({p}))
            = Cardinality(Bytes(some)) + Cardinality(Bytes({p}))
              - Cardinality(Bytes(some) \cap Bytes({p}))
  BY <1>3, FS_Union
<1>5. Cardinality(Bytes(some) \cap Bytes({p})) = 0
  BY <1>2, FS_EmptySet
<1>6. BytesIn(some) = Cardinality(Bytes(some)) /\ BytesIn(some) \in Nat
  BY BytesIsCardinality
<1>7. BytesIn(some \cup {p}) = Cardinality(Bytes(some \cup {p}))
  BY <1>1, <1>4, BytesIsCardinality
<1>8. BytesOf[p] \in Nat
  OBVIOUS
<1>9. IsFiniteSet(Bytes(some \cup {p}))
  BY <1>1, <1>4
<1>10. Cardinality(Bytes(some \cup {p})) = Cardinality(Bytes(some)) + BytesOf[p] - 0
  BY <1>1, <1>3, <1>4, <1>5
<1> QED
  BY <1>6, <1>7, <1>8, <1>9, <1>10

\* Those that are taken away take their bytes with them.
LEMMA BytesWithoutSome ==
    ASSUME NEW some \in SUBSET Preparations, IsFiniteSet(Bytes(some)),
           NEW gone \in SUBSET some
    PROVE  /\ IsFiniteSet(Bytes(some \ gone))
           /\ BytesIn(some \ gone) = BytesIn(some) - BytesIn(gone)
           /\ BytesIn(some \ gone) \in Nat /\ BytesIn(some \ gone) <= BytesIn(some)
<1>1. Bytes(some \ gone) = Bytes(some) \ Bytes(gone)
  <2>1. ASSUME NEW x PROVE x \in Bytes(some \ gone) <=> x \in Bytes(some) \ Bytes(gone)
    BY BytesMember
  <2> QED
    BY <2>1
<1>2. Bytes(gone) \in SUBSET Bytes(some)
  <2>1. ASSUME NEW x \in Bytes(gone) PROVE x \in Bytes(some)
    BY BytesMember
  <2> QED
    BY <2>1
<1>3. IsFiniteSet(Bytes(gone)) /\ Bytes(some) \cap Bytes(gone) = Bytes(gone)
  BY <1>2, FS_Subset
<1>4. /\ IsFiniteSet(Bytes(some) \ Bytes(gone))
      /\ Cardinality(Bytes(some) \ Bytes(gone))
            = Cardinality(Bytes(some)) - Cardinality(Bytes(some) \cap Bytes(gone))
  BY FS_Difference
<1>5. /\ BytesIn(some) = Cardinality(Bytes(some)) /\ BytesIn(some) \in Nat
      /\ BytesIn(gone) = Cardinality(Bytes(gone)) /\ BytesIn(gone) \in Nat
  BY <1>3, BytesIsCardinality
<1>6. /\ BytesIn(some \ gone) = Cardinality(Bytes(some \ gone))
      /\ BytesIn(some \ gone) \in Nat
  BY <1>1, <1>4, BytesIsCardinality
<1>7. Cardinality(Bytes(some \ gone)) = Cardinality(Bytes(some)) - Cardinality(Bytes(gone))
  BY <1>1, <1>3, <1>4
<1>8. IsFiniteSet(Bytes(some \ gone))
  BY <1>1, <1>4
<1> QED
  BY <1>5, <1>6, <1>7, <1>8

-----------------------------------------------------------------------------
(* The operations of the store.                                            *)

StoreInv(s) ==
    StoreOK(s) /\ StoreAgrees(s) /\ IsFiniteSet(Kept(s)) /\ IsFiniteSet(Bytes(Kept(s)))

\* Records that are removed take their index entries and their bytes along, and
\* leave the others alone.
LEMMA WithoutStore ==
    ASSUME NEW s, StoreInv(s), NEW gone \in SUBSET Kept(s)
    PROVE  /\ StoreInv(Without(s, gone))
           /\ Kept(Without(s, gone)) = Kept(s) \ gone
           /\ \A p \in Preparations : p \notin gone => Without(s, gone).state[p] = s.state[p]
           /\ \A p \in gone : Without(s, gone).state[p] = Absent
<1> DEFINE w == Without(s, gone)
<1>1. /\ Kept(s) \in SUBSET Preparations
      /\ gone \in SUBSET Preparations
  BY DEF Kept
<1>2. /\ IsFiniteSet(Bytes(Kept(s) \ gone))
      /\ BytesIn(Kept(s) \ gone) = BytesIn(Kept(s)) - BytesIn(gone)
      /\ BytesIn(Kept(s) \ gone) \in Nat /\ BytesIn(Kept(s) \ gone) <= BytesIn(Kept(s))
  BY <1>1, BytesWithoutSome DEF StoreInv
<1>3. /\ w.state = [p \in Preparations |-> IF p \in gone THEN Absent ELSE s.state[p]]
      /\ w.byHash = {e \in s.byHash : \A p \in gone : e[1] # HashOf[p]}
      /\ w.retained = s.retained - BytesIn(gone)
      /\ w.selected = [p \in Preparations |-> IF p \in gone THEN {} ELSE s.selected[p]]
      /\ w = [state |-> w.state, byHash |-> w.byHash, retained |-> w.retained,
               selected |-> w.selected]
  BY DEF Without
<1>4. /\ s.state \in [Preparations -> {Absent, "open", "committing"}]
      /\ s.byHash \subseteq InfoHashes \X Preparations
      /\ s.selected \in [Preparations -> SUBSET Nat]
      /\ s.retained = BytesIn(Kept(s))
      /\ s.byHash = {<<HashOf[p], p>> : p \in Kept(s)}
      /\ \A p, q \in Kept(s) : HashOf[p] = HashOf[q] => p = q
      /\ Cardinality(Kept(s)) <= MaxPreparations /\ s.retained <= MaxRetainedBytes
      /\ IsFiniteSet(Kept(s))
  BY DEF StoreInv, StoreOK, StoreAgrees
<1> HIDE DEF w
<1>5. w.retained \in Nat /\ w.retained <= MaxRetainedBytes /\ s.retained \in Nat
  BY <1>2, <1>3, <1>4 DEF StoreInv, StoreOK
<1>6. Kept(w) = Kept(s) \ gone
  BY <1>1, <1>3, <1>4 DEF Kept, Absent
<1>7. StoreOK(w)
  <2>1. w.state \in [Preparations -> {Absent, "open", "committing"}]
    BY <1>3, <1>4
  <2>2. w.selected \in [Preparations -> SUBSET Nat]
    BY <1>3, <1>4
  <2>3. w.byHash \in SUBSET (InfoHashes \X Preparations)
    BY <1>3, <1>4
  <2> QED
    BY <1>3, <1>5, <2>1, <2>2, <2>3, Zenon DEF StoreOK
<1>8. StoreAgrees(w)
  <2>1. w.byHash = {<<HashOf[p], p>> : p \in Kept(s) \ gone}
    BY <1>3, <1>4
  <2>2. Cardinality(Kept(s) \ gone) <= MaxPreparations
    <3>1. /\ Cardinality(Kept(s) \ gone) <= Cardinality(Kept(s))
          /\ Cardinality(Kept(s) \ gone) \in Nat /\ Cardinality(Kept(s)) \in Nat
      BY <1>4, FS_Subset, FS_CardinalityType, Kept(s) \ gone \in SUBSET Kept(s)
    <3> QED
      BY <1>4, <3>1
  <2> QED
    BY <1>2, <1>3, <1>4, <1>5, <1>6, <2>1, <2>2 DEF StoreAgrees
<1>9. IsFiniteSet(Kept(w))
  BY <1>4, <1>6, FS_Subset
<1>10. StoreInv(w)
  BY <1>2, <1>6, <1>7, <1>8, <1>9 DEF StoreInv
<1>11. /\ \A p \in Preparations : p \notin gone => w.state[p] = s.state[p]
       /\ \A p \in gone : w.state[p] = Absent
  BY <1>1, <1>3
<1> QED
  BY <1>6, <1>10, <1>11 DEF w

\* The metadata that create() takes in has its entry and its bytes.
LEMMA CreatedStore ==
    ASSUME NEW s, StoreInv(s), NEW p \in Preparations, s.state[p] = Absent,
           CreateAnswer(s, p) = "ok"
    PROVE  /\ StoreInv(Created(s, p))
           /\ Kept(Created(s, p)) = Kept(s) \cup {p}
           /\ Created(s, p).state = [s.state EXCEPT ![p] = "open"]
<1> DEFINE c == Created(s, p)
<1>1. /\ s.state \in [Preparations -> {Absent, "open", "committing"}]
      /\ s.byHash \subseteq InfoHashes \X Preparations
      /\ s.selected \in [Preparations -> SUBSET Nat]
      /\ s.retained = BytesIn(Kept(s)) /\ s.retained \in Nat
      /\ s.byHash = {<<HashOf[q], q>> : q \in Kept(s)}
      /\ \A q, x \in Kept(s) : HashOf[q] = HashOf[x] => q = x
      /\ Cardinality(Kept(s)) <= MaxPreparations /\ s.retained <= MaxRetainedBytes
      /\ IsFiniteSet(Kept(s)) /\ IsFiniteSet(Bytes(Kept(s)))
  BY DEF StoreInv, StoreOK, StoreAgrees
<1>2. /\ ~\E q \in Preparations : <<HashOf[p], q>> \in s.byHash
      /\ ~(Cardinality(Kept(s)) >= MaxPreparations)
      /\ ~(s.retained + BytesOf[p] > MaxRetainedBytes)
  BY DEF CreateAnswer
<1>3. /\ c.state = [s.state EXCEPT ![p] = "open"]
      /\ c.byHash = s.byHash \cup {<<HashOf[p], p>>}
      /\ c.retained = s.retained + BytesOf[p]
  BY DEF Created, StoreInv, StoreOK
<1>9. ASSUME [s.state EXCEPT ![p] = "open"]
                 \in [Preparations -> {Absent, "open", "committing"}],
             s.byHash \cup {<<HashOf[p], p>>} \in SUBSET (InfoHashes \X Preparations),
             s.retained + BytesOf[p] \in Nat
      PROVE  StoreOK(c)
  BY <1>9 DEF Created, StoreInv, StoreOK
<1> HIDE DEF c
<1>4. Kept(c) = Kept(s) \cup {p} /\ p \notin Kept(s) /\ Kept(s) \subseteq Preparations
  BY <1>1, <1>3 DEF Kept, Absent
<1>5. /\ IsFiniteSet(Bytes(Kept(c)))
      /\ c.retained = BytesIn(Kept(c)) /\ c.retained \in Nat
  <2>1. /\ IsFiniteSet(Bytes(Kept(s) \cup {p}))
        /\ BytesIn(Kept(s) \cup {p}) = BytesIn(Kept(s)) + BytesOf[p]
    BY <1>1, <1>4, BytesWithOneMore
  <2>2. BytesOf[p] \in Nat
    OBVIOUS
  <2> QED
    BY <1>1, <1>3, <1>4, <2>1, <2>2
<1>6. /\ IsFiniteSet(Kept(c)) /\ Cardinality(Kept(c)) = Cardinality(Kept(s)) + 1
      /\ Cardinality(Kept(s)) \in Nat
  BY <1>1, <1>4, FS_AddElement, FS_CardinalityType
<1>7. StoreOK(c)
  <2>1. c.state \in [Preparations -> {Absent, "open", "committing"}]
    BY <1>1, <1>3
  <2>2. c.byHash \in SUBSET (InfoHashes \X Preparations)
    BY <1>1, <1>3 DEF InfoHashes
  <2> QED
    BY <1>3, <1>5, <1>9, <2>1, <2>2
<1>8. StoreAgrees(c)
  <2>1. c.byHash = {<<HashOf[q], q>> : q \in Kept(c)}
    BY <1>1, <1>3, <1>4
  <2>2. \A q, x \in Kept(c) : HashOf[q] = HashOf[x] => q = x
    <3>1. \A q \in Kept(s) : HashOf[p] # HashOf[q]
      BY <1>1, <1>2, <1>4
    <3> QED
      BY <1>1, <1>4, <3>1
  <2>3. Cardinality(Kept(c)) <= MaxPreparations
    BY <1>1, <1>2, <1>6
  <2>4. c.retained <= MaxRetainedBytes
    <3>1. BytesOf[p] \in Nat
      OBVIOUS
    <3> QED
      BY <1>1, <1>2, <1>3, <3>1
  <2> QED
    BY <1>5, <2>1, <2>2, <2>3, <2>4 DEF StoreAgrees
<1> QED
  BY <1>3, <1>4, <1>5, <1>6, <1>7, <1>8 DEF StoreInv, c

\* The state of a record that stays, and its selection, are not in the index.
LEMMA MarkedStore ==
    ASSUME NEW s, StoreInv(s), NEW p \in Kept(s), NEW mark \in {"open", "committing"}
    PROVE  /\ StoreInv([s EXCEPT !.state[p] = mark])
           /\ Kept([s EXCEPT !.state[p] = mark]) = Kept(s)
           /\ [s EXCEPT !.state[p] = mark].state = [s.state EXCEPT ![p] = mark]
<1> DEFINE c == [s EXCEPT !.state[p] = mark]
<1>1. /\ c.state = [s.state EXCEPT ![p] = mark]
      /\ c.byHash = s.byHash /\ c.retained = s.retained
      /\ StoreOK(c)
  BY DEF StoreInv, StoreOK, Kept
<1> HIDE DEF c
<1>2. Kept(c) = Kept(s)
  BY <1>1 DEF Kept, StoreInv, StoreOK, Absent
<1>3. StoreInv(c)
  BY <1>1, <1>2 DEF StoreInv, StoreAgrees
<1> QED
  BY <1>1, <1>2, <1>3 DEF c

LEMMA SelectedStore ==
    ASSUME NEW s, StoreInv(s), NEW p \in Preparations,
           NEW add \in SUBSET Nat, NEW remove \in SUBSET Nat
    PROVE  /\ StoreInv(Selected(s, p, add, remove))
           /\ Selected(s, p, add, remove).state = s.state
           /\ Kept(Selected(s, p, add, remove)) = Kept(s)
<1> DEFINE c == Selected(s, p, add, remove)
<1>1. /\ c.state = s.state /\ c.byHash = s.byHash /\ c.retained = s.retained
      /\ StoreOK(c)
  BY DEF Selected, StoreInv, StoreOK
<1> HIDE DEF c
<1>2. Kept(c) = Kept(s)
  BY <1>1 DEF Kept
<1>3. StoreInv(c)
  BY <1>1, <1>2 DEF StoreInv, StoreAgrees
<1> QED
  BY <1>1, <1>2, <1>3 DEF c

LEMMA ClearedStore ==
    ASSUME NEW s
    PROVE  StoreInv(Cleared(s)) /\ Kept(Cleared(s)) = {}
           /\ \A p \in Preparations : Cleared(s).state[p] = Absent
<1>1. Kept(EmptyStore) = {}
  BY DEF EmptyStore, Kept
<1>2. Bytes({}) = {}
  BY DEF Bytes
<1>3. IsFiniteSet({}) /\ Cardinality({}) = 0
  BY FS_EmptySet
<1>4. StoreOK(EmptyStore)
  BY DEF EmptyStore, StoreOK
<1>5. BytesIn({}) = 0
  BY <1>2, <1>3 DEF BytesIn, Bytes
<1>6. StoreAgrees(EmptyStore)
  <2>1. EmptyStore.byHash = {} /\ EmptyStore.retained = 0
    BY DEF EmptyStore
  <2> QED
    BY <1>1, <1>3, <1>5, <2>1 DEF StoreAgrees
<1>7. \A p \in Preparations : EmptyStore.state[p] = Absent
  BY DEF EmptyStore
<1> QED
  BY <1>1, <1>2, <1>3, <1>4, <1>6, <1>7 DEF StoreInv, Cleared

\* From s to t only records that were open have gone.
Shrinks(s, t) ==
    \A p \in Preparations : \/ t.state[p] = s.state[p]
                            \/ (s.state[p] = "open" /\ t.state[p] = Absent)

LEMMA ExpiredStore ==
    ASSUME NEW s, StoreInv(s), NEW late \in SUBSET Preparations
    PROVE  StoreInv(Expired(s, late)) /\ Shrinks(s, Expired(s, late))
<1>1. Expiring(s, late) \in SUBSET Kept(s)
  BY DEF Expiring, Kept, Absent
<1> QED
  BY <1>1, WithoutStore DEF Expired, Shrinks, Expiring

LEMMA DiscardedStore ==
    ASSUME NEW s, StoreInv(s), NEW p \in Preparations
    PROVE  /\ StoreInv(Discarded(s, p)) /\ Shrinks(s, Discarded(s, p))
           /\ Discarded(s, p).state[p] # "open"
<1>1. CASE s.state[p] = "open"
  <2>1. {p} \in SUBSET Kept(s) /\ p \in {p}
    BY <1>1 DEF Kept, Absent
  <2>2. Discarded(s, p) = Without(s, {p})
    BY <1>1 DEF Discarded
  <2> QED
    BY <1>1, <2>1, <2>2, WithoutStore DEF Shrinks, Absent
<1>2. CASE s.state[p] # "open"
  BY <1>2 DEF Discarded, Shrinks
<1> QED
  BY <1>1, <1>2

LEMMA ShrinksTransitive ==
    ASSUME NEW s, NEW t, NEW u, Shrinks(s, t), Shrinks(t, u)
    PROVE  Shrinks(s, u)
  BY DEF Shrinks, Absent

-----------------------------------------------------------------------------
(* Opens and fetches.                                                      *)

Phases == {"none", "reading", "validating", "stored", "ready", "failed"}

\* An open that begins is counted if it fetches.
LEMMA BeginCounts ==
    ASSUME IInv, NEW p \in Preparations, phase[p] = "none", Begin(p)
    PROVE  /\ phase' \in [Preparations -> Phases]
           /\ phase'[p] \in {"reading", "failed"}
           /\ \A q \in Preparations : q # p => phase'[q] = phase[q]
           /\ IsFiniteSet(Reading') /\ fetching' = Cardinality(Reading') /\ fetching' \in Nat
<1>1. phase \in [Preparations -> Phases] /\ IsFiniteSet(Reading) /\ fetching = Cardinality(Reading)
      /\ fetching \in Nat /\ p \notin Reading
  BY DEF IInv, TypeOK, Phases, Counted, Reading
<1>2. CASE p \in Remote /\ fetching >= MaxFetches
  <2>1. phase' = [phase EXCEPT ![p] = "failed"] /\ fetching' = fetching
    BY <1>2 DEF Begin, Goes
  <2>2. Reading' = Reading
    BY <1>1, <2>1 DEF Reading
  <2> QED
    BY <1>1, <2>1, <2>2 DEF Phases
<1>3. CASE ~(p \in Remote /\ fetching >= MaxFetches)
  <2>1. /\ phase' = [phase EXCEPT ![p] = "reading"]
        /\ fetching' = IF p \in Remote THEN fetching + 1 ELSE fetching
    BY <1>3 DEF Begin, Goes
  <2>2. CASE p \in Remote
    <3>1. Reading' = Reading \cup {p}
      BY <1>1, <2>1, <2>2 DEF Reading
    <3> QED
      BY <1>1, <2>1, <2>2, <3>1, FS_AddElement DEF Phases
  <2>3. CASE p \notin Remote
    <3>1. Reading' = Reading
      BY <1>1, <2>1, <2>3 DEF Reading
    <3> QED
      BY <1>1, <2>1, <2>3, <3>1 DEF Phases
  <2> QED
    BY <2>2, <2>3
<1> QED
  BY <1>2, <1>3

\* An open that goes on to another place than a fetch leaves the others alone.
LEMMA GoesCounts ==
    ASSUME IInv, NEW p \in Preparations, NEW place \in Phases \ {"reading"}, Goes(p, place)
    PROVE  /\ phase' \in [Preparations -> Phases]
           /\ phase'[p] = place
           /\ \A q \in Preparations : q # p => phase'[q] = phase[q]
           /\ Reading' = Reading \ {p}
  BY DEF IInv, TypeOK, Phases, Goes, Reading

\* A store that shrinks takes nothing that is reserved, and adds nothing.
LEMMA ShrunkStore ==
    ASSUME IInv, StoreInv(store'), Shrinks(store, store')
    PROVE  /\ \A p \in Preparations :
                 /\ store'.state[p] = "committing" <=> store.state[p] = "committing"
                 /\ store.state[p] = Absent => store'.state[p] = Absent
           /\ Kept(store') \subseteq Kept(store) /\ Kept(store) \subseteq Preparations
           /\ StoreOK(store') /\ StoreAgrees(store')
           /\ IsFiniteSet(Kept(store')) /\ IsFiniteSet(Bytes(Kept(store')))
  BY DEF Shrinks, Kept, Absent, StoreInv

-----------------------------------------------------------------------------
(* Opens, step by step.                                                    *)

LEMMA ReadEndsInv ==
    ASSUME IInv, NEW p \in Preparations, ReadEnds(p)
    PROVE  IInv'
<1>1. PICK good \in BOOLEAN :
        /\ fetching' = FetchOver(p, good)
        /\ Goes(p, IF good /\ p \notin aborted THEN "validating" ELSE "failed")
  BY DEF ReadEnds
<1>2. /\ phase' \in [Preparations -> Phases]
      /\ phase'[p] \in {"validating", "failed"} /\ phase[p] = "reading"
      /\ \A q \in Preparations : q # p => phase'[q] = phase[q]
      /\ Reading' = Reading \ {p}
  BY <1>1, GoesCounts DEF ReadEnds, Phases
<1>3. /\ UNCHANGED <<missed, store, due, aborted, tracked, told, loaded, adds, life>>
      /\ acqDue' \subseteq acqDue
      /\ cmd' = cmd \/ (cmd' = Idle /\ cmd = [kind |-> "open", p |-> p] /\ phase'[p] = "failed")
      /\ phase \in [Preparations -> Phases]
  BY DEF ReadEnds, IInv, TypeOK, Phases
<1>4. IsFiniteSet(Reading') /\ fetching' = Cardinality(Reading') /\ fetching' \in Nat
  <2>1. p \in Reading <=> p \in Remote
    BY <1>2 DEF Reading
  <2>2. IsFiniteSet(Reading) /\ fetching = Cardinality(Reading)
    BY DEF IInv, Counted
  <2>3. /\ IsFiniteSet(Reading \ {p})
        /\ Cardinality(Reading \ {p}) = IF p \in Reading THEN Cardinality(Reading) - 1
                                        ELSE Cardinality(Reading)
    BY <2>2, FS_RemoveElement
  <2> QED
    BY <1>1, <1>2, <2>1, <2>2, <2>3, FS_CardinalityType DEF FetchOver
<1>5. TypeOK'
  BY <1>2, <1>3, <1>4 DEF IInv, TypeOK, Phases, Idle
<1>6. LaneHolds' /\ Counted' /\ StoreAgrees(store)'
  BY <1>3, <1>4 DEF IInv, LaneHolds, Counted, StoreAgrees
<1>7. Kept(store') = Kept(store) /\ Kept(store) \subseteq Preparations
  BY <1>3 DEF Kept
<1>8. KeptWhenStored'
  BY <1>2, <1>3, <1>7 DEF IInv, KeptWhenStored, TypeOK
<1>9. ReservedByLane' /\ AddedOnce'
  BY <1>3 DEF IInv, ReservedByLane, AddedOnce, Idle
<1>10. OpenIsAwaited'
  BY <1>2, <1>3 DEF IInv, OpenIsAwaited
<1>11. ReadyIsNamed' /\ ClearedStays'
  BY <1>2, <1>3, <1>7 DEF IInv, ReadyIsNamed, ClearedStays, KeptWhenStored
<1> QED
  BY <1>5, <1>6, <1>8, <1>9, <1>10, <1>11 DEF IInv

LEMMA ValidateEndsInv ==
    ASSUME IInv, NEW p \in Preparations, ValidateEnds(p)
    PROVE  IInv'
<1>1. /\ StoreInv(store) /\ store.state[p] = Absent
      /\ FilesOf[p] \in SUBSET Nat /\ due \in SUBSET Preparations
  BY DEF IInv, TypeOK, StoreInv, Counted, ValidateEnds, KeptWhenStored, Kept
<1>2. /\ StoreInv(store')
      /\ \A q \in Preparations : q # p =>
            \/ store'.state[q] = store.state[q]
            \/ (store.state[q] = "open" /\ store'.state[q] = Absent)
      /\ \/ Goes(p, "stored") /\ store'.state[p] = "open"
         \/ Goes(p, "failed") /\ store'.state[p] = Absent
  <2> DEFINE s == Expired(store, due)
  <2>1. StoreInv(s) /\ Shrinks(store, s) /\ s.state[p] = Absent
    BY <1>1, ExpiredStore DEF Shrinks, Absent
  <2> HIDE DEF s
  <2>2. ASSUME Goes(p, "failed"), store' = s \/ store' = store
        PROVE  /\ StoreInv(store') /\ Shrinks(store, store') /\ store'.state[p] = Absent
    <3>1. CASE store' = s
      BY <2>1, <3>1
    <3>2. CASE store' = store
      BY <1>1, <3>2 DEF Shrinks
    <3> QED
      BY <2>2, <3>1, <3>2
  <2>3. ASSUME CreateAnswer(s, p) = "ok", NEW files \in {{}, FilesOf[p]},
               store' = Selected(Created(s, p), p, files, {})
        PROVE  /\ StoreInv(store') /\ store'.state[p] = "open"
               /\ \A q \in Preparations : q # p => store'.state[q] = s.state[q]
    <3>1. StoreInv(Created(s, p)) /\ Created(s, p).state = [s.state EXCEPT ![p] = "open"]
      BY <2>1, <2>3, CreatedStore
    <3>2. StoreInv(store') /\ store'.state = [s.state EXCEPT ![p] = "open"]
      BY <1>1, <2>3, <3>1, SelectedStore
    <3>3. s.state \in [Preparations -> {Absent, "open", "committing"}]
      BY <2>1 DEF StoreInv, StoreOK
    <3> QED
      BY <3>2, <3>3
  <2>4. \/ /\ CreateAnswer(s, p) = "ok" /\ Goes(p, "stored")
           /\ \E files \in {{}, FilesOf[p]} : store' = Selected(Created(s, p), p, files, {})
        \/ Goes(p, "failed") /\ (store' = s \/ store' = store)
    BY DEF ValidateEnds, s
  <2>5. CASE Goes(p, "failed") /\ (store' = s \/ store' = store)
    BY <2>2, <2>5 DEF Shrinks
  <2>6. CASE /\ CreateAnswer(s, p) = "ok" /\ Goes(p, "stored")
             /\ \E files \in {{}, FilesOf[p]} : store' = Selected(Created(s, p), p, files, {})
    <3>1. /\ StoreInv(store') /\ store'.state[p] = "open"
          /\ \A q \in Preparations : q # p => store'.state[q] = s.state[q]
      BY <2>3, <2>6
    <3> QED
      BY <2>1, <2>6, <3>1 DEF Shrinks
  <2> QED
    BY <2>4, <2>5, <2>6
<1>3. /\ phase' \in [Preparations -> Phases]
      /\ phase'[p] \in {"stored", "failed"} /\ phase[p] = "validating"
      /\ phase'[p] = "failed" => store'.state[p] = Absent
      /\ store'.state[p] # "committing"
      /\ \A q \in Preparations : q # p => phase'[q] = phase[q]
      /\ Reading' = Reading
  <2>1. phase[p] = "validating" /\ p \notin Reading
    BY DEF ValidateEnds, Reading
  <2>2. Goes(p, "stored") \/ Goes(p, "failed")
    BY <1>2
  <2>3. {"stored", "failed"} \subseteq Phases \ {"reading"}
    BY DEF Phases
  <2>4. PICK place \in {"stored", "failed"} : Goes(p, place)
    BY <2>2
  <2>5. /\ phase' \in [Preparations -> Phases]
        /\ phase'[p] = place
        /\ \A q \in Preparations : q # p => phase'[q] = phase[q]
        /\ Reading' = Reading \ {p}
    BY <2>3, <2>4, GoesCounts
  <2>6. Goes(p, "stored") => phase'[p] = "stored"
    BY <2>1 DEF Goes, IInv, TypeOK
  <2> QED
    BY <1>2, <2>1, <2>5, <2>6 DEF Absent
<1>4. /\ UNCHANGED <<missed, due, aborted, fetching, tracked, told, loaded, adds, life>>
      /\ acqDue' \subseteq acqDue
      /\ cmd' = cmd \/ (cmd' = Idle /\ cmd = [kind |-> "open", p |-> p] /\ phase'[p] = "failed")
  BY DEF ValidateEnds
<1>5. TypeOK' /\ StoreAgrees(store') /\ Counted' /\ LaneHolds'
  BY <1>2, <1>3, <1>4 DEF IInv, TypeOK, StoreInv, Counted, LaneHolds, Phases, Idle
<1>6. KeptWhenStored'
  BY <1>2, <1>3, <1>4 DEF IInv, KeptWhenStored, Kept, TypeOK
<1>7. ReservedByLane' /\ AddedOnce'
  <2>1. p \notin told /\ cmd # [kind |-> "add", p |-> p]
    BY <1>3 DEF IInv, KeptWhenStored, ReservedByLane
  <2>2. \A q \in Preparations : store'.state[q] = "committing" <=> store.state[q] = "committing"
    BY <1>1, <1>2, <1>3 DEF Absent
  <2> QED
    BY <1>2, <1>4, <2>1, <2>2 DEF IInv, ReservedByLane, AddedOnce, Idle, Absent
<1>8. OpenIsAwaited'
  BY <1>3, <1>4 DEF IInv, OpenIsAwaited
<1>9. ReadyIsNamed' /\ ClearedStays'
  BY <1>2, <1>3, <1>4 DEF IInv, ReadyIsNamed, ClearedStays, Kept
<1> QED
  BY <1>5, <1>6, <1>7, <1>8, <1>9 DEF IInv

LEMMA OpenEndsInv ==
    ASSUME IInv, NEW p \in Preparations, OpenEnds(p)
    PROVE  IInv'
<1>1. /\ StoreInv(store) /\ due \in SUBSET Preparations /\ phase[p] = "stored"
      /\ phase \in [Preparations -> Phases]
      /\ p \notin told /\ store.state[p] # "committing"
  <2>1. p \notin told
    BY DEF IInv, KeptWhenStored, OpenEnds
  <2> QED
    BY <2>1 DEF IInv, TypeOK, StoreInv, Counted, OpenEnds, Phases, ReservedByLane
<1>2. /\ StoreInv(store') /\ Shrinks(store, store')
      /\ Unwanted(p) => store'.state[p] = Absent
  <2>1. CASE Unwanted(p)
    <3> DEFINE s == Expired(store, due)
    <3>1. StoreInv(s) /\ Shrinks(store, s)
      BY <1>1, ExpiredStore
    <3>2. store' = Discarded(s, p)
      BY <2>1 DEF OpenEnds
    <3>3. s.state[p] # "committing"
      BY <1>1, <3>1 DEF Shrinks, Absent
    <3> HIDE DEF s
    <3>4. StoreInv(store') /\ Shrinks(s, store') /\ store'.state[p] # "open"
      BY <3>1, <3>2, DiscardedStore
    <3>5. Shrinks(store, store')
      BY <3>1, <3>4, ShrinksTransitive
    <3>6. store'.state[p] \in {Absent, "open", "committing"}
      BY <3>4 DEF StoreInv, StoreOK
    <3>7. store'.state[p] # "committing"
      BY <3>3, <3>4 DEF Shrinks, Absent
    <3> QED
      BY <3>4, <3>5, <3>6, <3>7
  <2>2. CASE ~Unwanted(p)
    <3>1. store' = store
      BY <2>2 DEF OpenEnds
    <3> QED
      BY <1>1, <2>2, <3>1 DEF Shrinks
  <2> QED
    BY <2>1, <2>2
<1>3. /\ phase' \in [Preparations -> Phases]
      /\ phase'[p] = IF Unwanted(p) THEN "failed" ELSE "ready"
      /\ \A q \in Preparations : q # p => phase'[q] = phase[q]
      /\ Reading' = Reading
  BY <1>1 DEF OpenEnds, Goes, Phases, Reading
<1>4. /\ UNCHANGED <<missed, due, aborted, fetching, tracked, loaded, adds, life>>
      /\ acqDue' = acqDue \ {p}
  BY DEF OpenEnds
<1>5. \/ cmd = [kind |-> "open", p |-> p] /\ cmd' = Idle
         /\ told' = (IF Unwanted(p) THEN told ELSE told \cup {p})
      \/ cmd # [kind |-> "open", p |-> p] /\ cmd' = cmd /\ told' = told
  BY DEF OpenEnds
<1>6. told \subseteq told' /\ told' \subseteq told \cup {p}
  BY <1>5
<1>7. /\ \A q \in Preparations :
            /\ store'.state[q] = "committing" <=> store.state[q] = "committing"
            /\ store.state[q] = Absent => store'.state[q] = Absent
      /\ Kept(store') \subseteq Kept(store) /\ Kept(store) \subseteq Preparations
      /\ StoreOK(store') /\ StoreAgrees(store')
      /\ IsFiniteSet(Kept(store')) /\ IsFiniteSet(Bytes(Kept(store')))
  BY <1>2, ShrunkStore
<1>8. TypeOK'
  BY <1>3, <1>4, <1>5, <1>6, <1>7 DEF IInv, TypeOK, Phases, Idle
<1>9. Counted' /\ StoreAgrees(store') /\ LaneHolds'
  BY <1>3, <1>4, <1>5, <1>7 DEF IInv, Counted, LaneHolds
<1>10. KeptWhenStored'
  <2>1. ASSUME NEW q \in Kept(store') PROVE phase'[q] \in {"stored", "ready"}
    BY <1>2, <1>3, <1>7 DEF IInv, KeptWhenStored, Kept
  <2>2. ASSUME NEW q \in told' PROVE phase'[q] = "ready"
    BY <1>1, <1>3, <1>5, <1>6 DEF IInv, KeptWhenStored, TypeOK
  <2> QED
    BY <2>1, <2>2 DEF KeptWhenStored
<1>11. ReservedByLane' /\ AddedOnce'
  <2>1. \A q \in Preparations :
           cmd' = [kind |-> "add", p |-> q] <=> cmd = [kind |-> "add", p |-> q]
    BY <1>5 DEF Idle
  <2> QED
    BY <1>4, <1>6, <1>7, <2>1 DEF IInv, ReservedByLane, AddedOnce
<1>12. OpenIsAwaited'
  BY <1>3, <1>4, <1>5 DEF IInv, OpenIsAwaited
<1>13. ReadyIsNamed'
  <2>1. ASSUME ~Unwanted(p) PROVE p \in told' \cup tracked
    <3>1. \/ cmd = [kind |-> "open", p |-> p] \/ p \in tracked
      BY <1>1, <2>1 DEF IInv, OpenIsAwaited, Unwanted
    <3> QED
      BY <1>5, <2>1, <3>1
  <2>2. ASSUME NEW q \in Kept(store'), phase'[q] = "ready"
        PROVE  q \in told' \cup tracked' \cup missed'
    <3>1. CASE q = p
      BY <1>3, <1>4, <2>1, <2>2, <3>1
    <3>2. CASE q # p
      <4>1. q \in Kept(store) /\ phase[q] = "ready"
        BY <1>3, <1>7, <2>2, <3>2
      <4>2. q \in told \cup tracked \cup missed
        BY <4>1 DEF IInv, ReadyIsNamed
      <4> QED
        BY <1>4, <1>6, <4>2
    <3> QED
      BY <3>1, <3>2
  <2> QED
    BY <2>2 DEF ReadyIsNamed
<1>14. ClearedStays'
  <2>1. ASSUME life \in {"closing", "closed"}, NEW q \in Kept(store')
        PROVE  phase'[q] = "stored"
    <3>1. q # p
      BY <1>2, <2>1 DEF Unwanted, Kept
    <3> QED
      BY <1>3, <1>7, <2>1, <3>1 DEF IInv, ClearedStays
  <2> QED
    BY <1>4, <2>1 DEF ClearedStays
<1> QED
  BY <1>8, <1>9, <1>10, <1>11, <1>12, <1>13, <1>14 DEF IInv

-----------------------------------------------------------------------------
(* Commands.                                                               *)

\* What expiry leaves of the store.
LEMMA ExpiredS ==
    ASSUME IInv
    PROVE  /\ StoreInv(store) /\ StoreInv(S) /\ Shrinks(store, S)
           /\ \A p \in Preparations :
                 /\ S.state[p] = "committing" <=> store.state[p] = "committing"
                 /\ store.state[p] = Absent => S.state[p] = Absent
           /\ Kept(S) \subseteq Kept(store) /\ Kept(store) \subseteq Preparations
<1>1. StoreInv(store) /\ due \in SUBSET Preparations
  BY DEF IInv, TypeOK, StoreInv, Counted
<1>2. StoreInv(S) /\ Shrinks(store, S)
  BY <1>1, ExpiredStore DEF S
<1> QED
  BY <1>1, <1>2 DEF Shrinks, Kept, Absent

\* A step that only takes open records, and leaves opens, acquisitions and answers alone.
LEMMA SparingInv ==
    ASSUME IInv, StoreInv(store'), Shrinks(store, store'),
           UNCHANGED <<missed, due, openVars, told, adds>>,
           loaded' \subseteq InfoHashes,
           cmd' \in {Idle} \cup [kind : {"archive", "remove"}, h : InfoHashes],
           cmd \in {Idle} \cup [kind : {"archive", "remove"}, h : InfoHashes],
           life' = life, life' \in {"closing", "closed"} => cmd' = Idle
    PROVE  IInv'
<1>1. /\ \A p \in Preparations :
            /\ store'.state[p] = "committing" <=> store.state[p] = "committing"
            /\ store.state[p] = Absent => store'.state[p] = Absent
      /\ Kept(store') \subseteq Kept(store) /\ Kept(store) \subseteq Preparations
      /\ StoreOK(store') /\ StoreAgrees(store')
      /\ IsFiniteSet(Kept(store')) /\ IsFiniteSet(Bytes(Kept(store')))
  BY ShrunkStore
<1>2. /\ UNCHANGED <<missed, due, phase, aborted, fetching, tracked, acqDue, told, adds, life>>
      /\ Reading' = Reading
  BY DEF openVars, Reading
<1>3. cmd.kind \notin {"open", "add"} /\ cmd'.kind \in {"idle", "archive", "remove"}
  BY DEF Idle
<1>4. TypeOK'
  BY <1>1, <1>2, <1>3 DEF IInv, TypeOK
<1>5. Counted' /\ LaneHolds'
  BY <1>1, <1>2 DEF IInv, Counted, LaneHolds
<1>6. KeptWhenStored' /\ ReadyIsNamed' /\ ClearedStays'
  BY <1>1, <1>2 DEF IInv, KeptWhenStored, ReadyIsNamed, ClearedStays
<1>7. ReservedByLane' /\ AddedOnce' /\ OpenIsAwaited'
  <2>1. \A p \in Preparations :
           /\ cmd # [kind |-> "add", p |-> p] /\ cmd # [kind |-> "open", p |-> p]
           /\ cmd' # [kind |-> "add", p |-> p]
    BY <1>3
  <2> QED
    BY <1>1, <1>2, <2>1 DEF IInv, ReservedByLane, AddedOnce, OpenIsAwaited
<1> QED
  BY <1>1, <1>4, <1>5, <1>6, <1>7 DEF IInv

LEMMA OpenPreparationInv ==
    ASSUME IInv, NEW p \in Preparations, OpenPreparation(p)
    PROVE  IInv'
<1>1. /\ phase[p] = "none" /\ cmd = Idle /\ life = "open" /\ store' = S
      /\ cmd' = (IF phase'[p] = "failed" THEN Idle ELSE [kind |-> "open", p |-> p])
      /\ UNCHANGED <<missed, due, aborted, tracked, acqDue, told, loaded, adds, life>>
  BY DEF OpenPreparation, Takes
<1>2. /\ phase' \in [Preparations -> Phases]
      /\ phase'[p] \in {"reading", "failed"}
      /\ \A q \in Preparations : q # p => phase'[q] = phase[q]
      /\ IsFiniteSet(Reading') /\ fetching' = Cardinality(Reading') /\ fetching' \in Nat
  BY BeginCounts DEF OpenPreparation
<1>3. /\ \A q \in Preparations :
            /\ store'.state[q] = "committing" <=> store.state[q] = "committing"
            /\ store.state[q] = Absent => store'.state[q] = Absent
      /\ Kept(store') \subseteq Kept(store) /\ Kept(store) \subseteq Preparations
      /\ StoreOK(store') /\ StoreAgrees(store')
      /\ IsFiniteSet(Kept(store')) /\ IsFiniteSet(Bytes(Kept(store')))
  BY <1>1, ExpiredS, ShrunkStore
<1>4. p \notin Kept(store) /\ p \notin told
  BY <1>1 DEF IInv, KeptWhenStored
<1>5. cmd' \in {Idle} \cup [kind : {"open", "add"}, p : Preparations]
  BY <1>1
<1>6. TypeOK'
  BY <1>1, <1>2, <1>3, <1>5 DEF IInv, TypeOK, Phases, Idle
<1>7. Counted' /\ LaneHolds'
  BY <1>1, <1>2, <1>3, <1>5 DEF IInv, Counted, LaneHolds
<1>8. KeptWhenStored' /\ ReadyIsNamed' /\ ClearedStays'
  BY <1>1, <1>2, <1>3, <1>4 DEF IInv, TypeOK, KeptWhenStored, ReadyIsNamed, ClearedStays
<1>9. ReservedByLane' /\ AddedOnce' /\ OpenIsAwaited'
  <2>1. \A q \in Preparations :
           /\ cmd # [kind |-> "add", p |-> q] /\ cmd # [kind |-> "open", p |-> q]
           /\ cmd' # [kind |-> "add", p |-> q]
    BY <1>1 DEF Idle
  <2> QED
    BY <1>1, <1>2, <1>3, <2>1 DEF IInv, ReservedByLane, AddedOnce, OpenIsAwaited
<1> QED
  BY <1>3, <1>6, <1>7, <1>8, <1>9 DEF IInv

LEMMA StartAcquisitionInv ==
    ASSUME IInv, NEW p \in Preparations, StartAcquisition(p)
    PROVE  IInv'
<1>1. /\ phase[p] = "none" /\ cmd = Idle /\ cmd' = Idle /\ life = "open" /\ store' = S
      /\ aborted' = aborted \cup acqDue /\ acqDue' = {}
      /\ missed' = missed \cup {q \in acqDue : phase[q] = "ready"}
      /\ UNCHANGED <<due, told, loaded, adds, life>>
  BY DEF StartAcquisition, Takes, Forgets
<1>2. /\ phase' \in [Preparations -> Phases]
      /\ phase'[p] \in {"none", "reading", "failed"}
      /\ \A q \in Preparations : q # p => phase'[q] = phase[q]
      /\ IsFiniteSet(Reading') /\ fetching' = Cardinality(Reading') /\ fetching' \in Nat
      /\ \/ tracked' = (tracked \ acqDue) \cup {p}
         \/ tracked' = tracked \ acqDue /\ phase'[p] = "none"
  <2>1. CASE Cardinality(tracked \ acqDue) < MaxTracked
    BY <2>1, BeginCounts, <1>1 DEF StartAcquisition
  <2>2. CASE ~(Cardinality(tracked \ acqDue) < MaxTracked)
    <3>1. phase' = phase /\ fetching' = fetching /\ tracked' = tracked \ acqDue
      BY <2>2 DEF StartAcquisition
    <3>2. Reading' = Reading
      BY <3>1 DEF Reading
    <3> QED
      BY <1>1, <3>1, <3>2 DEF IInv, TypeOK, Counted, Phases
  <2> QED
    BY <2>1, <2>2
<1>3. /\ \A q \in Preparations :
            /\ store'.state[q] = "committing" <=> store.state[q] = "committing"
            /\ store.state[q] = Absent => store'.state[q] = Absent
      /\ Kept(store') \subseteq Kept(store) /\ Kept(store) \subseteq Preparations
      /\ StoreOK(store') /\ StoreAgrees(store')
      /\ IsFiniteSet(Kept(store')) /\ IsFiniteSet(Bytes(Kept(store')))
  BY <1>1, ExpiredS, ShrunkStore
<1>4. p \notin Kept(store) /\ p \notin told
  BY <1>1 DEF IInv, KeptWhenStored
<1>5. acqDue \subseteq Preparations /\ tracked \subseteq Preparations
  BY DEF IInv, TypeOK
<1>6. TypeOK'
  BY <1>1, <1>2, <1>3, <1>5 DEF IInv, TypeOK, Phases, Idle
<1>7. Counted' /\ LaneHolds'
  BY <1>1, <1>2, <1>3 DEF IInv, Counted, LaneHolds
<1>8. KeptWhenStored'
  BY <1>1, <1>2, <1>3, <1>4 DEF IInv, TypeOK, KeptWhenStored
<1>9. ReadyIsNamed' /\ ClearedStays'
  BY <1>1, <1>2, <1>3 DEF IInv, ReadyIsNamed, ClearedStays
<1>10. ReservedByLane' /\ AddedOnce'
  BY <1>1, <1>3 DEF IInv, ReservedByLane, AddedOnce
<1>11. OpenIsAwaited'
  BY <1>1, <1>2 DEF IInv, OpenIsAwaited, Idle
<1> QED
  BY <1>3, <1>6, <1>7, <1>8, <1>9, <1>10, <1>11 DEF IInv

LEMMA GetAcquisitionInv ==
    ASSUME IInv, NEW p \in Preparations, GetAcquisition(p)
    PROVE  IInv'
<1>1. /\ p \in tracked /\ cmd = Idle /\ cmd' = Idle /\ life = "open" /\ store' = S
      /\ aborted' = aborted \cup acqDue /\ acqDue' = {}
      /\ missed' = missed \cup {q \in acqDue : phase[q] = "ready"}
      /\ tracked' = (tracked \ acqDue) \ (IF Settled(p) THEN {p} ELSE {})
      /\ told' = (IF p \notin acqDue /\ phase[p] = "ready" THEN told \cup {p} ELSE told)
      /\ UNCHANGED <<due, phase, fetching, loaded, adds, life>>
      /\ Reading' = Reading
  BY DEF GetAcquisition, Takes, Forgets, Reading
<1>2. /\ \A q \in Preparations :
            /\ store'.state[q] = "committing" <=> store.state[q] = "committing"
            /\ store.state[q] = Absent => store'.state[q] = Absent
      /\ Kept(store') \subseteq Kept(store) /\ Kept(store) \subseteq Preparations
      /\ StoreOK(store') /\ StoreAgrees(store')
      /\ IsFiniteSet(Kept(store')) /\ IsFiniteSet(Bytes(Kept(store')))
  BY <1>1, ExpiredS, ShrunkStore
<1>3. acqDue \subseteq Preparations /\ tracked \subseteq Preparations /\ told \subseteq told'
  BY <1>1 DEF IInv, TypeOK
<1>4. TypeOK'
  BY <1>1, <1>2, <1>3 DEF IInv, TypeOK, Idle
<1>5. Counted' /\ LaneHolds'
  BY <1>1, <1>2 DEF IInv, Counted, LaneHolds
<1>6. KeptWhenStored' /\ ClearedStays'
  BY <1>1, <1>2 DEF IInv, KeptWhenStored, ClearedStays
<1>7. ReadyIsNamed'
  <2>1. ASSUME NEW q \in Kept(store'), phase[q] = "ready"
        PROVE  q \in told' \cup tracked' \cup missed'
    <3>1. q \in told \cup tracked \cup missed
      BY <1>2, <2>1 DEF IInv, ReadyIsNamed
    <3>2. CASE q \in acqDue
      BY <1>1, <2>1, <3>2
    <3>3. CASE q = p
      BY <1>1, <2>1, <3>3
    <3>4. CASE q \notin acqDue /\ q # p
      BY <1>1, <1>3, <3>1, <3>4
    <3> QED
      BY <3>2, <3>3, <3>4
  <2> QED
    BY <1>1, <2>1 DEF ReadyIsNamed
<1>8. ReservedByLane' /\ AddedOnce'
  BY <1>1, <1>2, <1>3 DEF IInv, ReservedByLane, AddedOnce
<1>9. OpenIsAwaited'
  BY <1>1 DEF IInv, OpenIsAwaited, Idle, Settled
<1> QED
  BY <1>2, <1>4, <1>5, <1>6, <1>7, <1>8, <1>9 DEF IInv

LEMMA ChangePreparationInv ==
    ASSUME IInv, NEW p \in Preparations, ChangePreparation(p)
    PROVE  IInv'
<1>1. /\ cmd = Idle /\ cmd' = Idle /\ loaded' = loaded /\ life' = life
      /\ UNCHANGED <<missed, due, openVars, told, adds>>
  BY DEF ChangePreparation, Takes
<1>2. StoreInv(S) /\ Shrinks(store, S)
  BY ExpiredS
<1>3. StoreInv(store') /\ Shrinks(store, store')
  <2>1. CASE store' = Discarded(S, p)
    BY <1>2, <2>1, DiscardedStore, ShrinksTransitive
  <2>2. ASSUME NEW f \in FilesOf[p],
               store' = Selected(S, p, {f}, {}) \/ store' = Selected(S, p, {}, {f})
        PROVE  StoreInv(store') /\ Shrinks(store, store')
    <3>1. FilesOf[p] \in SUBSET Nat
      OBVIOUS
    <3>2. {f} \in SUBSET Nat /\ {} \in SUBSET Nat
      BY <3>1
    <3>3. StoreInv(store') /\ store'.state = S.state
      BY <1>2, <2>2, <3>2, SelectedStore
    <3> QED
      BY <1>2, <3>3 DEF Shrinks
  <2> QED
    BY <2>1, <2>2 DEF ChangePreparation
<1>4. loaded \subseteq InfoHashes
  BY DEF IInv, TypeOK
<1> QED
  BY <1>1, <1>3, <1>4, SparingInv

LEMMA CommitInv ==
    ASSUME IInv, NEW p \in Preparations, Commit(p)
    PROVE  IInv'
<1>1. /\ p \in told /\ S.state[p] = "open" /\ cmd = Idle /\ life = "open"
      /\ cmd' = [kind |-> "add", p |-> p] /\ store' = [S EXCEPT !.state[p] = "committing"]
      /\ UNCHANGED <<missed, due, phase, aborted, fetching, tracked, acqDue>>
      /\ UNCHANGED <<told, loaded, adds, life>>
      /\ Reading' = Reading
  BY DEF Commit, Takes, Committing, openVars, Reading
<1>2. /\ StoreInv(S) /\ Shrinks(store, S) /\ p \in Kept(S)
      /\ \A q \in Preparations :
            /\ S.state[q] = "committing" <=> store.state[q] = "committing"
            /\ store.state[q] = Absent => S.state[q] = Absent
      /\ Kept(S) \subseteq Kept(store) /\ Kept(store) \subseteq Preparations
  BY <1>1, ExpiredS DEF Kept, Absent
<1>3. /\ StoreInv(store') /\ Kept(store') = Kept(S)
      /\ store'.state = [S.state EXCEPT ![p] = "committing"]
      /\ S.state \in [Preparations -> {Absent, "open", "committing"}]
  BY <1>1, <1>2, MarkedStore DEF StoreInv, StoreOK
<1>4. cmd' \in [kind : {"open", "add"}, p : Preparations]
  BY <1>1
<1>5. TypeOK' /\ StoreAgrees(store')
  BY <1>1, <1>3 DEF IInv, TypeOK, StoreInv
<1>6. Counted' /\ LaneHolds'
  BY <1>1, <1>3, <1>4 DEF IInv, Counted, LaneHolds, StoreInv
<1>7. KeptWhenStored' /\ ReadyIsNamed' /\ ClearedStays'
  BY <1>1, <1>2, <1>3 DEF IInv, KeptWhenStored, ReadyIsNamed, ClearedStays
<1>8. ReservedByLane'
  <2>1. \A q \in Preparations : store.state[q] # "committing"
    BY <1>1 DEF IInv, ReservedByLane, Idle
  <2>2. \A q \in Preparations : store'.state[q] = "committing" <=> q = p
    BY <1>2, <1>3, <2>1
  <2> QED
    BY <1>1, <2>2 DEF ReservedByLane
<1>9. AddedOnce'
  <2>1. \A q \in Preparations : store.state[q] = Absent => store'.state[q] = Absent
    BY <1>1, <1>2, <1>3 DEF Absent
  <2> QED
    BY <1>1, <2>1 DEF IInv, AddedOnce
<1>10. OpenIsAwaited'
  BY <1>1 DEF IInv, OpenIsAwaited, Idle
<1> QED
  BY <1>5, <1>6, <1>7, <1>8, <1>9, <1>10 DEF IInv

LEMMA AddEndsInv ==
    ASSUME IInv, AddEnds
    PROVE  IInv'
<1>1. PICK added \in BOOLEAN :
         /\ store' = SettledStore(added, cmd.p)
         /\ loaded' = (IF added THEN loaded \cup {HashOf[cmd.p]} ELSE loaded)
         /\ adds' = (IF added THEN [adds EXCEPT ![cmd.p] = @ + 1] ELSE adds)
         /\ cmd' = (IF added THEN [kind |-> "archive", h |-> HashOf[cmd.p]] ELSE Idle)
  BY DEF AddEnds
<1>2. /\ UNCHANGED <<missed, due, phase, aborted, fetching, tracked, acqDue, told, life>>
      /\ Reading' = Reading /\ cmd.kind = "add"
  BY DEF AddEnds, openVars, Reading
<1>3. cmd \in [kind : {"open", "add"}, p : Preparations]
  BY <1>2 DEF IInv, LaneHolds, Idle
<1>4. PICK p \in Preparations : cmd = [kind |-> "add", p |-> p]
  BY <1>2, <1>3
<1>5. /\ store.state[p] = "committing" /\ p \in told /\ adds[p] = 0
      /\ p \in Kept(store) /\ StoreInv(store) /\ life \notin {"closing", "closed"}
      /\ adds \in [Preparations -> Nat] /\ loaded \subseteq InfoHashes
      /\ store.state \in [Preparations -> {Absent, "open", "committing"}]
  <2>1. store.state[p] = "committing" /\ p \in told
    BY <1>4 DEF IInv, ReservedByLane
  <2>2. adds[p] = 0
    BY <2>1 DEF IInv, AddedOnce, Absent
  <2>3. life \notin {"closing", "closed"}
    BY <1>2 DEF IInv, LaneHolds, Idle
  <2> QED
    BY <2>1, <2>2, <2>3 DEF IInv, TypeOK, StoreInv, Counted, StoreOK, Kept, Absent
<1>6. /\ StoreInv(store') /\ store'.state[p] # "committing"
      /\ Kept(store') \subseteq Kept(store) /\ Kept(store) \subseteq Preparations
      /\ added => store'.state[p] = Absent
      /\ \A q \in Preparations : q # p => store'.state[q] = store.state[q]
  <2>1. /\ StoreInv(Without(store, {p}))
        /\ Kept(Without(store, {p})) = Kept(store) \ {p}
        /\ \A q \in Preparations : q \notin {p} => Without(store, {p}).state[q] = store.state[q]
        /\ \A q \in {p} : Without(store, {p}).state[q] = Absent
    BY <1>5, WithoutStore, {p} \in SUBSET Kept(store)
  <2>2. CASE store' = Without(store, {p})
    BY <2>1, <2>2 DEF Kept, Absent
  <2>3. CASE store' = [store EXCEPT !.state[p] = "open"] /\ ~added
    <3>1. StoreInv(store') /\ Kept(store') = Kept(store)
          /\ store'.state = [store.state EXCEPT ![p] = "open"]
      BY <1>5, <2>3, MarkedStore
    <3> QED
      BY <1>5, <2>3, <3>1 DEF Kept
  <2> QED
    BY <1>1, <1>4, <1>5, <2>2, <2>3 DEF SettledStore, Consumed, RolledBack
<1>7. /\ cmd' \in {Idle} \cup [kind : {"archive", "remove"}, h : InfoHashes]
      /\ cmd'.kind \in {"idle", "archive"}
      /\ loaded' \subseteq InfoHashes
      /\ adds' \in [Preparations -> Nat]
      /\ \A q \in Preparations : adds'[q] = IF added /\ q = p THEN 1 ELSE adds[q]
  BY <1>1, <1>4, <1>5 DEF InfoHashes, Idle
<1>8. TypeOK' /\ StoreAgrees(store')
  BY <1>2, <1>6, <1>7 DEF IInv, TypeOK, StoreInv
<1>9. Counted' /\ LaneHolds'
  BY <1>2, <1>5, <1>6, <1>7 DEF IInv, Counted, LaneHolds, StoreInv
<1>10. KeptWhenStored' /\ ReadyIsNamed' /\ ClearedStays'
  BY <1>2, <1>5, <1>6 DEF IInv, KeptWhenStored, ReadyIsNamed, ClearedStays
<1>11. ReservedByLane'
  <2>1. \A q \in Preparations : q # p => store.state[q] # "committing"
    BY <1>4 DEF IInv, ReservedByLane
  <2>2. \A q \in Preparations : store'.state[q] # "committing"
    BY <1>6, <2>1
  <2>3. \A q \in Preparations : cmd' # [kind |-> "add", p |-> q]
    BY <1>7
  <2> QED
    BY <2>2, <2>3 DEF ReservedByLane
<1>12. AddedOnce'
  BY <1>2, <1>5, <1>6, <1>7 DEF IInv, AddedOnce
<1>13. OpenIsAwaited'
  BY <1>2, <1>4 DEF IInv, OpenIsAwaited
<1> QED
  BY <1>8, <1>9, <1>10, <1>11, <1>12, <1>13 DEF IInv

LEMMA RemovalsInv ==
    ASSUME IInv, ArchiveEnds \/ RemoveEnds \/ \E h \in InfoHashes : RemoveTorrent(h)
    PROVE  IInv'
<1>1. StoreInv(store) /\ Shrinks(store, store) /\ StoreInv(S) /\ Shrinks(store, S)
  BY ExpiredS DEF Shrinks
<1>2. loaded \subseteq InfoHashes
  BY DEF IInv, TypeOK
<1>3. /\ cmd = Idle \/ cmd \in [kind : {"open", "add"}, p : Preparations]
                    \/ cmd \in [kind : {"archive", "remove"}, h : InfoHashes]
      /\ life \in {"closing", "closed"} => cmd = Idle
  BY DEF IInv, LaneHolds
<1>4. CASE ArchiveEnds
  <2>1. /\ UNCHANGED <<missed, due, openVars, told, adds>> /\ cmd' = Idle
        /\ loaded' = loaded /\ life' = life /\ store' = store /\ cmd.kind = "archive"
    BY <1>4 DEF ArchiveEnds
  <2>2. cmd \in [kind : {"archive", "remove"}, h : InfoHashes]
    BY <1>3, <2>1 DEF Idle
  <2> QED
    BY <1>1, <1>2, <2>1, <2>2, SparingInv
<1>5. CASE RemoveEnds
  <2>1. /\ UNCHANGED <<missed, due, openVars, told, adds>>
        /\ loaded' \subseteq loaded /\ life' = life /\ store' = store /\ cmd.kind = "remove"
        /\ cmd' = Idle \/ cmd' = [cmd EXCEPT !.kind = "archive"]
    BY <1>5 DEF RemoveEnds
  <2>2. cmd \in [kind : {"archive", "remove"}, h : InfoHashes]
    BY <1>3, <2>1 DEF Idle
  <2>3. cmd' \in {Idle} \cup [kind : {"archive", "remove"}, h : InfoHashes]
    BY <2>1, <2>2
  <2>4. life \notin {"closing", "closed"}
    BY <1>3, <2>1 DEF Idle
  <2> QED
    BY <1>1, <1>2, <2>1, <2>2, <2>3, <2>4, SparingInv
<1>6. CASE \E h \in InfoHashes : RemoveTorrent(h)
  <2>1. PICK h \in InfoHashes : RemoveTorrent(h)
    BY <1>6
  <2>2. /\ UNCHANGED <<missed, due, openVars, told, adds>>
        /\ loaded' = loaded /\ life' = life /\ store' = S /\ cmd = Idle /\ life = "open"
        /\ cmd' = [kind |-> "remove", h |-> h]
    BY <2>1 DEF RemoveTorrent, Takes
  <2>3. cmd' \in {Idle} \cup [kind : {"archive", "remove"}, h : InfoHashes]
    BY <2>2
  <2> QED
    BY <1>1, <1>2, <2>2, <2>3, SparingInv
<1> QED
  BY <1>4, <1>5, <1>6

-----------------------------------------------------------------------------
(* Time and the shutdown.                                                  *)

LEMMA TimeInv ==
    ASSUME IInv, TimePasses \/ Deadline \/ QueueCloses
    PROVE  IInv'
<1>1. /\ UNCHANGED <<missed, store, phase, fetching, tracked, told, cmd, loaded, adds>>
      /\ due' \subseteq Preparations /\ acqDue' \subseteq tracked
      /\ aborted \subseteq aborted' /\ aborted' \subseteq Preparations
      /\ life' \in {life, "draining"} /\ (life' # life => life = "open")
      /\ Reading' = Reading /\ Kept(store') = Kept(store)
  <2>1. /\ due \subseteq Preparations /\ acqDue \subseteq tracked
        /\ aborted \subseteq Preparations /\ tracked \subseteq Preparations
    BY DEF IInv, TypeOK
  <2>2. CASE TimePasses
    BY <2>1, <2>2 DEF TimePasses, Kept, Reading
  <2>3. ASSUME cmd.kind = "open" PROVE cmd.p \in Preparations
    BY <2>3 DEF IInv, LaneHolds, Idle
  <2>4. CASE Deadline
    BY <2>1, <2>3, <2>4 DEF Deadline, Reading, Kept
  <2>5. CASE QueueCloses
    BY <2>1, <2>3, <2>5 DEF QueueCloses, Reading, Kept
  <2> QED
    BY <2>2, <2>4, <2>5
<1>2. TypeOK'
  BY <1>1 DEF IInv, TypeOK
<1>3. StoreAgrees(store') /\ Counted' /\ LaneHolds'
  BY <1>1 DEF IInv, Counted, LaneHolds
<1>4. KeptWhenStored' /\ ReservedByLane' /\ AddedOnce'
  BY <1>1 DEF IInv, KeptWhenStored, ReservedByLane, AddedOnce
<1>5. OpenIsAwaited' /\ ReadyIsNamed' /\ ClearedStays'
  BY <1>1 DEF IInv, OpenIsAwaited, ReadyIsNamed, ClearedStays
<1> QED
  BY <1>2, <1>3, <1>4, <1>5 DEF IInv

LEMMA ClosingInv ==
    ASSUME IInv, Close \/ CloseEnds
    PROVE  IInv'
<1>1. /\ UNCHANGED <<missed, due, phase, fetching, told, cmd, adds>>
      /\ aborted \subseteq aborted' /\ aborted' \subseteq Preparations
      /\ tracked' \subseteq tracked /\ acqDue' \subseteq tracked'
      /\ store' = Cleared(store) /\ loaded' \subseteq loaded /\ cmd = Idle
      /\ life' \in {"closing", "closed"} /\ Reading' = Reading
  <2>1. /\ aborted \subseteq Preparations /\ tracked \subseteq Preparations
        /\ acqDue \subseteq tracked
        /\ life = "closing" => cmd = Idle
    BY DEF IInv, TypeOK, LaneHolds
  <2>2. CASE Close
    BY <2>1, <2>2 DEF Close, Reading
  <2>3. CASE CloseEnds
    BY <2>1, <2>3 DEF CloseEnds, Reading
  <2> QED
    BY <2>2, <2>3
<1>2. /\ StoreInv(store') /\ Kept(store') = {}
      /\ \A p \in Preparations : store'.state[p] = Absent
  BY <1>1, ClearedStore
<1>3. TypeOK' /\ StoreAgrees(store') /\ Counted' /\ LaneHolds'
  BY <1>1, <1>2 DEF IInv, TypeOK, StoreInv, Counted, LaneHolds
<1>4. KeptWhenStored' /\ ReadyIsNamed' /\ ClearedStays'
  BY <1>1, <1>2 DEF IInv, KeptWhenStored, ReadyIsNamed, ClearedStays
<1>5. ReservedByLane' /\ AddedOnce'
  BY <1>1, <1>2 DEF IInv, ReservedByLane, AddedOnce, Absent, Idle
<1>6. OpenIsAwaited'
  <2>1. CASE Close
    BY <1>1, <2>1 DEF Close, IInv, OpenIsAwaited
  <2>2. CASE CloseEnds
    BY <1>1, <2>2 DEF CloseEnds, IInv, OpenIsAwaited, Settled
  <2> QED
    BY <2>1, <2>2
<1> QED
  BY <1>2, <1>3, <1>4, <1>5, <1>6 DEF IInv, StoreInv

-----------------------------------------------------------------------------

LEMMA InitIInv == Init => IInv
<1> SUFFICES ASSUME Init PROVE IInv
  OBVIOUS
<1>1. store = Cleared(store)
  BY DEF Init, Cleared
<1>2. /\ StoreInv(store) /\ Kept(store) = {}
      /\ \A p \in Preparations : store.state[p] = Absent
  BY <1>1, ClearedStore
<1>3. Reading = {} /\ IsFiniteSet(Reading) /\ Cardinality(Reading) = 0
  <2>1. Reading = {}
    BY DEF Init, Reading
  <2> QED
    BY <2>1, FS_EmptySet
<1>4. TypeOK /\ Counted /\ LaneHolds
  BY <1>2, <1>3 DEF Init, TypeOK, Counted, LaneHolds, StoreInv, Idle
<1>5. KeptWhenStored /\ ReservedByLane /\ AddedOnce /\ OpenIsAwaited
  BY <1>2 DEF Init, KeptWhenStored, ReservedByLane, AddedOnce, OpenIsAwaited, Idle, Absent
<1> QED
  BY <1>2, <1>4, <1>5 DEF IInv, StoreInv, ReadyIsNamed, ClearedStays

LEMMA StutterIInv == IInv /\ UNCHANGED vars => IInv'
<1> SUFFICES ASSUME IInv, UNCHANGED vars PROVE IInv'
  OBVIOUS
<1>1. /\ UNCHANGED <<store, due, phase, aborted, fetching, tracked, acqDue>>
      /\ UNCHANGED <<told, missed, cmd, loaded, adds, life>>
  BY DEF vars, openVars
<1> QED
  BY <1>1 DEF IInv, TypeOK, StoreAgrees, Counted, Reading, Kept, LaneHolds, KeptWhenStored,
              ReservedByLane, AddedOnce, OpenIsAwaited, ReadyIsNamed, ClearedStays, Bytes, Absent

LEMMA NextIInv == IInv /\ [Next]_vars => IInv'
<1> SUFFICES ASSUME IInv, Next PROVE IInv'
  BY StutterIInv
<1>1. ASSUME NEW p \in Preparations, Works(p) PROVE IInv'
  BY <1>1, ReadEndsInv, ValidateEndsInv, OpenEndsInv DEF Works
<1>2. ASSUME NEW p \in Preparations,
             OpenPreparation(p) \/ StartAcquisition(p) \/ GetAcquisition(p)
             \/ ChangePreparation(p) \/ Commit(p)
      PROVE  IInv'
  BY <1>2, OpenPreparationInv, StartAcquisitionInv, GetAcquisitionInv, ChangePreparationInv,
     CommitInv
<1>3. ASSUME LaneWorks \/ \E h \in InfoHashes : RemoveTorrent(h) PROVE IInv'
  BY <1>3, AddEndsInv, RemovalsInv DEF LaneWorks
<1>4. ASSUME TimePasses \/ Deadline \/ QueueCloses \/ Close \/ CloseEnds PROVE IInv'
  BY <1>4, TimeInv, ClosingInv
<1> QED
  BY <1>1, <1>2, <1>3, <1>4 DEF Next

LEMMA IInvAccounts == IInv => PreparationsAccounted
<1> SUFFICES ASSUME IInv PROVE PreparationsAccounted
  OBVIOUS
<1>1. TypeOK /\ StoreConsistent
  BY DEF IInv, StoreConsistent
<1>2. ReservedWhileAdding
  <2>1. ASSUME cmd.kind = "add" PROVE store.state[cmd.p] = "committing"
    <3>1. cmd \in [kind : {"open", "add"}, p : Preparations]
      BY <2>1 DEF IInv, LaneHolds, Idle
    <3>2. PICK p \in Preparations : cmd = [kind |-> "add", p |-> p]
      BY <2>1, <3>1
    <3> QED
      BY <3>2 DEF IInv, ReservedByLane
  <2>2. \A p \in Preparations : adds[p] <= 1
    BY DEF IInv, AddedOnce
  <2> QED
    BY <2>1, <2>2 DEF IInv, ReservedByLane, ReservedWhileAdding
<1>3. NothingUnnamed
  <2>1. \A p \in Kept(store) : p \in told \/ phase[p] = "stored" \/ p \in tracked \/ p \in missed
    BY DEF IInv, ReadyIsNamed, KeptWhenStored
  <2>2. ASSUME life = "closed", \A p \in Preparations : phase[p] # "stored"
        PROVE  Kept(store) = {}
    BY <2>2 DEF IInv, ClearedStays, Kept
  <2> QED
    BY <2>1, <2>2 DEF NothingUnnamed
<1> QED
  BY <1>1, <1>2, <1>3 DEF PreparationsAccounted

\* Whatever the order in which preparations are opened, expire, are committed,
\* rolled back or cleared, the index and the byte count of preparation-store.ts
\* agree with its records, a reservation is held exactly while its add runs,
\* and nothing is kept that nobody can name.
THEOREM StoreAndLaneAgree == Spec => []PreparationsAccounted
<1>1. Init => IInv
  BY InitIInv
<1>2. IInv /\ [Next]_vars => IInv'
  BY NextIInv
<1>3. IInv => PreparationsAccounted
  BY IInvAccounts
<1> QED
  BY <1>1, <1>2, <1>3, PTL DEF Spec

(* ---------------------------- the resume store ---------------------------- *)

Saving(w) == saver[w].at # "idle"

\* A sidecar that claims to be clean was described at a fingerprint the payload
\* has had, and while it has that one the pieces it claims are on disk.
Sound(side) ==
    side.clean =>
        /\ side.stamp <= payload.stamp
        /\ side.stamp = payload.stamp => side.bits <= payload.good

\* Whatever is on disk or may be written there is sound.
SidesSound ==
    /\ \A f \in Files : Sound(content[f].side)
    /\ \A w \in Savers : saver[w].at \in {"open", "write", "rename"} => Sound(saver[w].side)

\* A clean save is awaited by the running command, which keeps the torrent loaded.
CleanIsAwaited ==
    \A w \in Savers : Saving(w) /\ saver[w].side.clean => lane = w /\ torrent.loaded

\* There are at most as many good pieces as changes, and none are made up.
PiecesBounded == payload.good <= payload.stamp

\* The two names never refer to one file.
NamesApart == temp # None => temp # target

\* Unless saves have overlapped there is one at most, the temporary name is
\* its own, and the file holds what it has written so far.
OneSave ==
    "overlap" \notin trouble =>
        /\ \A w, x \in Savers : Saving(w) /\ Saving(x) => w = x
        /\ \A w \in Savers : saver[w].at \in {"write", "rename"} =>
              /\ temp = saver[w].file /\ temp # None
              /\ saver[w].at = "write" => content[temp] = Empty
              /\ saver[w].at = "rename" => content[temp] = Holding(saver[w].side)
        /\ (\A w \in Savers : saver[w].at \notin {"write", "rename"}) => temp = None

\* Without trouble the selection that was set is the one being saved, or else
\* the one in the sidecar.
SelectionUnderway ==
    trouble = {} /\ torrent.edited =>
        /\ \A w \in Savers : Saving(w) => saver[w].side.sel = torrent.sel
        /\ (\A w \in Savers : ~Saving(w)) => Readable /\ Saved.sel = torrent.sel

ResumeInv ==
    /\ ResumeTypeOK /\ BitfieldIsTrue /\ SidecarReadable
    /\ SidesSound /\ CleanIsAwaited /\ PiecesBounded
    /\ NamesApart /\ OneSave /\ SelectionUnderway

USE SelectionsAssumption, SaversAssumption, StoreBounds

-----------------------------------------------------------------------------
(* Facts about the operators.                                              *)

LEMMA InitInv == ResumeInit => ResumeInv
<1> SUFFICES ASSUME ResumeInit PROVE ResumeInv
    OBVIOUS
<1>1. ResumeTypeOK
  BY DEF ResumeInit, ResumeTypeOK, Contents, Sidecars, Stamps, Empty, Blank, NoSave, NotLoaded
<1>2. SidesSound /\ CleanIsAwaited /\ PiecesBounded /\ BitfieldIsTrue
  BY DEF ResumeInit, SidesSound, Sound, CleanIsAwaited, Saving, PiecesBounded, BitfieldIsTrue,
      Empty, Blank, NoSave, NotLoaded
<1>3. NamesApart /\ OneSave /\ SidecarReadable /\ SelectionUnderway
  BY DEF ResumeInit, NamesApart, OneSave, SidecarReadable, SelectionUnderway, Saving, NoSave,
      NotLoaded
<1> QED
  BY <1>1, <1>2, <1>3 DEF ResumeInv

\* What a file may hold.
LEMMA ContentsTyped ==
    /\ Empty \in Contents /\ Torn \in Contents
    /\ \A side \in Sidecars : Holding(side) \in Contents
    /\ \A c \in Contents : c.side \in Sidecars
    /\ Empty.side = Blank /\ Torn.side = Blank /\ ~Blank.clean
    /\ \A side : Holding(side).side = side /\ Holding(side).kind = "sidecar"
<1>1. Blank \in Sidecars
  BY DEF Blank, Sidecars, Stamps
<1>2. Empty \in Contents /\ Torn \in Contents
  BY DEF Contents
<1>3. \A side \in Sidecars : Holding(side) \in Contents
  BY DEF Contents, Holding
<1>4. \A c \in Contents : c.side \in Sidecars
  BY <1>1 DEF Contents, Empty, Torn
<1>5. /\ Empty.side = Blank /\ Torn.side = Blank /\ ~Blank.clean
      /\ \A side : Holding(side).side = side /\ Holding(side).kind = "sidecar"
  BY DEF Empty, Torn, Blank, Holding
<1> QED
  BY <1>2, <1>3, <1>4, <1>5

\* Files that lose their last name are emptied, and the others keep what they hold.
LEMMA ReachableKeeps ==
    ASSUME ResumeTypeOK, content' = Reachable
    PROVE  /\ content' \in [Files -> Contents]
           /\ \A f \in Files : content'[f] \in {content[f], Empty}
           /\ temp' \in Files => content'[temp'] = content[temp']
           /\ target' \in Files => content'[target'] = content[target']
           /\ \A w \in Savers : saver'[w].file \in Files =>
                 content'[saver'[w].file] = content[saver'[w].file]
BY ContentsTyped DEF ResumeTypeOK, Reachable

-----------------------------------------------------------------------------
(* A save.                                                                 *)

LEMMA DescribeInv ==
    ASSUME ResumeInv, NEW w \in Savers, Describe(w)
    PROVE  ResumeInv'
<1> USE DEF Describe, managerVars
<1>1. ResumeTypeOK'
  <2> DEFINE described == [saver[w].side EXCEPT
                               !.stamp = payload.stamp,
                               !.bits = IF torrent.loaded THEN torrent.bits ELSE @]
  <2>1. described \in Sidecars
    <3>1. saver[w].side \in Sidecars /\ payload.stamp \in Stamps /\ torrent.bits \in Stamps
      BY DEF ResumeInv, ResumeTypeOK
    <3> QED
      BY <3>1 DEF Sidecars
  <2>2. saver' = [saver EXCEPT ![w] = [@ EXCEPT !.at = "open", !.side = described]]
    OBVIOUS
  <2> HIDE DEF described
  <2>3. [saver[w] EXCEPT !.at = "open", !.side = described]
            \in [at : {"open"}, side : Sidecars, file : Files \cup {None}]
    <3> DEFINE old == saver[w]
               new == [old EXCEPT !.at = "open", !.side = described]
    <3>1. old \in [at : {"idle", "describe", "open", "write", "rename"},
                   side : Sidecars, file : Files \cup {None}]
      BY DEF ResumeInv, ResumeTypeOK
    <3> HIDE DEF old
    <3>2. new \in [at : {"open"}, side : Sidecars, file : Files \cup {None}]
      BY <2>1, <3>1
    <3> QED
      BY <3>2 DEF old
  <2>4. saver' \in [Savers -> [at : {"idle", "describe", "open", "write", "rename"},
                               side : Sidecars, file : Files \cup {None}]]
    BY <2>2, <2>3 DEF ResumeInv, ResumeTypeOK
  <2> QED
    BY <2>4 DEF ResumeInv, ResumeTypeOK
<1>2. BitfieldIsTrue' /\ PiecesBounded'
  BY DEF ResumeInv, BitfieldIsTrue, PiecesBounded
<1>3. SidesSound'
  BY DEF ResumeInv, ResumeTypeOK, SidesSound, Sound, CleanIsAwaited, Saving, BitfieldIsTrue, Sidecars,
      Stamps
<1>4. CleanIsAwaited'
  BY DEF ResumeInv, ResumeTypeOK, CleanIsAwaited, Saving, Sidecars
<1>5. SidecarReadable' /\ NamesApart'
  BY DEF ResumeInv, SidecarReadable, NamesApart, Readable
<1>6. OneSave'
  BY DEF ResumeInv, ResumeTypeOK, OneSave, Saving, Sidecars
<1>7. SelectionUnderway'
  BY DEF ResumeInv, ResumeTypeOK, SelectionUnderway, Saving, Readable, Saved, Sidecars
<1> QED
  BY <1>1, <1>2, <1>3, <1>4, <1>5, <1>6, <1>7 DEF ResumeInv

LEMMA OpenInv ==
    ASSUME ResumeInv, NEW w \in Savers, Open(w)
    PROVE  ResumeInv'
<1> USE DEF managerVars
<1>1. PICK f \in OpenedFor(temp) :
          /\ content' = [content EXCEPT ![f] = Empty]
          /\ temp' = f
          /\ saver' = [saver EXCEPT ![w].at = "write", ![w].file = f]
  BY DEF Open
<1>2. /\ UNCHANGED <<target, trouble, payload, managerVars, crashes>>
      /\ saver[w].at = "open"
  BY DEF Open
<1>3. f \in Files /\ f # target
  BY DEF OpenedFor, ResumeInv, ResumeTypeOK, NamesApart
<1>4. ResumeTypeOK'
  <2>1. content' \in [Files -> Contents]
    BY <1>1, <1>3, ContentsTyped DEF ResumeInv, ResumeTypeOK
  <2>2. saver' = [saver EXCEPT ![w] = [@ EXCEPT !.at = "write", !.file = f]]
    BY <1>1 DEF ResumeInv, ResumeTypeOK
  <2> QED
    BY <1>1, <1>2, <1>3, <2>1, <2>2 DEF ResumeInv, ResumeTypeOK
<1>5. BitfieldIsTrue' /\ PiecesBounded'
  BY <1>2 DEF ResumeInv, BitfieldIsTrue, PiecesBounded
<1>6. SidesSound'
  BY <1>1, <1>2, <1>3, ContentsTyped DEF ResumeInv, ResumeTypeOK, SidesSound, Sound
<1>7. CleanIsAwaited'
  BY <1>1, <1>2 DEF ResumeInv, ResumeTypeOK, CleanIsAwaited, Saving
<1>8. SidecarReadable' /\ NamesApart'
  BY <1>1, <1>2, <1>3 DEF ResumeInv, ResumeTypeOK, SidecarReadable, NamesApart, Readable
<1>9. OneSave'
  BY <1>1, <1>2, <1>3 DEF ResumeInv, ResumeTypeOK, OneSave, Saving
<1>10. SelectionUnderway'
  BY <1>1, <1>2, <1>3 DEF ResumeInv, ResumeTypeOK, SelectionUnderway, Saving, Readable, Saved
<1> QED
  BY <1>4, <1>5, <1>6, <1>7, <1>8, <1>9, <1>10 DEF ResumeInv

LEMMA WriteInv ==
    ASSUME ResumeInv, NEW w \in Savers, Write(w)
    PROVE  ResumeInv'
<1> USE DEF managerVars
<1> DEFINE f == saver[w].file
           mine == Holding(saver[w].side)
<1>1. PICK left \in {mine, Torn} :
          /\ content' = [content EXCEPT ![f] = left]
          /\ content[f] = Empty => left = mine
  BY DEF Write
<1>2. /\ UNCHANGED <<temp, target, trouble, payload, managerVars, crashes>>
      /\ saver' = [saver EXCEPT ![w].at = "rename"]
      /\ saver[w].at = "write"
  BY DEF Write
<1>3. mine \in Contents /\ Torn \in Contents
  BY ContentsTyped DEF ResumeInv, ResumeTypeOK
<1>4. ResumeTypeOK'
  <2>1. content' \in [Files -> Contents]
    BY <1>1, <1>3 DEF ResumeInv, ResumeTypeOK
  <2>2. saver' = [saver EXCEPT ![w] = [@ EXCEPT !.at = "rename"]]
    BY <1>2 DEF ResumeInv, ResumeTypeOK
  <2> QED
    BY <1>2, <2>1, <2>2 DEF ResumeInv, ResumeTypeOK
<1>5. BitfieldIsTrue' /\ PiecesBounded'
  BY <1>2 DEF ResumeInv, BitfieldIsTrue, PiecesBounded
<1>6. SidesSound'
  <2>1. Sound(left.side)'
    BY <1>1, <1>2, ContentsTyped DEF ResumeInv, SidesSound, Sound
  <2> QED
    BY <2>1, <1>1, <1>2 DEF ResumeInv, ResumeTypeOK, SidesSound, Sound
<1>7. CleanIsAwaited'
  BY <1>1, <1>2 DEF ResumeInv, ResumeTypeOK, CleanIsAwaited, Saving
<1>8. ASSUME "overlap" \notin trouble
      PROVE  f = temp /\ f # target /\ f \in Files /\ left = mine
  BY <1>8, <1>1, <1>2 DEF ResumeInv, ResumeTypeOK, OneSave, NamesApart
<1>9. SidecarReadable' /\ NamesApart'
  BY <1>1, <1>2, <1>8 DEF ResumeInv, ResumeTypeOK, SidecarReadable, NamesApart, Readable
<1>10. OneSave'
  BY <1>1, <1>2, <1>8 DEF ResumeInv, ResumeTypeOK, OneSave, Saving
<1>11. SelectionUnderway'
  BY <1>1, <1>2, <1>8 DEF ResumeInv, ResumeTypeOK, SelectionUnderway, Saving, Readable, Saved
<1> QED
  BY <1>4, <1>5, <1>6, <1>7, <1>9, <1>10, <1>11 DEF ResumeInv

LEMMA RenameInv ==
    ASSUME ResumeInv, NEW w \in Savers, Rename(w)
    PROVE  ResumeInv'
<1> USE DEF managerVars
<1>1. /\ UNCHANGED <<trouble, payload, managerVars, crashes>>
      /\ saver' = [saver EXCEPT ![w] = NoSave]
      /\ temp' = None
      /\ target' = IF temp = None THEN target ELSE temp
      /\ saver[w].at = "rename"
  BY DEF Rename, EndSave
<1>2. /\ content' \in [Files -> Contents]
      /\ \A f \in Files : content'[f] \in {content[f], Empty}
      /\ target' \in Files => content'[target'] = content[target']
  BY ReachableKeeps DEF Rename, ResumeInv
<1>3. /\ NoSave.at = "idle" /\ NoSave.file = None /\ NoSave.side \in Sidecars
      /\ NoSave \in [at : {"idle"}, side : Sidecars, file : {None}]
  BY DEF NoSave, Blank, Sidecars, Stamps
<1>4. ResumeTypeOK'
  BY <1>1, <1>2, <1>3 DEF ResumeInv, ResumeTypeOK, NoSave
<1>5. BitfieldIsTrue' /\ PiecesBounded'
  BY <1>1 DEF ResumeInv, BitfieldIsTrue, PiecesBounded
<1>6. SidesSound'
  <2>1. /\ \A f \in Files : Sound(content[f].side)
        /\ \A x \in Savers : saver[x].at \in {"open", "write", "rename"} => Sound(saver[x].side)
    BY DEF ResumeInv, SidesSound
  <2>2. Empty.side = Blank /\ ~Blank.clean
    BY ContentsTyped
  <2>3. \A f \in Files : Sound(content'[f].side)
    BY <1>2, <2>1, <2>2 DEF Sound
  <2>4. ASSUME NEW x \in Savers, saver'[x].at \in {"open", "write", "rename"}
        PROVE  Sound(saver'[x].side)
    <3>1. CASE x = w
      <4>1. saver'[x].at = "idle"
        BY <1>1, <1>3, <3>1 DEF ResumeInv, ResumeTypeOK
      <4> QED
        BY <2>4, <4>1
    <3>2. CASE x # w
      <4>1. saver'[x] = saver[x]
        BY <1>1, <3>2 DEF ResumeInv, ResumeTypeOK
      <4> QED
        BY <2>1, <2>4, <4>1
    <3> QED
      BY <3>1, <3>2
  <2> QED
    BY <1>1, <2>3, <2>4 DEF SidesSound, Sound
<1>7. CleanIsAwaited'
  BY <1>1, <1>3 DEF ResumeInv, ResumeTypeOK, CleanIsAwaited, Saving
<1>8. ASSUME "overlap" \notin trouble
      PROVE  /\ temp \in Files /\ target' = temp
             /\ content'[target'] = Holding(saver[w].side)
             /\ \A x \in Savers : ~Saving(x)'
  BY <1>8, <1>1, <1>2, <1>3 DEF ResumeInv, ResumeTypeOK, OneSave, Saving
<1>9. SidecarReadable' /\ NamesApart'
  BY <1>1, <1>2, <1>8, ContentsTyped DEF ResumeInv, ResumeTypeOK, SidecarReadable, NamesApart, Readable
<1>10. OneSave'
  BY <1>1, <1>8 DEF OneSave, Saving
<1>11. SelectionUnderway'
  <2> SUFFICES ASSUME trouble = {}, torrent.edited
               PROVE  Readable' /\ Saved'.sel = torrent.sel
    BY <1>1, <1>8 DEF SelectionUnderway
  <2>1. saver[w].side.sel = torrent.sel
    BY <1>1 DEF ResumeInv, SelectionUnderway, Saving
  <2> QED
    BY <2>1, <1>1, <1>8, ContentsTyped DEF ResumeInv, ResumeTypeOK, Readable, Saved
<1> QED
  BY <1>4, <1>5, <1>6, <1>7, <1>9, <1>10, <1>11 DEF ResumeInv

LEMMA SaveFailsInv ==
    ASSUME ResumeInv, NEW w \in Savers, SaveFails(w)
    PROVE  ResumeInv'
<1> USE DEF managerVars
<1>1. /\ UNCHANGED <<target, payload, managerVars, crashes>>
      /\ trouble' = trouble \cup {"failure"}
      /\ saver' = [saver EXCEPT ![w] = NoSave]
      /\ temp' = None
      /\ saver[w].at \in {"open", "write", "rename"}
  BY DEF SaveFails, EndSave
<1>2. /\ content' \in [Files -> Contents]
      /\ \A f \in Files : content'[f] \in {content[f], Empty}
      /\ target' \in Files => content'[target'] = content[target']
  BY ReachableKeeps DEF SaveFails, ResumeInv
<1>3. NoSave.at = "idle" /\ NoSave \in [at : {"idle"}, side : Sidecars, file : {None}]
  BY DEF NoSave, Blank, Sidecars, Stamps
<1>4. ResumeTypeOK'
  BY <1>1, <1>2, <1>3 DEF ResumeInv, ResumeTypeOK
<1>5. BitfieldIsTrue' /\ PiecesBounded'
  BY <1>1 DEF ResumeInv, BitfieldIsTrue, PiecesBounded
<1>6. SidesSound'
  <2>1. \A x : Sound(x)' <=> Sound(x)
    BY <1>1 DEF Sound
  <2>2. \A f \in Files : Sound(content'[f].side)
    BY <1>2, ContentsTyped DEF ResumeInv, SidesSound, Sound
  <2> QED
    BY <1>1, <1>3, <2>1, <2>2 DEF ResumeInv, ResumeTypeOK, SidesSound, Sound
<1>7. CleanIsAwaited'
  BY <1>1, <1>3 DEF ResumeInv, ResumeTypeOK, CleanIsAwaited, Saving
<1>8. SidecarReadable' /\ NamesApart'
  BY <1>1, <1>2 DEF ResumeInv, ResumeTypeOK, SidecarReadable, NamesApart, Readable
<1>9. OneSave'
  BY <1>1, <1>3 DEF ResumeInv, ResumeTypeOK, OneSave, Saving
<1>10. SelectionUnderway'
  BY <1>1 DEF SelectionUnderway
<1> QED
  BY <1>4, <1>5, <1>6, <1>7, <1>8, <1>9, <1>10 DEF ResumeInv

-----------------------------------------------------------------------------
(* The manager's commands.                                                 *)

\* The selection of a sidecar that can be read is one that was set.
LEMMA SavedTyped ==
    ASSUME ResumeInv, target # None
    PROVE  Saved \in Sidecars /\ Sound(Saved)
BY ContentsTyped DEF ResumeInv, ResumeTypeOK, SidesSound, Saved

LEMMA LoadInv ==
    ASSUME ResumeInv, NEW sel \in Selections, Free, ~torrent.loaded, Load(sel),
           chosen' \in Selections \cup {None},
           UNCHANGED <<storeVars, payload, lane, engine, crashes>>
    PROVE  ResumeInv'
<1> USE DEF storeVars
<1>1. /\ torrent'.loaded /\ torrent'.sel = sel /\ torrent'.edited = FALSE
      /\ torrent' \in [loaded : BOOLEAN, sel : Selections, bits : Stamps, edited : BOOLEAN]
      /\ torrent'.bits <= payload.good
  <2>1. CASE Usable(sel)
    BY <2>1, SavedTyped DEF Load, Usable, Readable, Sound, Sidecars
  <2>2. CASE ~Usable(sel)
    BY <2>2 DEF Load, ResumeInv, ResumeTypeOK, Stamps
  <2> QED
    BY <2>1, <2>2
<1>2. ResumeTypeOK'
  BY <1>1 DEF ResumeInv, ResumeTypeOK
<1>3. BitfieldIsTrue' /\ PiecesBounded'
  BY <1>1 DEF ResumeInv, BitfieldIsTrue, PiecesBounded
<1>4. SidesSound' /\ SidecarReadable' /\ NamesApart' /\ OneSave'
  BY DEF ResumeInv, SidesSound, Sound, SidecarReadable, Readable, NamesApart, OneSave, Saving
<1>5. CleanIsAwaited' /\ SelectionUnderway'
  BY <1>1 DEF ResumeInv, CleanIsAwaited, Saving, SelectionUnderway
<1> QED
  BY <1>2, <1>3, <1>4, <1>5 DEF ResumeInv

LEMMA RestoreInv ==
    ASSUME ResumeInv, Restore
    PROVE  ResumeInv'
<1>1. SavedSelection \in Selections
  BY SavedTyped DEF SavedSelection, Readable, Sidecars
<1>2. chosen' \in Selections \cup {None}
  BY DEF Restore, ResumeInv, ResumeTypeOK
<1> QED
  BY <1>1, <1>2, LoadInv DEF Restore

LEMMA CommitSelectionInv ==
    ASSUME ResumeInv, NEW sel \in Selections, CommitSelection(sel)
    PROVE  ResumeInv'
BY LoadInv DEF CommitSelection

\* A save begins while no other command runs: a clean one is awaited, and what
\* it saves is the selection from then on.
LEMMA PersistInv ==
    ASSUME ResumeInv, NEW w \in Savers, NEW clean \in BOOLEAN, NEW sel \in Selections,
           Free, torrent.loaded, Persist(w, clean, sel),
           torrent' \in [loaded : {TRUE}, sel : {sel}, bits : {torrent.bits}, edited : BOOLEAN],
           lane' = IF clean THEN w ELSE lane,
           engine' \in {"up", "closing", "down"}, chosen' \in Selections \cup {None},
           UNCHANGED <<payload, crashes>>
    PROVE  ResumeInv'
<1> DEFINE side == [sel |-> sel, clean |-> clean, stamp |-> 0, bits |-> torrent.bits]
           new == [at |-> "describe", file |-> None, side |-> side]
<1>1. /\ saver[w].at = "idle"
      /\ saver' = [saver EXCEPT ![w] = new]
      /\ trouble' = IF \E x \in Savers : Saving(x) THEN trouble \cup {"overlap"} ELSE trouble
      /\ UNCHANGED <<content, temp, target, payload, crashes>>
  BY DEF Persist, Saving
<1>2. /\ torrent'.loaded /\ torrent'.sel = sel /\ torrent'.bits = torrent.bits
      /\ torrent' \in [loaded : BOOLEAN, sel : Selections, bits : Stamps, edited : BOOLEAN]
  BY DEF ResumeInv, ResumeTypeOK
<1>3. side \in Sidecars /\ new.at = "describe" /\ new.side.clean = clean /\ new.side.sel = sel
  BY DEF ResumeInv, ResumeTypeOK, Sidecars, Stamps
<1>4. ResumeTypeOK'
  <2> HIDE DEF side
  <2>1. saver' \in [Savers -> [at : {"idle", "describe", "open", "write", "rename"},
                               side : Sidecars, file : Files \cup {None}]]
    BY <1>1, <1>3 DEF ResumeInv, ResumeTypeOK
  <2> QED
    BY <1>1, <1>2, <2>1 DEF ResumeInv, ResumeTypeOK
<1> HIDE DEF new
<1>5. BitfieldIsTrue' /\ PiecesBounded'
  BY <1>1, <1>2 DEF ResumeInv, BitfieldIsTrue, PiecesBounded
<1>6. SidesSound'
  BY <1>1, <1>3 DEF ResumeInv, ResumeTypeOK, SidesSound, Sound
<1>7. CleanIsAwaited'
  BY <1>1, <1>2, <1>3 DEF ResumeInv, ResumeTypeOK, CleanIsAwaited, Saving, Free
<1>8. SidecarReadable' /\ NamesApart'
  BY <1>1 DEF ResumeInv, SidecarReadable, NamesApart, Readable
<1>9. OneSave'
  BY <1>1, <1>3 DEF ResumeInv, ResumeTypeOK, OneSave, Saving
<1>10. SelectionUnderway'
  BY <1>1, <1>2, <1>3 DEF ResumeInv, ResumeTypeOK, SelectionUnderway, Saving
<1> QED
  BY <1>4, <1>5, <1>6, <1>7, <1>8, <1>9, <1>10 DEF ResumeInv

LEMMA PauseInv ==
    ASSUME ResumeInv, NEW w \in Savers, Pause(w) \/ Shutdown(w)
    PROVE  ResumeInv'
<1>1. torrent' \in [loaded : {TRUE}, sel : {torrent.sel}, bits : {torrent.bits}, edited : BOOLEAN]
  BY DEF Pause, Shutdown, ResumeInv, ResumeTypeOK
<1>2. engine' \in {"up", "closing", "down"} /\ chosen' \in Selections \cup {None}
      /\ torrent.sel \in Selections
  BY DEF Pause, Shutdown, ResumeInv, ResumeTypeOK
<1> QED
  BY <1>1, <1>2, PersistInv DEF Pause, Shutdown

LEMMA SetSelectionInv ==
    ASSUME ResumeInv, NEW w \in Savers, NEW sel \in Selections, SetSelection(w, sel)
    PROVE  ResumeInv'
<1>1. torrent' \in [loaded : {TRUE}, sel : {sel}, bits : {torrent.bits}, edited : BOOLEAN]
  BY DEF SetSelection, ResumeInv, ResumeTypeOK
<1>2. engine' \in {"up", "closing", "down"}
  BY DEF SetSelection, ResumeInv, ResumeTypeOK
<1> QED
  BY <1>1, <1>2, PersistInv DEF SetSelection

\* A session that goes, with its sidecar or its process, leaves no clean save.
LEMMA UnloadInv ==
    ASSUME ResumeInv, torrent' = NotLoaded, content' = Reachable, target' \in {target, None},
           \/ temp' = temp /\ saver' = saver /\ lane = None
           \/ temp' = None /\ saver' = [w \in Savers |-> NoSave],
           lane' = None, engine' \in {"up", "closing", "down"},
           chosen' \in Selections \cup {None}, crashes' \in 0..MaxCrash,
           UNCHANGED <<trouble, payload>>
    PROVE  ResumeInv'
<1>1. /\ content' \in [Files -> Contents]
      /\ \A f \in Files : content'[f] \in {content[f], Empty}
      /\ temp' \in Files => content'[temp'] = content[temp']
      /\ target' \in Files => content'[target'] = content[target']
  BY ReachableKeeps DEF ResumeInv
<1>2. /\ NoSave.at = "idle"
      /\ NoSave \in [at : {"idle"}, side : Sidecars, file : {None}]
      /\ torrent' \in [loaded : BOOLEAN, sel : Selections, bits : Stamps, edited : BOOLEAN]
      /\ ~torrent'.loaded /\ ~torrent'.edited
  BY DEF NoSave, Blank, Sidecars, Stamps, NotLoaded
<1>3. ResumeTypeOK'
  BY <1>1, <1>2 DEF ResumeInv, ResumeTypeOK
<1>4. BitfieldIsTrue' /\ PiecesBounded' /\ SelectionUnderway'
  BY <1>2 DEF ResumeInv, BitfieldIsTrue, PiecesBounded, SelectionUnderway
<1>5. \A w \in Savers : saver'[w] \in {saver[w], NoSave}
  OBVIOUS
<1>6. SidesSound'
  <2>1. \A f \in Files : Sound(content'[f].side)
    BY <1>1, ContentsTyped DEF ResumeInv, SidesSound, Sound
  <2> QED
    BY <1>2, <1>5, <2>1 DEF ResumeInv, SidesSound, Sound
<1>7. CleanIsAwaited'
  BY <1>2 DEF ResumeInv, ResumeTypeOK, CleanIsAwaited, Saving
<1>8. SidecarReadable' /\ NamesApart'
  BY <1>1 DEF ResumeInv, ResumeTypeOK, SidecarReadable, NamesApart, Readable
<1>9. OneSave'
  <2>1. CASE saver' = [w \in Savers |-> NoSave] /\ temp' = None
    BY <2>1, <1>2 DEF OneSave, Saving
  <2>2. CASE saver' = saver /\ temp' = temp
    BY <2>2, <1>1 DEF ResumeInv, ResumeTypeOK, OneSave, Saving
  <2> QED
    BY <2>1, <2>2
<1> QED
  BY <1>3, <1>4, <1>6, <1>7, <1>8, <1>9 DEF ResumeInv

LEMMA RemoveInv ==
    ASSUME ResumeInv, Remove
    PROVE  ResumeInv'
BY UnloadInv DEF Remove, Free, ResumeInv, ResumeTypeOK

LEMMA CrashInv ==
    ASSUME ResumeInv, Crash
    PROVE  ResumeInv'
<1>1. crashes' \in 0..MaxCrash /\ chosen' \in Selections \cup {None}
  BY DEF Crash, ResumeInv, ResumeTypeOK
<1> QED
  BY <1>1, UnloadInv DEF Crash

LEMMA SaveAwaitedInv ==
    ASSUME ResumeInv, SaveAwaited
    PROVE  ResumeInv'
<1>1. CASE engine = "closing"
  BY <1>1, UnloadInv DEF SaveAwaited, ResumeInv, ResumeTypeOK
<1>2. CASE engine # "closing"
  <2>1. /\ lane # None /\ saver[lane].at = "idle" /\ lane' = None
        /\ UNCHANGED <<temp, target, saver, trouble, payload, torrent, engine, chosen, crashes>>
    BY <1>2 DEF SaveAwaited
  <2>2. /\ content' \in [Files -> Contents]
        /\ \A f \in Files : content'[f] \in {content[f], Empty}
        /\ temp' \in Files => content'[temp'] = content[temp']
        /\ target' \in Files => content'[target'] = content[target']
    BY ReachableKeeps DEF SaveAwaited, ResumeInv
  <2>3. ResumeTypeOK'
    BY <2>1, <2>2 DEF ResumeInv, ResumeTypeOK
  <2>4. BitfieldIsTrue' /\ PiecesBounded'
    BY <2>1 DEF ResumeInv, BitfieldIsTrue, PiecesBounded
  <2>5. SidesSound'
    <3>1. \A f \in Files : Sound(content'[f].side)
      BY <2>2, ContentsTyped DEF ResumeInv, SidesSound, Sound
    <3> QED
      BY <2>1, <3>1 DEF ResumeInv, SidesSound, Sound
  <2>6. CleanIsAwaited'
    BY <2>1 DEF ResumeInv, CleanIsAwaited, Saving
  <2>7. SidecarReadable' /\ NamesApart'
    BY <2>1, <2>2 DEF ResumeInv, ResumeTypeOK, SidecarReadable, NamesApart, Readable
  <2>8. OneSave' /\ SelectionUnderway'
    BY <2>1, <2>2 DEF ResumeInv, ResumeTypeOK, OneSave, SelectionUnderway, Saving, Readable, Saved
  <2> QED
    BY <2>3, <2>4, <2>5, <2>6, <2>7, <2>8 DEF ResumeInv
<1> QED
  BY <1>1, <1>2

-----------------------------------------------------------------------------
(* The payload, and the engine's start.                                    *)

\* A description is of a fingerprint the payload no longer has, once it changes.
LEMMA PayloadInv ==
    ASSUME ResumeInv, Download \/ Damage
    PROVE  ResumeInv'
<1> USE DEF storeVars, managerVars
<1>1. /\ UNCHANGED <<storeVars, lane, engine, chosen, crashes>>
      /\ payload'.stamp = payload.stamp + 1 /\ payload' \in [stamp : Stamps, good : Stamps]
      /\ payload'.good <= payload'.stamp
      /\ torrent' \in [loaded : BOOLEAN, sel : Selections, bits : Stamps, edited : BOOLEAN]
      /\ torrent'.loaded = torrent.loaded /\ torrent'.edited = torrent.edited
      /\ torrent'.sel = torrent.sel
      /\ torrent'.loaded => torrent'.bits <= payload'.good
  BY DEF Download, Damage, ResumeInv, ResumeTypeOK, BitfieldIsTrue, PiecesBounded, Stamps
<1>2. ResumeTypeOK' /\ BitfieldIsTrue' /\ PiecesBounded'
  BY <1>1 DEF ResumeInv, ResumeTypeOK, BitfieldIsTrue, PiecesBounded
<1>3. ASSUME NEW side \in Sidecars, Sound(side)
      PROVE  Sound(side)'
  BY <1>1, <1>3 DEF ResumeInv, ResumeTypeOK, Sound, Sidecars, Stamps
<1>4. SidesSound'
  BY <1>1, <1>3, ContentsTyped DEF ResumeInv, ResumeTypeOK, SidesSound
<1>5. CleanIsAwaited' /\ SidecarReadable' /\ NamesApart' /\ OneSave' /\ SelectionUnderway'
  BY <1>1 DEF ResumeInv, CleanIsAwaited, SidecarReadable, NamesApart, OneSave, SelectionUnderway,
      Saving, Readable, Saved
<1> QED
  BY <1>2, <1>4, <1>5 DEF ResumeInv

LEMMA StartInv ==
    ASSUME ResumeInv, Start \/ UNCHANGED resumeVars
    PROVE  ResumeInv'
<1> USE DEF resumeVars, storeVars, managerVars
<1>1. /\ UNCHANGED <<storeVars, payload, torrent, lane, chosen, crashes>>
      /\ engine' \in {"up", "closing", "down"}
  BY DEF Start, ResumeInv, ResumeTypeOK
<1> QED
  BY <1>1 DEF ResumeInv, ResumeTypeOK, BitfieldIsTrue, SidecarReadable, SidesSound, Sound,
      CleanIsAwaited, PiecesBounded, NamesApart, OneSave, SelectionUnderway, Saving,
      Readable, Saved

-----------------------------------------------------------------------------
(* The theorems.                                                           *)

LEMMA NextInv == ResumeInv /\ [ResumeNext]_resumeVars => ResumeInv'
<1> SUFFICES ASSUME ResumeInv, [ResumeNext]_resumeVars PROVE ResumeInv'
    OBVIOUS
<1>1. CASE \E sel \in Selections : CommitSelection(sel)
  BY <1>1, CommitSelectionInv
<1>2. ASSUME NEW w \in Savers, NEW sel \in Selections, SetSelection(w, sel)
      PROVE  ResumeInv'
  BY <1>2, SetSelectionInv
<1>3. ASSUME NEW w \in Savers, Pause(w) \/ Shutdown(w)
      PROVE  ResumeInv'
  BY <1>3, PauseInv
<1>4. ASSUME NEW w \in Savers,
             Describe(w) \/ Open(w) \/ Write(w) \/ Rename(w) \/ SaveFails(w)
      PROVE  ResumeInv'
  BY <1>4, DescribeInv, OpenInv, WriteInv, RenameInv, SaveFailsInv
<1>5. CASE Restore \/ SaveAwaited \/ Remove \/ Crash
  BY <1>5, RestoreInv, SaveAwaitedInv, RemoveInv, CrashInv
<1>6. CASE Start \/ UNCHANGED resumeVars
  BY <1>6, StartInv
<1>7. CASE Download \/ Damage
  BY <1>7, PayloadInv
<1> QED
  BY <1>1, <1>2, <1>3, <1>4, <1>5, <1>6, <1>7 DEF ResumeNext

\* The strengthened invariant, from which the two below follow.
THEOREM ResumeInductive == ResumeSpec => []ResumeInv
<1>1. ResumeInit => ResumeInv
  BY InitInv
<1>2. ResumeInv /\ [ResumeNext]_resumeVars => ResumeInv'
  BY NextInv
<1> QED
  BY <1>1, <1>2, PTL DEF ResumeSpec

\* A restore trusts no more than what is on disk: the bitfield handed to the
\* client is true, and unless saves have overlapped the sidecar of a torrent is
\* one that was completed, whatever failed or crashed (resume-store.ts).
THEOREM RestoresSound == ResumeSpec => []RestoresAreSound
<1>1. ResumeInv => RestoresAreSound
  BY DEF ResumeInv, RestoresAreSound
<1> QED
  BY <1>1, ResumeInductive, PTL

\* Once the saves have ended, none having failed or overlapped, the sidecar
\* carries the selection the owner set last (torrent-manager.ts).
THEOREM SelectionSaved == ResumeSpec => []SelectionSavedInTurn
<1>1. ResumeInv => SelectionSavedInTurn
  BY DEF ResumeInv, SelectionUnderway, SelectionSavedInTurn, LastSelectionSaved, Saving
<1> QED
  BY <1>1, ResumeInductive, PTL

================================================================================
