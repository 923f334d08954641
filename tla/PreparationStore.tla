---------------------------- MODULE PreparationStore ----------------------------
(***************************************************************************)
(* engine/preparation-store.ts: the torrents whose metadata is known and   *)
(* that wait for the user to choose files.  One record per preparation, an *)
(* index by info hash and a sum of the bytes retained, kept in step by     *)
(* every operation.  A store is a value; the engine runtime holds one.     *)
(***************************************************************************)
EXTENDS Naturals, FiniteSets

CONSTANTS
    Preparations,       \* the preparations that may ever be created
    HashOf,             \* preparation -> info hash of its metadata
    BytesOf,            \* preparation -> size of its torrent file
    FilesOf,            \* preparation -> indexes of its files
    MaxPreparations,    \* PREPARATION_LIMITS.preparations
    MaxRetainedBytes    \* PREPARATION_LIMITS.retainedTorrentBytes

ASSUME StoreAssumption ==
    /\ BytesOf \in [Preparations -> Nat] /\ FilesOf \in [Preparations -> SUBSET Nat]
    /\ DOMAIN HashOf = Preparations
    /\ MaxPreparations \in Nat /\ MaxRetainedBytes \in Nat

InfoHashes == {HashOf[p] : p \in Preparations}

\* A preparation that is not in #recordsById.
Absent == "absent"

\* state: #recordsById, by preparation; byHash: #preparationIdByInfoHash, a set of
\* <<hash, preparation>>; retained: #retainedTorrentBytes; selected: selectedIndexes.
StoreOK(s) ==
    s \in [state : [Preparations -> {Absent, "open", "committing"}],
           byHash : SUBSET (InfoHashes \X Preparations),
           retained : Nat,
           selected : [Preparations -> SUBSET Nat]]

EmptyStore ==
    [state |-> [p \in Preparations |-> Absent], byHash |-> {}, retained |-> 0,
     selected |-> [p \in Preparations |-> {}]]

Kept(s) == {p \in Preparations : s.state[p] # Absent}

\* The bytes of the torrent files of some preparations, counted one by one.
BytesIn(some) == Cardinality(UNION {{p} \X (1..BytesOf[p]) : p \in some})

\* #remove: the records, their index entries and their bytes go together.
Without(s, gone) ==
    [state |-> [p \in Preparations |-> IF p \in gone THEN Absent ELSE s.state[p]],
     byHash |-> {e \in s.byHash : \A p \in gone : e[1] # HashOf[p]},
     retained |-> s.retained - BytesIn(gone),
     selected |-> [p \in Preparations |-> IF p \in gone THEN {} ELSE s.selected[p]]]

\* Mutant: a preparation being committed expires like any other.
ExpiringAny(s, due) == Kept(s) \cap due

\* Those expire() takes: open ones whose time is over.
Expiring(s, due) == {p \in due : s.state[p] = "open"}

\* expire()
Expired(s, due) == Without(s, Expiring(s, due))

\* #activeRecord: every lookup expires first, and answers EXPIRED or NOT_FOUND
\* for what is not there afterwards.
Active(s, due, p) == Expired(s, due).state[p] # Absent

\* What create() answers: a hash is prepared once, and neither the number nor the
\* bytes of the preparations pass their limits.
CreateAnswer(s, p) ==
    IF \E q \in Preparations : <<HashOf[p], q>> \in s.byHash THEN "ALREADY_EXISTS"
    ELSE IF \/ Cardinality(Kept(s)) >= MaxPreparations
            \/ BytesOf[p] = 0
            \/ s.retained + BytesOf[p] > MaxRetainedBytes
    THEN "CAPACITY_EXCEEDED"
    ELSE "ok"

\* create(), when it answers "ok": no file is selected.
Created(s, p) ==
    [s EXCEPT !.state[p] = "open",
              !.byHash = @ \cup {<<HashOf[p], p>>},
              !.retained = @ + BytesOf[p]]

\* updateSelection(): an index that is not the torrent's refuses all the changes.
MaySelect(s, p, add, remove) ==
    /\ s.state[p] = "open"
    /\ add \cup remove # {} /\ add \cup remove \subseteq FilesOf[p]
    /\ add \cap remove = {}

Selected(s, p, add, remove) == [s EXCEPT !.selected[p] = (@ \cup add) \ remove]

\* beginCommit(): the record is reserved, and only its reservation moves it on.
Committing(s, p) == [s EXCEPT !.state[p] = "committing"]

\* rollbackCommitBeforeMetadata(): open again, unless its time is over or the
\* store has been cleared meanwhile.
RolledBack(s, due, p) ==
    IF s.state[p] # "committing" THEN s
    ELSE IF p \in due THEN Without(s, {p})
    ELSE [s EXCEPT !.state[p] = "open"]

\* consumeCommit()
Consumed(s, p) == IF s.state[p] = "committing" THEN Without(s, {p}) ELSE s

\* discard(), and the discards whose failure the callers swallow.
Discarded(s, p) == IF s.state[p] = "open" THEN Without(s, {p}) ELSE s

\* clear()
Cleared(s) == EmptyStore

\* The index and the sum say what the records say.
StoreAgrees(s) ==
    /\ s.byHash = {<<HashOf[p], p>> : p \in Kept(s)}
    /\ s.retained = BytesIn(Kept(s))
    /\ \A p, q \in Kept(s) : HashOf[p] = HashOf[q] => p = q
    /\ Cardinality(Kept(s)) <= MaxPreparations /\ s.retained <= MaxRetainedBytes

===============================================================================
