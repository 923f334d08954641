------------------------------ MODULE DhtBoundary ------------------------------
(* The engine's one DHT participant (dht-boundary.ts) and who may use it for a  *)
(* torrent: its committed session or a metadata acquisition of the same torrent *)
(* that started first (engine/index.ts).  Contacts, tokens and delays are left  *)
(* out: a cycle ends with or without peers.  Then the token buckets every       *)
(* datagram passes before it is read (dht-wire.ts).                             *)
EXTENDS Integers, FiniteSets, SequencesExt

CONSTANTS Hashes, CommittedGens, StagingGens, HashOfGen,
          MaxQueuedActivations, ConcurrentOperations,
          MaxCalls,            \* bound: the calls under way for each generation
          Sources,             \* the addresses datagrams come from
          MaxSources,          \* maxSourceEntries
          GlobalBurst, GlobalRefill,  \* globalBurst, bucketRefillPerSecond per tick
          SourceBurst, SourceRefill,  \* sourceBurst, sourceRefillPerSecond per tick
          SourceExpiry,        \* sourceExpiryMs, in ticks
          MaxTime              \* bound: the ticks that pass

NoGen == "none"

ASSUME DhtAssumption ==
    /\ CommittedGens \intersect StagingGens = {}
    /\ NoGen \notin CommittedGens \union StagingGens
    /\ HashOfGen \in [CommittedGens \union StagingGens -> Hashes]
    /\ MaxQueuedActivations \in Nat \ {0}
    /\ ConcurrentOperations \in Nat \ {0}
    /\ MaxCalls \in [CommittedGens \union StagingGens -> Nat]

ASSUME IngressAssumption ==
    /\ {GlobalBurst, GlobalRefill, SourceBurst, SourceRefill} \subseteq Nat
    /\ {MaxSources, SourceExpiry} \subseteq Nat \ {0}
    /\ MaxTime \in Nat

Gens == CommittedGens \union StagingGens

VARIABLES
    \* @type: Hash -> [gen: Gen, running: Bool, timer: Bool]; no gen, no activation
    activations,
    \* @type: Bool
    dhtSocket,
    \* @type: Bool
    dhtClosed,
    \* @type: Gen -> [opening, reopening, querying: Nat]; the calls under way for a generation
    dhtWork,
    \* @type: Hash -> Gen; the sessions that want the DHT
    dhtSessions,
    \* @type: Hash -> Gen
    stagingDhtSessions,
    \* @type: Hash -> Gen; the sessions that wait for an acquisition to end
    pendingCommittedDht,
    \* @type: Set(Gen); acquisitions whose activation was refused
    refusedGens,
    \* @type: Set(Gen); acquisitions that are over
    frozenGens,
    \* @type: Set(Hash); history: activated with a socket that threw
    stranded,
    \* @type: Set(Hash); history: with a session that a full queue refused
    turnedAway

dhtVars == <<activations, dhtSocket, dhtClosed, dhtWork, dhtSessions,
             stagingDhtSessions, pendingCommittedDht, refusedGens, frozenGens,
             stranded, turnedAway>>

CallsUnderWay(work) == work.opening + work.reopening + work.querying

NoActivation == [gen |-> NoGen, running |-> FALSE, timer |-> FALSE]

DhtInit ==
    /\ activations = [h \in Hashes |-> NoActivation]
    /\ dhtSocket = FALSE
    /\ dhtClosed = FALSE
    /\ dhtWork = [g \in Gens |-> [opening |-> 0, reopening |-> 0, querying |-> 0]]
    /\ dhtSessions = [h \in Hashes |-> NoGen]
    /\ stagingDhtSessions = [h \in Hashes |-> NoGen]
    /\ pendingCommittedDht = [h \in Hashes |-> NoGen]
    /\ refusedGens = {}
    /\ frozenGens = {}
    /\ stranded = {}
    /\ turnedAway = {}

DhtTypeOK ==
    /\ activations \in
         [Hashes -> [gen : Gens \union {NoGen}, running : BOOLEAN, timer : BOOLEAN]]
    /\ dhtSocket \in BOOLEAN /\ dhtClosed \in BOOLEAN
    /\ dhtWork \in [Gens -> [opening : Nat, reopening : Nat, querying : Nat]]
    /\ dhtSessions \in [Hashes -> CommittedGens \union {NoGen}]
    /\ stagingDhtSessions \in [Hashes -> StagingGens \union {NoGen}]
    /\ pendingCommittedDht \in [Hashes -> CommittedGens \union {NoGen}]
    /\ refusedGens \subseteq StagingGens
    /\ frozenGens \subseteq StagingGens
    /\ stranded \subseteq Hashes
    /\ turnedAway \subseteq Hashes

---------------------------------------------------------------------------------
(* The boundary. *)

OpenIn(as) == {h \in Hashes : as[h].gen # NoGen}

\* The activation of a generation is made, and its socket where there is none,
\* unless that throws: then nothing will look at the activation again.
Made(g, opens, left, socket) ==
    /\ opens \/ ~ socket
    /\ activations' = [left EXCEPT ![HashOfGen[g]] = [NoActivation EXCEPT !.gen = g]]
    /\ dhtSocket' = (socket \/ opens)
    /\ IF opens
       THEN /\ CallsUnderWay(dhtWork[g]) < MaxCalls[g]
            /\ dhtWork' = [dhtWork EXCEPT ![g].opening = @ + 1]
            /\ stranded' = stranded \ {HashOfGen[g]}
       ELSE /\ stranded' = stranded \union {HashOfGen[g]}
            /\ UNCHANGED dhtWork

IsFull(as) == Cardinality(OpenIn(as)) >= MaxQueuedActivations

\* activate() without its caller's reaction.
Activate(g, opens) ==
    LET h == HashOfGen[g]
    IN IF ~ dhtClosed /\ activations[h].gen = NoGen /\ ~ IsFull(activations)
       THEN /\ Made(g, opens, activations, dhtSocket)
            /\ refusedGens' = IF opens THEN refusedGens
                              ELSE refusedGens \union ({g} \intersect StagingGens)
            /\ UNCHANGED turnedAway
       ELSE /\ opens
            /\ refusedGens' = IF ~ dhtClosed /\ activations[h].gen = g
                              THEN refusedGens
                              ELSE refusedGens \union ({g} \intersect StagingGens)
            /\ turnedAway' = IF g \in CommittedGens /\ IsFull(activations)
                                /\ activations[h].gen = NoGen
                             THEN turnedAway \union {h} ELSE turnedAway
            /\ UNCHANGED <<activations, dhtSocket, dhtWork, stranded>>

Deactivated(as, g) ==
    IF as[HashOfGen[g]].gen = g THEN [as EXCEPT ![HashOfGen[g]] = NoActivation] ELSE as

\* runCycle of a torrent, for whichever generation it has: put off while both
\* operations are taken, a socket first where there is none.
Cycle(h, opens, work) ==
    LET a == activations[h]
        busy == Cardinality({k \in Hashes : activations[k].running})
        rests == [activations EXCEPT ![h].timer = FALSE]
    IN IF a.gen = NoGen \/ a.running \/ dhtClosed
       THEN /\ activations' = rests
            /\ dhtWork' = work
            /\ UNCHANGED dhtSocket
       ELSE IF busy >= ConcurrentOperations
       THEN /\ activations' = [activations EXCEPT ![h].timer = TRUE]
            /\ dhtWork' = work
            /\ UNCHANGED dhtSocket
       ELSE IF ~ dhtSocket
       THEN /\ CallsUnderWay(work[a.gen]) < MaxCalls[a.gen]
            /\ dhtSocket' = opens
            /\ activations' = rests
            /\ dhtWork' = [work EXCEPT ![a.gen].reopening = @ + 1]
       ELSE /\ CallsUnderWay(work[a.gen]) < MaxCalls[a.gen]
            /\ activations' = [rests EXCEPT ![h].running = TRUE]
            /\ dhtWork' = [work EXCEPT ![a.gen].querying = @ + 1]
            /\ UNCHANGED dhtSocket

sessionVars == <<dhtSessions, stagingDhtSessions, pendingCommittedDht,
                 refusedGens, frozenGens, dhtClosed, stranded, turnedAway>>

\* The first socket of an activation is open and its bootstrap resolved.
Opened(g, opens) ==
    /\ dhtWork[g].opening > 0
    /\ Cycle(HashOfGen[g], opens, [dhtWork EXCEPT ![g].opening = @ - 1])
    /\ UNCHANGED sessionVars

CycleTimer(h, opens) ==
    /\ activations[h].timer
    /\ Cycle(h, opens, dhtWork)
    /\ UNCHANGED sessionVars

\* A cycle that had to create the socket goes on, or is put off without one.
Reopened(g) ==
    LET h == HashOfGen[g] IN
    /\ dhtWork[g].reopening > 0
    /\ IF dhtClosed \/ activations[h].gen # g
       THEN /\ dhtWork' = [dhtWork EXCEPT ![g].reopening = @ - 1]
            /\ UNCHANGED activations
       ELSE IF ~ dhtSocket
       THEN /\ dhtWork' = [dhtWork EXCEPT ![g].reopening = @ - 1]
            /\ activations' = [activations EXCEPT ![h].timer = TRUE]
       ELSE /\ dhtWork' = [dhtWork EXCEPT ![g].reopening = @ - 1,
                                          ![g].querying = @ + 1]
            /\ activations' = [activations EXCEPT ![h].running = TRUE]
    /\ UNCHANGED <<dhtSocket, sessionVars>>

\* The last query is answered, timed out or drained: the generation that is
\* still open is given its peers and a time for its next cycle.
CycleEnds(g) ==
    LET h == HashOfGen[g] IN
    /\ dhtWork[g].querying > 0
    /\ dhtWork' = [dhtWork EXCEPT ![g].querying = @ - 1]
    /\ activations' = IF activations[h].gen = g
                      THEN [activations EXCEPT ![h] =
                              [gen |-> g, running |-> FALSE, timer |-> TRUE]]
                      ELSE activations
    /\ UNCHANGED <<dhtSocket, sessionVars>>

\* The socket fails: it is closed and every query settles without an answer.
SocketFails ==
    /\ dhtSocket
    /\ dhtSocket' = FALSE
    /\ UNCHANGED <<activations, dhtWork, sessionVars>>

---------------------------------------------------------------------------------
(* Who uses it. *)

CanWait(h) == stagingDhtSessions[h] # NoGen

\* A session starts or resumes its discovery.
StartDht(g, opens) ==
    LET h == HashOfGen[g] IN
    /\ g \in CommittedGens
    /\ ~ dhtClosed
    /\ dhtSessions[h] = NoGen
    /\ dhtSessions' = [dhtSessions EXCEPT ![h] = g]
    /\ IF CanWait(h)
       THEN /\ opens
            /\ pendingCommittedDht' = [pendingCommittedDht EXCEPT ![h] = g]
            /\ UNCHANGED <<activations, dhtSocket, dhtWork, refusedGens, stranded,
                           turnedAway>>
       ELSE /\ Activate(g, opens)
            /\ UNCHANGED pendingCommittedDht
    /\ UNCHANGED <<dhtClosed, stagingDhtSessions, frozenGens>>

\* A session pauses or is removed.
StopDht(g) ==
    LET h == HashOfGen[g] IN
    /\ dhtSessions[h] = g
    /\ dhtSessions' = [dhtSessions EXCEPT ![h] = NoGen]
    /\ pendingCommittedDht' = [pendingCommittedDht EXCEPT ![h] = NoGen]
    /\ activations' = Deactivated(activations, g)
    /\ dhtSocket' = (dhtSocket /\ (activations[h].gen = g => OpenIn(activations') # {}))
    /\ turnedAway' = turnedAway \ {h}
    /\ stranded' = stranded \intersect OpenIn(activations')
    /\ UNCHANGED <<dhtClosed, dhtWork, stagingDhtSessions, refusedGens, frozenGens>>

\* An acquisition that may use the DHT starts, unless the torrent is looked for
\* already.
OpenStagingDht(g, opens) ==
    LET h == HashOfGen[g] IN
    /\ g \in StagingGens \ (frozenGens \union refusedGens)
    /\ ~ dhtClosed
    /\ stagingDhtSessions[h] # g
    /\ IF dhtSessions[h] # NoGen \/ CanWait(h)
       THEN /\ opens
            /\ refusedGens' = refusedGens \union {g}
            /\ UNCHANGED <<activations, dhtSocket, dhtWork, stagingDhtSessions, stranded,
                           turnedAway>>
       ELSE /\ stagingDhtSessions' = [stagingDhtSessions EXCEPT ![h] = g]
            /\ Activate(g, opens)
    /\ UNCHANGED <<dhtClosed, dhtSessions, pendingCommittedDht, frozenGens>>

\* Mutant: the torrent that waited for the acquisition is not activated.
ReleaseStagingAlone(g, opens) ==
    LET h == HashOfGen[g] IN
    /\ opens
    /\ stagingDhtSessions' = [stagingDhtSessions EXCEPT ![h] = NoGen]
    /\ activations' = Deactivated(activations, g)
    /\ dhtSocket' = (dhtSocket /\ (activations[h].gen = g => OpenIn(activations') # {}))
    /\ UNCHANGED <<dhtWork, pendingCommittedDht, stranded, turnedAway>>

\* An acquisition gives the torrent up and the session that waited for it, if
\* there is one, is activated.
ReleaseStaging(g, opens) ==
    LET h == HashOfGen[g]
        c == pendingCommittedDht[h]
        left == Deactivated(activations, g)
        socket == dhtSocket /\ (activations[h].gen = g => OpenIn(left) # {})
        waits == c # NoGen /\ c = dhtSessions[h] /\ left[h].gen = NoGen
    IN /\ stagingDhtSessions' = [stagingDhtSessions EXCEPT ![h] = NoGen]
       /\ pendingCommittedDht' = IF c = dhtSessions[h]
                                 THEN [pendingCommittedDht EXCEPT ![h] = NoGen]
                                 ELSE pendingCommittedDht
       /\ IF waits /\ ~ IsFull(left)
          THEN Made(c, opens, left, socket) /\ UNCHANGED turnedAway
          ELSE /\ opens
               /\ activations' = left
               /\ dhtSocket' = socket
               /\ turnedAway' = IF waits THEN turnedAway \union {h} ELSE turnedAway
               /\ stranded' = stranded \intersect OpenIn(left)
               /\ UNCHANGED dhtWork

\* The acquisition ends, or discovery failed for it and its catch runs first.
Freeze(g, opens) ==
    /\ g \in StagingGens \ frozenGens
    /\ stagingDhtSessions[HashOfGen[g]] = g
    /\ ~ dhtClosed
    /\ ReleaseStaging(g, opens)
    /\ frozenGens' = frozenGens \union {g}
    /\ refusedGens' = refusedGens \ {g}
    /\ UNCHANGED <<dhtClosed, dhtSessions>>

\* The engine shuts down: staging has ended, the sessions have stopped.
CloseDht ==
    /\ ~ dhtClosed
    /\ dhtClosed' = TRUE
    /\ activations' = [h \in Hashes |-> NoActivation]
    /\ dhtSocket' = FALSE
    /\ dhtSessions' = [h \in Hashes |-> NoGen]
    /\ stagingDhtSessions' = [h \in Hashes |-> NoGen]
    /\ pendingCommittedDht' = [h \in Hashes |-> NoGen]
    /\ stranded' = {} /\ turnedAway' = {}
    /\ UNCHANGED <<dhtWork, refusedGens, frozenGens>>

DhtNext ==
    \/ \E g \in Gens, opens \in BOOLEAN :
          \/ StartDht(g, opens) \/ OpenStagingDht(g, opens)
          \/ Freeze(g, opens) \/ Opened(g, opens)
    \/ \E h \in Hashes, opens \in BOOLEAN : CycleTimer(h, opens)
    \/ \E g \in Gens : StopDht(g) \/ Reopened(g) \/ CycleEnds(g)
    \/ SocketFails \/ CloseDht

---------------------------------------------------------------------------------
(* Properties. *)

\* Who is searched for is who wants it: no activation outlives the session or
\* the acquisition it was made for, and a running session is searched for
\* unless an acquisition of its torrent holds the DHT and the session waits for
\* it (engine/index.ts activateCommittedDht, retryCommittedDht, freeze), or the
\* queue was full when it asked, which it never does again.
DhtServesItsOwner ==
    \A h \in Hashes :
        /\ activations[h].gen \in {NoGen, dhtSessions[h], stagingDhtSessions[h]}
        /\ dhtSessions[h] # NoGen =>
             \/ activations[h].gen = dhtSessions[h]
             \/ (pendingCommittedDht[h] = dhtSessions[h] /\ CanWait(h))
             \/ h \in turnedAway

\* With no torrent to look for there is no socket, so an idle engine sends
\* nothing (dht-boundary.ts "all send zero packets").
SilentWhenIdle == dhtSocket => OpenIn(activations) # {}

\* An activation is never forgotten: it runs, has a time to run, or its socket
\* is being opened (dht-boundary.ts #runCycle, "Socket construction is retried
\* through the same bounded backoff as an unanswered discovery cycle"), except
\* where the socket it was made with threw.
SearchGoesOn ==
    \A h \in OpenIn(activations) :
        \/ activations[h].running \/ activations[h].timer
        \/ dhtWork[activations[h].gen].opening > 0
        \/ dhtWork[activations[h].gen].reopening > 0
        \/ h \in stranded

---------------------------------------------------------------------------------
(* The buckets of the ingress. *)

VARIABLES
    now,        \* the clock, in ticks
    global,     \* #global: the bucket every datagram draws from
    tracked,    \* #sources: a sequence, the longest untouched first
    accepted,   \* ghost: the datagrams let in since a window began, and of each
                \* source since then or since it was last forgotten
    asked       \* ghost: when the limiter was last asked

ingressVars == <<now, global, tracked, accepted, asked>>

\* Nothing was let in yet in a window that begins.
Window(time) == [all |-> 0, from |-> time, of |-> [s \in Sources |-> 0],
                 since |-> [s \in Sources |-> time]]

IngressInit ==
    /\ now = 0
    /\ global = [tokens |-> GlobalBurst, at |-> 0]
    /\ tracked = <<>>
    /\ accepted = Window(0)
    /\ asked = 0

\* Mutant: what an idle time refills is saved up beyond the burst.
RefilledUncapped(bucket, refill, burst) ==
    [bucket EXCEPT !.tokens = @ + (now - bucket.at) * refill, !.at = now]

\* A bucket refilled up to now.
Refilled(bucket, refill, burst) ==
    LET tokens == bucket.tokens + (now - bucket.at) * refill
    IN  [bucket EXCEPT !.tokens = IF tokens < burst THEN tokens ELSE burst, !.at = now]

Drained(bucket) == [bucket EXCEPT !.tokens = IF @ >= 1 THEN @ - 1 ELSE @]

\* #expire: from the longest untouched on, up to the first that is not too old.
Unexpired(sources) ==
    LET first == CHOOSE i \in 1..(Len(sources) + 1) :
                    /\ i <= Len(sources) => now - sources[i].at < SourceExpiry
                    /\ \A j \in 1..(i - 1) : now - sources[j].at >= SourceExpiry
    IN  SubSeq(sources, first, Len(sources))

Forgets(ghost, known) ==
    [ghost EXCEPT !.of = [s \in Sources |-> IF s \in known THEN ghost.of[s] ELSE 0],
                  !.since = [s \in Sources |-> IF s \in known THEN ghost.since[s] ELSE now]]

Names(sources) == {sources[i].source : i \in 1..Len(sources)}

PlaceOf(source, sources) ==
    CHOOSE i \in 1..Len(sources) : sources[i].source = source

\* The bucket of a source, a full one where it is not remembered.
BucketOf(source, sources) ==
    IF source \in Names(sources) THEN sources[PlaceOf(source, sources)]
    ELSE [source |-> source, tokens |-> SourceBurst, at |-> now]

OthersThan(source, sources) ==
    IF source \in Names(sources) THEN RemoveAt(sources, PlaceOf(source, sources))
    ELSE sources

\* accept(source): the source's bucket is drawn from only when the common one
\* had a token, moves to the end, and the longest untouched makes room.
Accept(source) ==
    LET kept == Unexpired(tracked)
        drawn == Refilled(global, GlobalRefill, GlobalBurst)
        own == Refilled(BucketOf(source, kept), SourceRefill, SourceBurst)
        moved == Append(OthersThan(source, kept), Drained(own))
        fitted == IF Len(moved) > MaxSources THEN Tail(moved) ELSE moved
        known == Forgets(accepted, Names(kept))
    IN  /\ global' = Drained(drawn)
        /\ asked' = now
        /\ IF drawn.tokens < 1
           THEN tracked' = kept /\ accepted' = known
           ELSE /\ tracked' = fitted
                /\ accepted' = Forgets(
                      IF own.tokens < 1 THEN known
                      ELSE [known EXCEPT !.all = @ + 1, !.of[source] = @ + 1],
                      Names(fitted))
        /\ UNCHANGED now

\* Time passes; at any moment of it the window begins in which is counted.
Tick ==
    /\ now < MaxTime
    /\ now' = now + 1
    /\ accepted' \in {accepted, Window(now')}
    /\ UNCHANGED <<global, tracked, asked>>

IngressNext == Tick \/ \E source \in Sources : Accept(source)

\* However the datagrams of many sources interleave with the clock, no more are
\* let in over any window of time than one burst and what the window refills, in
\* all and of each source while it is remembered; the memory is bounded, and none
\* in it is out of date (DhtIngressLimiter).
IngressIsMetered ==
    /\ accepted.all <= GlobalBurst + GlobalRefill * (now - accepted.from)
    /\ \A s \in Names(tracked) :
          accepted.of[s] <= SourceBurst + SourceRefill * (now - accepted.since[s])
    /\ Len(tracked) <= MaxSources
    /\ Cardinality(Names(tracked)) = Len(tracked)
    /\ \A i \in 1..Len(tracked) : asked - tracked[i].at < SourceExpiry
    /\ \A i, j \in 1..Len(tracked) : i <= j => tracked[i].at <= tracked[j].at

(* ------------------------------- the messages ------------------------------- *)

(* The shapes a message may have after it was read (dht-wire.ts).  It is given  *)
(* by its fields, a byte string by its length and an absent field by the empty  *)
(* set.                                                                         *)

CONSTANTS
    MaxTransaction,      \* maxTransactionBytes
    MaxToken,            \* maxTokenBytes
    MaxErrorMessage      \* maxErrorMessageBytes

\* A field that must be there with one length, and one that may be left out.
Exactly(field, length) == field = {length}

FieldWithin(field, maximum) == field \subseteq 1..maximum

QuerySound(q, a) ==
    /\ q \in {{"announce_peer"}, {"find_node"}, {"get_peers"}, {"ping"}}
    /\ a # {}
    /\ \A args \in a :
          /\ Exactly(args.id, 20)
          /\ q = {"find_node"} => Exactly(args.target, 20)
          /\ q \in {{"get_peers"}, {"announce_peer"}} => Exactly(args.hash, 20)
          /\ q = {"announce_peer"} =>
                /\ args.token # {} /\ FieldWithin(args.token, MaxToken)
                /\ args.port # {} /\ FieldWithin(args.port, 65535)

\* Lists of contacts are given by the lengths of their byte strings.
AnswerSound(r) ==
    /\ Exactly(r.id, 20)
    /\ \A nodes \in r.nodes : nodes % 26 = 0
    /\ \A peers \in r.values : \A i \in 1..Len(peers) : peers[i] = 6
    /\ \A nodes \in r.nodes6 : nodes % 38 = 0
    /\ \A peers \in r.values6 : \A i \in 1..Len(peers) : peers[i] = 18
    /\ FieldWithin(r.token, MaxToken)

\* Mutant: IPv6 contacts stay in the answer.
WithoutIpv6Kept(r) == r

\* What is handed on of an answer: its IPv6 contacts are dropped.
WithoutIpv6(r) == [r EXCEPT !.nodes6 = {}, !.values6 = {}]

\* decodeDhtDatagram after the reader: the message, or no message.
ReadDatagram(d) ==
    LET none == [kind |-> "refused", response |-> {}]
    IN  IF d.t = {} \/ ~FieldWithin(d.t, MaxTransaction) THEN none
        ELSE CASE d.y = {"q"} /\ QuerySound(d.q, d.a) -> [kind |-> "query", response |-> {}]
               [] d.y = {"r"} /\ d.r # {} /\ (\A r \in d.r : AnswerSound(r)) ->
                    [kind |-> "response", response |-> {WithoutIpv6(r) : r \in d.r}]
               [] d.y = {"e"} /\ d.e # {}
                    /\ (\A e \in d.e : e.items = 2 /\ e.number /\ e.text <= MaxErrorMessage) ->
                    [kind |-> "error", response |-> {}]
               [] OTHER -> none

\* A message that is let through is one the client may act on: none of its
\* contacts is IPv6, and every identifier it is looked up by has its length.
MessageIsUsable(d) ==
    LET read == ReadDatagram(d)
    IN  /\ read.kind # "refused" => d.t # {} /\ d.t \subseteq 1..MaxTransaction
        /\ read.kind = "query" =>
              /\ \A args \in d.a : args.id = {20}
              /\ d.q \in {{"get_peers"}, {"announce_peer"}} =>
                    \A args \in d.a : args.hash = {20}
              /\ d.q \cap {"get", "put"} = {}
        /\ \A r \in read.response :
              /\ r.nodes6 = {} /\ r.values6 = {}
              /\ \A peers \in r.values : \A i \in 1..Len(peers) : peers[i] = 6

===============================================================================
