-------------------------- MODULE EngineReadersProofs --------------------------
(* Theorems about the readers of EngineReaders, for inputs of any size: each    *)
(* property of a reader is one of the input it was given, whatever that says,   *)
(* and the input has its type from the first state to the last.                 *)
EXTENDS EngineReaders, EngineServicesProofs, TorrentMetadataProofs

\* A set whose members are one has one at most.
LEMMA AtMostOne ==
    ASSUME NEW s, \A x, y \in s : x = y
    PROVE  IsFiniteSet(s) /\ Cardinality(s) <= 1
<1>1. CASE s = {}
  BY <1>1, FS_EmptySet
<1>2. CASE s # {}
  <2>1. PICK x : x \in s
    BY <1>2
  <2>2. s = {x}
    BY <2>1
  <2>3. IsFiniteSet({x}) /\ Cardinality({x}) = 1
    BY FS_Singleton, Zenon
  <2> QED
    BY <2>2, <2>3
<1> QED
  BY <1>1, <1>2

\* The fields behind the nine that are always there are two at most.
LEMMA FirstNineOrLater ==
    ASSUME NEW n \in 9..11, NEW k \in 1..n
    PROVE  /\ k \in 1..9 \/ k \in 10..n
           /\ k \notin 1..9 => k \in 10..11
           /\ \A l \in 1..n : l \notin 1..9 /\ k \notin 1..9 /\ k # l => n = 11
OBVIOUS

\* A list behind another.
LEMMA OneBehindAnother ==
    ASSUME NEW S, NEW T, NEW s \in Seq(S), NEW t \in Seq(T)
    PROVE  /\ Len(s) \in Nat /\ Len(s \o t) = Len(s) + Len(t)
           /\ \A k \in 1..Len(s) : (s \o t)[k] = s[k]
           /\ \A k \in 1..Len(t) : (s \o t)[Len(s) + k] = t[k]
OBVIOUS

\* The parameters of an announce: the nine that are always there, each once, and
\* the two others behind them.
LEMMA FieldsInOrder ==
    ASSUME NEW i
    PROVE  LET f == Fields(i)
           IN  /\ f \in Seq(Reserved) /\ Len(f) \in 9..11
               /\ \A k \in 1..9 : f[k] = Always[k]
               /\ \A k \in 10..Len(f) : f[k] \in {"event", "trackerid"}
               /\ Len(f) = 11 => f[10] # f[11]
<1>1. /\ Always \in Seq(Reserved) /\ Len(Always) = 9
  BY DEF Always, Reserved
<1>2. <<"event">> \in Seq(Reserved) /\ <<"trackerid">> \in Seq(Reserved)
  BY DEF Reserved
<1> DEFINE e == IF i.event # {} THEN <<"event">> ELSE <<>>
           t == IF i.trackerId # {} THEN <<"trackerid">> ELSE <<>>
<1>3. /\ e \in Seq(Reserved) /\ (e = <<>> \/ (Len(e) = 1 /\ e[1] = "event"))
      /\ t \in Seq(Reserved) /\ (t = <<>> \/ (Len(t) = 1 /\ t[1] = "trackerid"))
  BY <1>2
<1>4. Fields(i) = (Always \o e) \o t
  BY DEF Fields
<1> HIDE DEF e, t
<1> DEFINE a == Always
<1> HIDE DEF a
<1>5. a \in Seq(Reserved) /\ Len(a) = 9
  BY <1>1 DEF a
<1> DEFINE b == a \o e
           f == b \o t
<1>13. /\ b \in Seq(Reserved) /\ Len(b) = Len(a) + Len(e)
       /\ \A k \in 1..(Len(a) + Len(e)) : b[k] = IF k <= Len(a) THEN a[k] ELSE e[k - Len(a)]
  BY <1>3, <1>5, ConcatProperties
<1>6. /\ b \in Seq(Reserved) /\ Len(b) = 9 + Len(e)
      /\ \A k \in 1..(9 + Len(e)) : b[k] = IF k <= 9 THEN a[k] ELSE e[k - 9]
  BY <1>5, <1>13
<1> HIDE DEF b
<1>7. /\ f \in Seq(Reserved) /\ Len(f) = Len(b) + Len(t)
      /\ \A k \in 1..(Len(b) + Len(t)) : f[k] = IF k <= Len(b) THEN b[k] ELSE t[k - Len(b)]
  BY <1>3, <1>6, ConcatProperties
<1>8. Fields(i) = f
  BY <1>4 DEF a, b
<1> HIDE DEF f
<1>9. CASE e = <<>> /\ t = <<>>
  <2>1. Len(e) = 0 /\ Len(t) = 0
    BY <1>9
  <2>2. Len(b) = 9 /\ Len(f) = 9 /\ \A k \in 1..9 : f[k] = a[k]
    BY <1>6, <1>7, <2>1
  <2>3. Len(f) \in 9..11 /\ 10..Len(f) = {}
    BY <2>2
  <2> QED
    BY <1>7, <1>8, <2>2, <2>3, SMTT(30) DEF a
<1>10. CASE Len(e) = 1 /\ e[1] = "event" /\ t = <<>>
  <2>1. Len(t) = 0
    BY <1>10
  <2>2. Len(b) = 10 /\ Len(f) = 10 /\ (\A k \in 1..9 : f[k] = a[k]) /\ f[10] = "event"
    BY <1>6, <1>7, <1>10, <2>1
  <2>3. Len(f) \in 9..11 /\ 10..Len(f) = {10} /\ Len(f) # 11
    BY <2>2
  <2>4. \A k \in 10..Len(f) : f[k] \in {"event", "trackerid"}
    BY <2>2, <2>3
  <2> QED
    BY <1>7, <1>8, <2>2, <2>3, <2>4 DEF a
<1>11. CASE e = <<>> /\ Len(t) = 1 /\ t[1] = "trackerid"
  <2>1. Len(e) = 0
    BY <1>11
  <2>2. Len(b) = 9 /\ Len(f) = 10 /\ (\A k \in 1..9 : f[k] = a[k]) /\ f[10] = "trackerid"
    BY <1>6, <1>7, <1>11, <2>1
  <2>3. Len(f) \in 9..11 /\ 10..Len(f) = {10} /\ Len(f) # 11
    BY <2>2
  <2>4. \A k \in 10..Len(f) : f[k] \in {"event", "trackerid"}
    BY <2>2, <2>3
  <2> QED
    BY <1>7, <1>8, <2>2, <2>3, <2>4 DEF a
<1>12. CASE Len(e) = 1 /\ e[1] = "event" /\ Len(t) = 1 /\ t[1] = "trackerid"
  <2>1. Len(b) = 10 /\ Len(f) = 11
    BY <1>6, <1>7, <1>12
  <2>2. (\A k \in 1..9 : f[k] = a[k]) /\ f[10] = "event" /\ f[11] = "trackerid"
    BY <1>6, <1>7, <1>12, <2>1
  <2>3. Len(f) \in 9..11 /\ 10..Len(f) = {10, 11}
    BY <2>1
  <2> QED
    BY <1>7, <1>8, <2>1, <2>2, <2>3 DEF a
<1> QED
  BY <1>3, <1>9, <1>10, <1>11, <1>12

\* An announce asks for the client itself, whatever the tracker's URL came with
\* (buildTrackerAnnounceUrl).
LEMMA RequestsAskForThemselves ==
    ASSUME NEW i, NEW url, IsList(url.query)
    PROVE  AsksForItself(i, url)
<1> DEFINE sent == AnnounceUrl(i, url)
           q == url.query
           f == Fields(i)
           all == q \o f
<1> SUFFICES ASSUME sent.code = "OK" PROVE AsksForItself(i, url)
  BY DEF AsksForItself
<1>1. /\ sent.query = all
      /\ \A k \in 1..Len(q) : q[k] \notin Reserved
      /\ url.scheme = "http" => i.allowHttp
  BY DEF AnnounceUrl, Refusal
<1>2. /\ f \in Seq(Reserved) /\ Len(f) \in 9..11
      /\ \A k \in 1..9 : f[k] = Always[k]
      /\ \A k \in 10..Len(f) : f[k] \in {"event", "trackerid"}
      /\ Len(f) = 11 => f[10] # f[11]
  BY FieldsInOrder
<1>3. q \in Seq(ToSet(q))
  BY DEF IsList
<1> HIDE DEF f, q
<1>4. /\ Len(q) \in Nat /\ Len(all) = Len(q) + Len(f)
      /\ \A k \in 1..Len(q) : all[k] = q[k]
      /\ \A k \in 1..Len(f) : all[Len(q) + k] = f[k]
  <2>1. f \in Seq(Reserved)
    BY <1>2
  <2> QED
    BY <1>3, <2>1, OneBehindAnother
<1>5. ASSUME NEW name \in Reserved, NEW k \in 1..Len(all), all[k] = name
      PROVE  k - Len(q) \in 1..Len(f) /\ f[k - Len(q)] = name
  <2>1. k \notin 1..Len(q)
    BY <1>1, <1>4, <1>5
  <2>2. k - Len(q) \in 1..Len(f) /\ Len(q) + (k - Len(q)) = k
    BY <1>2, <1>4, <2>1
  <2> QED
    BY <1>4, <1>5, <2>2
<1>6. \A k, l \in 1..9 : Always[k] = Always[l] => k = l
  <2>1. \A k \in 1..9 : k \in {1, 2, 3, 4, 5, 6, 7, 8, 9}
    OBVIOUS
  <2>2. /\ Always[1] = "info_hash" /\ Always[2] = "peer_id" /\ Always[3] = "port"
        /\ Always[4] = "uploaded" /\ Always[5] = "downloaded" /\ Always[6] = "left"
        /\ Always[7] = "compact" /\ Always[8] = "no_peer_id" /\ Always[9] = "numwant"
    BY DEF Always
  <2> QED
    BY <2>1, <2>2
<1>7. \A name \in Reserved \ {"event", "trackerid"} : \E k \in 1..9 : Always[k] = name
  BY DEF Reserved, Always
<1> HIDE DEF all
<1>8. ASSUME NEW name \in Reserved \ {"event", "trackerid"}
      PROVE  \E k \in 1..Len(all) :
                /\ all[k] = name /\ k > Len(q)
                /\ \A j \in 1..Len(all) : all[j] = name => j = k
  <2>1. PICK k \in 1..9 : Always[k] = name
    BY <1>7
  <2>2. k \in 1..Len(f) /\ f[k] = name
    BY <1>2, <2>1, SMTT(30)
  <2>3. Len(q) + k \in 1..Len(all) /\ all[Len(q) + k] = name /\ Len(q) + k > Len(q)
    BY <1>2, <1>4, <2>2
  <2>4. ASSUME NEW j \in 1..Len(all), all[j] = name PROVE j = Len(q) + k
    <3>1. j - Len(q) \in 1..Len(f) /\ f[j - Len(q)] = name
      BY <1>5, <2>4
    <3>2. j - Len(q) \in 1..9
      <4>1. CASE j - Len(q) \in 10..Len(f)
        BY <1>2, <1>8, <3>1, <4>1
      <4> QED
        BY <1>2, <3>1, <4>1, FirstNineOrLater
    <3>3. Always[j - Len(q)] = name
      BY <1>2, <3>1, <3>2
    <3>4. j - Len(q) = k
      BY <1>6, <2>1, <3>2, <3>3
    <3> QED
      BY <1>4, <3>4
  <2> QED
    BY <2>3, <2>4
<1>9. ASSUME NEW name \in {"event", "trackerid"}
      PROVE  Cardinality({k \in 1..Len(all) : all[k] = name}) <= 1
  <2>1. name \in Reserved
    BY DEF Reserved
  <2>2. \A k \in 1..9 : f[k] # name
    BY <1>2, <1>9 DEF Always
  <2>3. ASSUME NEW k \in 1..Len(all), NEW l \in 1..Len(all), all[k] = name, all[l] = name
        PROVE  k = l
    <3>1. /\ k - Len(q) \in 1..Len(f) /\ f[k - Len(q)] = name
          /\ l - Len(q) \in 1..Len(f) /\ f[l - Len(q)] = name
      BY <1>5, <2>1, <2>3
    <3>2. /\ k - Len(q) \notin 1..9 /\ l - Len(q) \notin 1..9
          /\ Len(f) \in 9..11
      BY <1>2, <2>2, <3>1
    <3>4. /\ k - Len(q) \in 10..11 /\ l - Len(q) \in 10..11
          /\ k - Len(q) # l - Len(q) => Len(f) = 11
      BY <3>1, <3>2, FirstNineOrLater
    <3>3. k - Len(q) = l - Len(q)
      <4>1. CASE k - Len(q) = 10 /\ l - Len(q) = 11
        BY <1>2, <3>1, <3>4, <4>1
      <4>2. CASE k - Len(q) = 11 /\ l - Len(q) = 10
        BY <1>2, <3>1, <3>4, <4>2
      <4> QED
        BY <3>4, <4>1, <4>2
    <3> QED
      BY <1>4, <3>3
  <2> DEFINE s == {k \in 1..Len(all) : all[k] = name}
  <2>4. \A k, l \in s : k = l
    BY <2>3
  <2> HIDE DEF s
  <2>5. Cardinality(s) <= 1
    BY <2>4, AtMostOne
  <2> QED
    BY <2>5 DEF s
<1> QED
  BY <1>1, <1>8, <1>9 DEF AsksForItself, q

\* A datagram that is let through is one the client may act on
\* (decodeDhtDatagram).
LEMMA DatagramsAreUsable ==
    ASSUME NEW d, \A r \in d.r : IsAnswer(r)
    PROVE  MessageIsUsable(d)
<1> DEFINE read == ReadDatagram(d)
           sound == d.t # {} /\ FieldWithin(d.t, MaxTransaction)
           none == [kind |-> "refused", response |-> {}]
           query == [kind |-> "query", response |-> {}]
           error == [kind |-> "error", response |-> {}]
           response == [kind |-> "response", response |-> {WithoutIpv6(r) : r \in d.r}]
<1>1. \/ read = none
      \/ sound /\ read = query /\ d.y = {"q"} /\ QuerySound(d.q, d.a)
      \/ sound /\ read = response /\ d.y = {"r"} /\ \A r \in d.r : AnswerSound(r)
      \/ sound /\ read = error
  <2>1. CASE ~ sound
    BY <2>1 DEF ReadDatagram
  <2>2. CASE sound /\ d.y = {"q"} /\ QuerySound(d.q, d.a)
    BY <2>2 DEF ReadDatagram
  <2>3. CASE sound /\ ~ (d.y = {"q"} /\ QuerySound(d.q, d.a))
                   /\ d.y = {"r"} /\ d.r # {} /\ (\A r \in d.r : AnswerSound(r))
    BY <2>3 DEF ReadDatagram
  <2>4. CASE sound /\ ~ (d.y = {"q"} /\ QuerySound(d.q, d.a))
                   /\ ~ (d.y = {"r"} /\ d.r # {} /\ (\A r \in d.r : AnswerSound(r)))
    <3> DEFINE bad == d.y = {"e"} /\ d.e # {}
                      /\ (\A e \in d.e : e.items = 2 /\ e.number /\ e.text <= MaxErrorMessage)
    <3>1. CASE bad
      BY <2>4, <3>1 DEF ReadDatagram
    <3>2. CASE ~ bad
      BY <2>4, <3>2 DEF ReadDatagram
    <3> QED
      BY <3>1, <3>2
  <2> QED
    BY <2>1, <2>2, <2>3, <2>4
<1>2. read.kind # "refused" => d.t # {} /\ d.t \subseteq 1..MaxTransaction
  BY <1>1 DEF FieldWithin
<1>3. ASSUME read.kind = "query"
      PROVE  /\ \A args \in d.a : args.id = {20}
             /\ d.q \in {{"get_peers"}, {"announce_peer"}} => \A args \in d.a : args.hash = {20}
             /\ d.q \cap {"get", "put"} = {}
  <2>1. QuerySound(d.q, d.a)
    BY <1>1, <1>3
  <2>2. d.q \cap {"get", "put"} = {}
    BY <2>1 DEF QuerySound
  <2> QED
    BY <2>1, <2>2 DEF QuerySound, Exactly
<1>4. ASSUME NEW r \in read.response
      PROVE  /\ r.nodes6 = {} /\ r.values6 = {}
             /\ \A peers \in r.values : \A i \in 1..Len(peers) : peers[i] = 6
  <2>1. PICK a \in d.r : r = WithoutIpv6(a) /\ AnswerSound(a)
    BY <1>1, <1>4
  <2>2. IsAnswer(a)
    OBVIOUS
  <2>3. r.nodes6 = {} /\ r.values6 = {} /\ r.values = a.values
    BY <2>1, <2>2 DEF WithoutIpv6, IsAnswer
  <2> QED
    BY <2>1, <2>3 DEF AnswerSound
<1> QED
  BY <1>2, <1>3, <1>4, Zenon DEF MessageIsUsable

\* The contacts handed on are no more than asked for, and none is off limits
\* (sanitizeCompactPeers).
LEMMA ContactsAreReachable ==
    ASSUME NEW contacts, NEW m \in Nat, IsList(contacts),
           \A c \in ToSet(contacts) : c.address \in Seq(Nat)
    PROVE  LET handed == SanitizeContacts(contacts, m)
           IN  /\ Len(handed) <= m
               /\ \A i \in 1..Len(handed) : ~ SpecialPurpose(handed[i].address)
<1> DEFINE S == ToSet(contacts)
           wanted == {c \in S : ContactAllowed(c)}
           kept == Kept(contacts, wanted)
           n == IF Len(kept) < m THEN Len(kept) ELSE m
           handed == SubSeq(kept, 1, n)
<1>1. contacts \in Seq(S)
  BY DEF IsList
<1>2. kept \in Seq(S) /\ ToSet(kept) = ToSet(contacts) \cap wanted
  <2> HIDE DEF S, wanted
  <2> QED
    BY <1>1, KeptIsOfTheList
<1>3. SanitizeContacts(contacts, m) = handed
  BY DEF SanitizeContacts
<1> HIDE DEF kept
<1>4. /\ Len(kept) \in Nat /\ n \in 0..Len(kept) /\ n <= m
      /\ DOMAIN kept = 1..Len(kept)
  BY <1>2
<1>5. Len(handed) = n /\ \A i \in 1..n : handed[i] = kept[i]
  <2> HIDE DEF S
  <2> QED
    BY <1>2, <1>4
<1>6. ASSUME NEW i \in 1..n PROVE ~ SpecialPurpose(handed[i].address)
  <2>1. handed[i] \in wanted
    BY <1>2, <1>4, <1>5 DEF ToSet
  <2> DEFINE c == handed[i]
  <2>2. c \in S /\ ContactAllowed(c)
    BY <2>1
  <2> HIDE DEF c
  <2>5. IsPublicIpv4(c.address)
    BY <2>2 DEF ContactAllowed
  <2>6. c.address \in Seq(Nat)
    BY <2>2, Zenon
  <2>3. c.address \in Seq(Nat) /\ IsPublicIpv4(c.address) /\ IsIpv4(c.address)
    BY <2>5, <2>6, Zenon DEF IsPublicIpv4
  <2>4. ~ SpecialPurpose(c.address)
    BY <2>3, RangesAreTheBlocks
  <2> QED
    BY <2>4 DEF c
<1> QED
  BY <1>3, <1>4, <1>5, <1>6

\* A peer is mentioned after those of kept.
Mention(kept, peer) ==
    IF \E i \in 1..Len(kept) : kept[i].address = peer.address /\ kept[i].port = peer.port
    THEN kept ELSE Append(kept, peer)

\* The first mentions grow peer by peer.
MentionRun(st, s) ==
    /\ st[0] = <<>>
    /\ \A k \in 1..Len(s) :
          st[k] = Mention(st[k - 1], s[k])
    /\ FirstMentions(s) = st[Len(s)]

\* Listing the first mentions goes through such states.
LEMMA MentionSteps ==
    ASSUME NEW S, NEW s \in Seq(S)
    PROVE  \E st \in [0..Len(s) -> Seq(S)] : MentionRun(st, s)
<1> DEFINE n == Len(s)
           T == Seq(S)
           base == <<>>
           step == [p \in T \X (1..n) |-> Mention(p[1], s[p[2]])]
           IsFold(f) == f = [t \in SUBSET DOMAIN s |->
                           IF t = {} THEN base ELSE Mention(f[t \ {Max(t)}], s[Max(t)])]
           iter == CHOOSE f : IsFold(f)
<1>1. n \in Nat /\ base \in T /\ DOMAIN s = 1..n
  OBVIOUS
<1>2. step \in [T \X (1..n) -> T]
  BY DEF Mention
<1>3. \A a \in T, k \in 1..n : step[<<a, k>>] = Mention(a, s[k])
  OBVIOUS
<1>4. FirstMentions(s) = iter[1..n]
  BY <1>1 DEF FirstMentions, Mention, FoldLeft, MapThenFoldSet
<1> HIDE DEF T, n, step, base
<1>5. PICK f \in [SUBSET (1..n) -> T] :
         /\ GoesOn(f, base, T, step, n)
         /\ \A t \in SUBSET (1..n) : t # {} => Max(t) \in 1..n /\ f[t \ {Max(t)}] \in T
  BY <1>1, <1>2, FoldGoesOn
<1>6. IsFold(f)
  BY <1>1, <1>3, <1>5 DEF GoesOn
<1>7. IsFold(iter)
  <2> HIDE DEF IsFold
  <2> QED
    BY <1>6
<1> HIDE DEF iter
<1>8. GoesOn(iter, base, T, step, n)
  BY <1>1, <1>3, <1>5, <1>7, ZenonT(30) DEF GoesOn
<1>9. PICK st \in [0..n -> T] : Runs(st, base, T, step, n) /\ EndsWith(iter, st, n)
  <2> HIDE DEF IsFold
  <2>1. base \in T /\ n \in Nat
    BY <1>1
  <2> QED
    BY <1>2, <1>8, <2>1, StatesOfFold
<1> QED
  BY <1>3, <1>4, <1>9, ZenonT(30) DEF Runs, EndsWith, MentionRun, n, T, base

\* No two peers of a list are at one address and port.
Apart(peers) ==
    \A i, j \in 1..Len(peers) :
        peers[i].address = peers[j].address /\ peers[i].port = peers[j].port => i = j

\* The first mentions are peers of the list, and apart.
LEMMA MentionedOnce ==
    ASSUME NEW S, NEW s \in Seq(S)
    PROVE  /\ FirstMentions(s) \in Seq(S) /\ Len(FirstMentions(s)) <= Len(s)
           /\ Apart(FirstMentions(s))
<1>1. PICK st \in [0..Len(s) -> Seq(S)] : MentionRun(st, s)
  BY MentionSteps
<1>2. /\ st[0] = <<>>
      /\ \A k \in 1..Len(s) : st[k] = Mention(st[k - 1], s[k])
      /\ FirstMentions(s) = st[Len(s)]
  BY <1>1 DEF MentionRun
<1> DEFINE n == Len(s)
           good == {k \in 0..n : Len(st[k]) <= k /\ Apart(st[k])}
<1>3. n \in Nat /\ 0 \in good
  BY <1>2 DEF Apart
<1>4. ASSUME NEW k \in 0..(n - 1), k \in good PROVE k + 1 \in good
  <2>1. /\ k \in 0..n /\ k \in Nat /\ k + 1 \in 1..n /\ k + 1 \in 0..n /\ (k + 1) - 1 = k
        /\ st[k] \in Seq(S) /\ s[k + 1] \in S
    BY <1>3
  <2> DEFINE old == st[k]
             p == s[k + 1]
  <2>2. st[k + 1] = Mention(old, p)
    BY <1>2, <2>1
  <2>3. Len(old) <= k /\ Apart(old) /\ Len(old) \in Nat /\ old \in Seq(S) /\ p \in S
    BY <1>4, <2>1
  <2> HIDE DEF old, p
  <2>4. CASE \E i \in 1..Len(old) : old[i].address = p.address /\ old[i].port = p.port
    <3>1. st[k + 1] = old
      BY <2>2, <2>4 DEF Mention
    <3> QED
      BY <2>1, <2>3, <3>1
  <2>5. CASE ~ \E i \in 1..Len(old) : old[i].address = p.address /\ old[i].port = p.port
    <3> DEFINE new == Append(old, p)
    <3>1. st[k + 1] = new
      BY <2>2, <2>5 DEF Mention
    <3>2. /\ Len(new) = Len(old) + 1 /\ new[Len(old) + 1] = p
          /\ \A i \in 1..Len(old) : new[i] = old[i]
      BY <2>3
    <3> HIDE DEF new
    <3>3. Apart(new)
      <4> SUFFICES ASSUME NEW i \in 1..Len(new), NEW j \in 1..Len(new),
                          new[i].address = new[j].address, new[i].port = new[j].port
                   PROVE  i = j
        BY DEF Apart
      <4>1. (i \in 1..Len(old) \/ i = Len(old) + 1) /\ (j \in 1..Len(old) \/ j = Len(old) + 1)
        BY <2>3, <3>2
      <4>2. CASE i \in 1..Len(old) /\ j \in 1..Len(old)
        BY <2>3, <3>2, <4>2 DEF Apart
      <4>3. CASE i = Len(old) + 1 /\ j = Len(old) + 1
        BY <4>3
      <4>4. CASE i \in 1..Len(old) /\ j = Len(old) + 1
        BY <2>5, <3>2, <4>4
      <4>5. CASE i = Len(old) + 1 /\ j \in 1..Len(old)
        <5>1. old[j].address = p.address /\ old[j].port = p.port
          BY <3>2, <4>5
        <5> QED
          BY <2>5, <4>5, <5>1
      <4> QED
        BY <4>1, <4>2, <4>3, <4>4, <4>5
    <3> QED
      BY <2>1, <2>3, <3>1, <3>2, <3>3
  <2> QED
    BY <2>4, <2>5
<1>5. n \in good
  <2>1. \A k \in 0..n : k \in good
    <3> HIDE DEF good, n
    <3> QED
      BY <1>3, <1>4, UpTo
  <2> QED
    BY <1>3, <2>1
<1> QED
  BY <1>2, <1>3, <1>5

\* What is kept of a list whose items are apart is apart.
LEMMA KeptApart ==
    ASSUME NEW S, NEW s \in Seq(S), NEW wanted, Apart(s)
    PROVE  Apart(Kept(s, wanted))
<1> DEFINE kept == Kept(s, wanted)
<1>1. kept \in Seq(S) /\ \E e : Picks(e, kept, s, wanted, Len(s))
  BY KeptPicks
<1> HIDE DEF kept
<1>2. PICK e : Picks(e, kept, s, wanted, Len(s))
  BY <1>1
<1>3. /\ e \in [1..Len(kept) -> 1..Len(s)]
      /\ \A i \in 1..Len(kept) : kept[i] = s[e[i]]
      /\ \A i, j \in 1..Len(kept) : i < j => e[i] < e[j]
  BY <1>2 DEF Picks
<1> SUFFICES ASSUME NEW i \in 1..Len(kept), NEW j \in 1..Len(kept),
                    kept[i].address = kept[j].address, kept[i].port = kept[j].port
             PROVE  i = j
  BY DEF Apart, kept
<1>4. e[i] = e[j] /\ e[i] \in 1..Len(s)
  <2>1. e[i] \in 1..Len(s) /\ e[j] \in 1..Len(s)
    BY <1>3
  <2>2. s[e[i]].address = s[e[j]].address /\ s[e[i]].port = s[e[j]].port
    BY <1>3
  <2> QED
    BY <2>1, <2>2 DEF Apart
<1>5. Len(s) \in Nat /\ Len(kept) \in Nat /\ e[i] \in Nat /\ ~ (e[i] < e[j]) /\ ~ (e[j] < e[i])
  BY <1>1, <1>4
<1> QED
  BY <1>3, <1>5

\* The peers of one list: addresses and ports the list names, no more than the
\* limit.
LEMMA PeersOfAList ==
    ASSUME NEW l, IsPeerList(l), MaxAcceptedPeers \in Nat
    PROVE  LET read == PeersOf(l)
           IN  read.code = "OK" =>
                 /\ IsList(read.peers) /\ Len(read.peers) <= MaxAcceptedPeers
                 /\ \A p \in ToSet(read.peers) :
                       /\ p.address \in Seq(Nat)
                       /\ l.form = "compact" =>
                             \E i \in 1..Len(l.contacts) :
                                p.address = l.contacts[i].address /\ p.port = l.contacts[i].port
                       /\ l.form # "compact" =>
                             /\ l.form = "list"
                             /\ \E i \in 1..Len(l.entries) :
                                   p.address = l.entries[i].address /\ p.port = l.entries[i].port
<1> DEFINE read == PeersOf(l)
           peers == read.peers
<1> SUFFICES ASSUME read.code = "OK"
             PROVE  /\ IsList(read.peers) /\ Len(read.peers) <= MaxAcceptedPeers
                    /\ \A p \in ToSet(read.peers) :
                       /\ p.address \in Seq(Nat)
                       /\ l.form = "compact" =>
                             \E i \in 1..Len(l.contacts) :
                                p.address = l.contacts[i].address /\ p.port = l.contacts[i].port
                       /\ l.form # "compact" =>
                             /\ l.form = "list"
                             /\ \E i \in 1..Len(l.entries) :
                                   p.address = l.entries[i].address /\ p.port = l.entries[i].port
  OBVIOUS
<1>1. CASE l.form = "compact"
  <2> DEFINE c == l.contacts
             S == ToSet(c)
  <2>1. c \in Seq(S) /\ (\A x \in S : x.address \in Seq(Nat)) /\ Len(c) \in Nat
    BY <1>1 DEF IsPeerList, AreAddressed, IsAddress, IsList
  <2>2. peers = CompactPeers(l) /\ ~ (Len(c) > MaxAcceptedPeers)
    BY <1>1 DEF PeersOf
  <2>3. peers = [i \in 1..Len(c) |->
            [address |-> c[i].address, port |-> c[i].port, peerId |-> {}]]
    BY <2>2 DEF CompactPeers
  <2> HIDE DEF S, c, peers
  <2>4. DOMAIN c = 1..Len(c) /\ \A i \in 1..Len(c) : c[i] \in S
    BY <2>1
  <2>5. DOMAIN peers = 1..Len(c) /\ Len(peers) = Len(c)
    BY <2>1, <2>3
  <2>6. IsList(peers)
    <3>1. peers = [i \in 1..Len(c) |-> peers[i]]
      BY <2>1, <2>3
    <3> QED
      BY <2>1, <3>1, AList
  <2>7. ASSUME NEW p \in ToSet(peers)
        PROVE  p.address \in Seq(Nat)
               /\ \E i \in 1..Len(c) : p.address = c[i].address /\ p.port = c[i].port
    <3>1. PICK i \in 1..Len(c) : p = peers[i]
      BY <2>5 DEF ToSet
    <3>2. p.address = c[i].address /\ p.port = c[i].port
      BY <2>3, <3>1
    <3> QED
      BY <2>1, <2>4, <3>2
  <2> QED
    BY <1>1, <2>1, <2>2, <2>5, <2>6, <2>7 DEF peers, c
<1>2. CASE l.form # "compact"
  <2> DEFINE e == l.entries
             S == ToSet(e)
             wanted == {x \in S : x.family = 4}
             v4 == Kept(e, wanted)
  <2>0. l.form = "list"
    BY <1>2 DEF PeersOf
  <2>1. e \in Seq(S) /\ (\A x \in S : x.address \in Seq(Nat)) /\ Len(e) \in Nat
    BY <2>0 DEF IsPeerList, AreAddressed, IsAddress, IsList
  <2>2. peers = ListedPeers(l) /\ ~ (Len(e) > MaxAcceptedPeers)
    BY <2>0 DEF PeersOf
  <2>3. v4 \in Seq(S) /\ Len(v4) <= Len(e) /\ ToSet(v4) = ToSet(e) \cap wanted
    <3> HIDE DEF S, e, wanted
    <3> QED
      BY <2>1, KeptIsOfTheList
  <2>4. peers = [i \in 1..Len(v4) |-> [address |-> v4[i].address, port |-> v4[i].port,
                                       peerId |-> v4[i].peerId]]
    BY <2>2 DEF ListedPeers
  <2>5. Len(v4) \in Nat /\ DOMAIN v4 = 1..Len(v4)
    BY <2>3
  <2> HIDE DEF v4, peers, wanted
  <2>6. ASSUME NEW i \in 1..Len(v4) PROVE \E k \in 1..Len(e) : v4[i] = e[k]
    <3>1. v4[i] \in ToSet(v4)
      BY <2>5 DEF ToSet
    <3>2. v4[i] \in ToSet(e) /\ DOMAIN e = 1..Len(e)
      BY <2>1, <2>3, <3>1
    <3> QED
      BY <3>2 DEF ToSet
  <2>7. ASSUME NEW i \in 1..Len(v4) PROVE v4[i].address \in Seq(Nat)
    BY <2>1, <2>3
  <2>8. DOMAIN peers = 1..Len(v4) /\ Len(peers) = Len(v4)
    BY <2>4, <2>5
  <2>9. IsList(peers)
    BY <2>4, <2>5, <2>8 DEF IsList, ToSet
  <2>10. ASSUME NEW p \in ToSet(peers)
         PROVE  p.address \in Seq(Nat) /\ \E k \in 1..Len(e) : p.address = e[k].address /\ p.port = e[k].port
    <3>1. PICK i \in 1..Len(v4) : p = peers[i]
      BY <2>8 DEF ToSet
    <3>2. p.address = v4[i].address /\ p.port = v4[i].port
      BY <2>4, <3>1
    <3> QED
      BY <2>6, <2>7, <3>2
  <2>11. Len(peers) <= MaxAcceptedPeers
    BY <2>1, <2>2, <2>3, <2>5, <2>8, SMT
  <2> QED
    BY <1>2, <2>0, <2>9, <2>10, <2>11 DEF peers
<1> QED
  BY <1>1, <1>2

\* A peer that may be used is at no special-purpose address, or at one of a private
\* network where those are allowed, and is not the client itself.
LEMMA AllowedPeerIsConfined ==
    ASSUME NEW p, NEW private, p.address \in Seq(Nat), PeerAllowed(p, private)
    PROVE  /\ SpecialPurpose(p.address) => private /\ PrivateUse(p.address)
           /\ LocalPeerId \notin p.peerId
<1> DEFINE a == p.address
<1>1. /\ IsPublicIpv4(a) \/ (private /\ IsPrivateNetworkIpv4(a))
      /\ LocalPeerId \notin p.peerId
  BY DEF PeerAllowed
<1>2. a \in Seq(Nat) /\ IsIpv4(a)
  BY <1>1 DEF IsPublicIpv4, IsPrivateNetworkIpv4
<1> HIDE DEF a
<1>3. (IsPrivateNetworkIpv4(a) <=> PrivateUse(a)) /\ (IsPublicIpv4(a) <=> ~ SpecialPurpose(a))
  BY <1>2, RangesAreTheBlocks
<1>4. SpecialPurpose(a) => private /\ PrivateUse(a)
  BY <1>1, <1>3
<1> QED
  BY <1>1, <1>4 DEF a

\* What is believed of a tracker's answer is within the limits, apart, allowed and
\* mentions by the answer (parseTrackerAnnounceResponse).
LEMMA AnswersAreWithinBounds ==
    ASSUME NEW answer, NEW private, \A l \in answer.peers : IsPeerList(l),
           MaxAcceptedPeers \in Nat, MaxCount \in Nat,
           MinInterval \in Int, MaxInterval \in Int, MinInterval <= MaxInterval
    PROVE  BelievesWithinBounds(answer, private)
<1> DEFINE none == [form |-> "compact", contacts |-> <<>>, rest |-> 0]
           only(list) == IF list = {} THEN none ELSE CHOOSE l \in list : TRUE
           list == only(answer.peers)
           of == PeersOf(list)
           ignored == CheckPeers6(only(answer.peers6), Len(of.peers))
           mentions == FirstMentions(of.peers)
           wanted == {p \in ToSet(mentions) : PeerAllowed(p, private)}
           kept == Kept(mentions, wanted)
           read == ReadAnswer(answer, private)
<1>1. CASE answer.failure # {} \/ ~ FieldsSound(answer) \/ of.code # "OK" \/ ignored # "OK"
  <2> DEFINE code == IF answer.failure # {}
                     THEN IF answer.failure = {"sound"} THEN "TRACKER_FAILURE" ELSE "INVALID_RESPONSE"
                     ELSE IF ~ FieldsSound(answer) THEN "INVALID_RESPONSE"
                     ELSE IF of.code # "OK" THEN of.code ELSE ignored
  <2>1. read = Disbelieved(code)
    <3> HIDE DEF ignored, of
    <3> QED
      BY <1>1 DEF ReadAnswer, ignored, of
  <2>2. code # "OK"
    <3> HIDE DEF ignored, of
    <3> QED
      BY <1>1
  <2> HIDE DEF code
  <2>3. read.code = code /\ read.peers = <<>>
    BY <2>1 DEF Disbelieved, Believed
  <2> QED
    BY <2>2, <2>3 DEF BelievesWithinBounds
<1>2. CASE answer.failure = {} /\ FieldsSound(answer) /\ of.code = "OK" /\ ignored = "OK"
  <2> DEFINE n == CHOOSE m \in answer.interval : TRUE
  <2>1. read = Believed("OK", Interval(n), kept)
    BY <1>2 DEF ReadAnswer
  <2>2. read.code = "OK" /\ read.interval = Interval(n) /\ read.peers = kept
    BY <2>1 DEF Believed
  <2>3. Interval(n) \in MinInterval..MaxInterval
    <3>1. n \in 1..MaxCount
      BY <1>2 DEF FieldsSound
    <3>2. n \in Int
      BY <3>1
    <3> HIDE DEF n
    <3> QED
      BY <3>2 DEF Interval
  <2>4. IsPeerList(list) /\ (answer.peers # {} => list \in answer.peers)
    <3>1. CASE answer.peers = {}
      <4>1. none.form = "compact" /\ none.contacts = <<>> /\ IsList(none.contacts)
            /\ ToSet(none.contacts) = {} /\ list = none
        BY <3>1 DEF IsList, ToSet
      <4> QED
        BY <3>1, <4>1 DEF IsPeerList, AreAddressed, IsAddress
    <3>2. CASE answer.peers # {}
      BY <3>2
    <3> QED
      BY <3>1, <3>2
  <2> DEFINE S == ToSet(of.peers)
  <2>5. /\ of.peers \in Seq(S) /\ Len(of.peers) <= MaxAcceptedPeers
        /\ \A p \in S :
              /\ p.address \in Seq(Nat)
              /\ list.form = "compact" =>
                    \E i \in 1..Len(list.contacts) :
                       p.address = list.contacts[i].address /\ p.port = list.contacts[i].port
              /\ list.form # "compact" =>
                    /\ list.form = "list"
                    /\ \E i \in 1..Len(list.entries) :
                          p.address = list.entries[i].address /\ p.port = list.entries[i].port
    <3> HIDE DEF list
    <3>1. IsPeerList(list) /\ PeersOf(list).code = "OK"
      BY <1>2, <2>4
    <3>2. /\ IsList(of.peers) /\ Len(of.peers) <= MaxAcceptedPeers
          /\ \A p \in S :
                /\ p.address \in Seq(Nat)
                /\ list.form = "compact" =>
                      \E i \in 1..Len(list.contacts) :
                         p.address = list.contacts[i].address /\ p.port = list.contacts[i].port
                /\ list.form # "compact" =>
                      /\ list.form = "list"
                      /\ \E i \in 1..Len(list.entries) :
                            p.address = list.entries[i].address /\ p.port = list.entries[i].port
      BY <3>1, PeersOfAList
    <3> HIDE DEF of
    <3>3. of.peers \in Seq(S)
      BY <3>2 DEF IsList
    <3> QED
      BY <3>2, <3>3
  <2>6. ASSUME NEW p \in S PROVE <<p.address, p.port>> \in Named(answer)
    <3>1. CASE answer.peers = {}
      <4>1. list.form = "compact" /\ list.contacts = <<>>
        BY <3>1
      <4>2. \E i \in 1..Len(list.contacts) : TRUE
        BY <2>5, <4>1
      <4> QED
        BY <4>1, <4>2
    <3>2. CASE answer.peers # {} /\ list.form = "compact"
      <4> HIDE DEF list
      <4>1. list \in answer.peers /\ list.form = "compact"
        BY <2>4, <3>2
      <4>2. <<p.address, p.port>> \in
               {<<list.contacts[i].address, list.contacts[i].port>> : i \in 1..Len(list.contacts)}
        BY <2>5, <3>2
      <4> QED
        BY <4>1, <4>2 DEF Named
    <3>3. CASE answer.peers # {} /\ list.form # "compact"
      <4> HIDE DEF list
      <4>1. list \in answer.peers /\ list.form = "list" /\ list.form # "compact"
        BY <2>4, <2>5, <3>3
      <4>2. <<p.address, p.port>> \in
               {<<list.entries[i].address, list.entries[i].port>> : i \in 1..Len(list.entries)}
        BY <2>5, <3>3
      <4> QED
        BY <4>1, <4>2 DEF Named
    <3> QED
      BY <3>1, <3>2, <3>3
  <2> HIDE DEF S, of
  <2>7. mentions \in Seq(S) /\ Len(mentions) <= Len(of.peers) /\ Apart(mentions)
    BY <2>5, MentionedOnce
  <2> HIDE DEF mentions, wanted
  <2>8. kept \in Seq(S) /\ Len(kept) <= Len(mentions) /\ ToSet(kept) = ToSet(mentions) \cap wanted
    BY <2>7, KeptIsOfTheList
  <2>9. Apart(kept)
    BY <2>7, KeptApart
  <2> HIDE DEF kept
  <2>10. Len(kept) <= MaxAcceptedPeers
    BY <2>5, <2>7, <2>8
  <2>11. ASSUME NEW i \in 1..Len(kept)
         PROVE  /\ <<kept[i].address, kept[i].port>> \in Named(answer)
                /\ SpecialPurpose(kept[i].address) => private /\ PrivateUse(kept[i].address)
                /\ LocalPeerId \notin kept[i].peerId
    <3> DEFINE p == kept[i]
    <3>1. p \in S /\ p \in ToSet(kept)
      BY <2>8 DEF ToSet
    <3>2. PeerAllowed(p, private)
      BY <2>8, <3>1 DEF wanted
    <3> HIDE DEF p
    <3>3. p.address \in Seq(Nat) /\ <<p.address, p.port>> \in Named(answer)
      BY <2>5, <2>6, <3>1
    <3>4. /\ SpecialPurpose(p.address) => private /\ PrivateUse(p.address)
          /\ LocalPeerId \notin p.peerId
      BY <3>2, <3>3, AllowedPeerIsConfined
    <3> QED
      BY <3>3, <3>4 DEF p
  <2>12. \A i, j \in 1..Len(kept) :
            <<kept[i].address, kept[i].port>> = <<kept[j].address, kept[j].port>> => i = j
    BY <2>9 DEF Apart
  <2> HIDE DEF read
  <2> QED
    BY <1>2, <2>2, <2>3, <2>10, <2>11, <2>12 DEF BelievesWithinBounds, read
<1> QED
  <2> HIDE DEF of, ignored
  <2> QED
    BY <1>1, <1>2

\* The places of a list's lines of one kind.
OfKind(lines, kind) == {i \in 1..Len(lines) : lines[i].kind = kind}

\* Of the lines that are kept there are no more of a kind than there were, and as
\* many when all of that kind are kept.
LEMMA KindsKept ==
    ASSUME NEW S, NEW lines \in Seq(S), NEW wanted, NEW kind
    PROVE  LET kept == Kept(lines, wanted)
           IN  /\ Cardinality(OfKind(kept, kind)) <= Cardinality(OfKind(lines, kind))
               /\ (\A i \in OfKind(lines, kind) : lines[i] \in wanted) =>
                     Cardinality(OfKind(kept, kind)) = Cardinality(OfKind(lines, kind))
<1> DEFINE kept == Kept(lines, wanted)
<1>1. kept \in Seq(S) /\ \E e : Picks(e, kept, lines, wanted, Len(lines))
  BY KeptPicks
<1> HIDE DEF kept
<1>2. PICK e : Picks(e, kept, lines, wanted, Len(lines))
  BY <1>1
<1>3. /\ e \in [1..Len(kept) -> 1..Len(lines)]
      /\ \A i \in 1..Len(kept) : kept[i] = lines[e[i]]
      /\ \A i, j \in 1..Len(kept) : i < j => e[i] < e[j]
      /\ \A k \in 1..Len(lines) : lines[k] \in wanted => \E i \in 1..Len(kept) : e[i] = k
      /\ Len(kept) \in Nat /\ Len(lines) \in Nat
  BY <1>1, <1>2 DEF Picks
<1> DEFINE A == OfKind(kept, kind)
           B == OfKind(lines, kind)
           g == [i \in A |-> e[i]]
<1>4. IsFiniteSet(B) /\ IsFiniteSet(A)
  <2>1. IsFiniteSet(1..Len(lines)) /\ IsFiniteSet(1..Len(kept))
    BY <1>3, FS_Interval
  <2>2. A \in SUBSET (1..Len(kept)) /\ B \in SUBSET (1..Len(lines))
    BY DEF OfKind
  <2> HIDE DEF A, B
  <2> QED
    BY <2>1, <2>2, FS_Subset
<1>5. \A i \in A : i \in 1..Len(kept) /\ e[i] \in B
  BY <1>3 DEF OfKind
<1>6. \A i, j \in A : e[i] = e[j] => i = j
  <2> SUFFICES ASSUME NEW i \in A, NEW j \in A, e[i] = e[j] PROVE i = j
    OBVIOUS
  <2>1. i \in 1..Len(kept) /\ j \in 1..Len(kept) /\ e[i] \in 1..Len(lines)
    BY <1>3, <1>5
  <2>2. e[i] \in Nat /\ ~ (e[i] < e[j]) /\ ~ (e[j] < e[i])
    BY <1>3, <2>1
  <2> QED
    BY <1>3, <2>1, <2>2
<1> HIDE DEF A, B
<1>7. g \in Injection(A, B)
  <2>1. g \in [A -> B] /\ \A i, j \in A : g[i] = g[j] => i = j
    BY <1>5, <1>6
  <2> HIDE DEF g
  <2> QED
    BY <2>1 DEF Injection, IsInjective
<1>8. Cardinality(A) <= Cardinality(B) /\ (g \in Surjection(A, B) => Cardinality(A) = Cardinality(B))
  <2> HIDE DEF g
  <2> QED
    BY <1>4, <1>7, FS_Injection
<1>9. ASSUME \A i \in B : lines[i] \in wanted PROVE g \in Surjection(A, B)
  <2>1. ASSUME NEW k \in B PROVE \E i \in A : g[i] = k
    <3>1. k \in 1..Len(lines) /\ lines[k].kind = kind
      BY DEF B, OfKind
    <3>2. PICK i \in 1..Len(kept) : e[i] = k
      BY <1>3, <1>9, <3>1
    <3>3. i \in A
      BY <1>3, <3>1, <3>2 DEF A, OfKind
    <3> QED
      BY <3>2, <3>3
  <2> QED
    BY <1>7, <2>1 DEF Surjection, Injection
<1> QED
  BY <1>8, <1>9 DEF A, B, kept

\* Lines that may reach the peer connection.
Confined(lines, private) ==
    LET kinds == {lines[i].kind : i \in 1..Len(lines)}
    IN  /\ SdpSound(lines)
        /\ FilterIce(lines, private) = lines
        /\ {"application", "candidate"} \subseteq kinds
        /\ {"media", "remote-candidates"} \cap kinds = {}
        /\ \A i \in 1..Len(lines) :
              /\ lines[i].kind = "candidate"
              /\ SpecialPurpose(lines[i].address)
              => private /\ PrivateUse(lines[i].address)

\* What the filter leaves of a description that passed the checks.
LEMMA FilteredIsConfined ==
    ASSUME NEW envelope, NEW private, IsDescription(envelope), SdpSound(envelope.lines),
           MaxSdpLines \in Nat, MaxCandidates \in Nat,
           NEW lines, lines = FilterIce(envelope.lines, private), lines # <<>>
    PROVE  Confined(lines, private)
<1> DEFINE all == envelope.lines
           S == ToSet(all)
           wanted == {line \in S : KeepsLine(line, private)}
           kept == Kept(all, wanted)
           kinds == {lines[i].kind : i \in 1..Len(lines)}
<1>1. /\ all \in Seq(S)
      /\ \A line \in S : line.kind = "candidate" => line.address \in Seq(Nat)
  BY DEF IsDescription, IsAddress, IsList
<1>2. /\ lines = kept
      /\ \E i \in 1..Len(kept) : kept[i].kind = "candidate"
  BY DEF FilterIce
<1>3. /\ Len(all) <= MaxSdpLines
      /\ \A i \in 1..Len(all) : all[i].short /\ all[i].kind # "media"
      /\ Cardinality(OfKind(all, "application")) = 1
      /\ Cardinality(OfKind(all, "candidate")) <= MaxCandidates
  BY DEF SdpSound, OfKind
<1> HIDE DEF all, S
<1>4. \A i \in OfKind(all, "application") : all[i] \in wanted
  <2> SUFFICES ASSUME NEW i \in OfKind(all, "application") PROVE all[i] \in wanted
    OBVIOUS
  <2>1. i \in 1..Len(all) /\ all[i].kind = "application" /\ all[i] \in S
    BY <1>1 DEF OfKind
  <2> QED
    BY <2>1 DEF KeepsLine
<1> HIDE DEF wanted
<1>5. /\ kept \in Seq(S) /\ Len(kept) <= Len(all) /\ ToSet(kept) = ToSet(all) \cap wanted
  BY <1>1, KeptIsOfTheList
<1>6. /\ Cardinality(OfKind(kept, "candidate")) <= Cardinality(OfKind(all, "candidate"))
      /\ Cardinality(OfKind(kept, "application")) = Cardinality(OfKind(all, "application"))
  BY <1>1, <1>4, KindsKept
<1> HIDE DEF kept
<1>7. /\ lines \in Seq(S) /\ Len(lines) \in Nat /\ Len(all) \in Nat
      /\ DOMAIN lines = 1..Len(lines) /\ DOMAIN all = 1..Len(all)
      /\ Len(lines) <= Len(all)
  BY <1>1, <1>2, <1>5
<1>8. ASSUME NEW i \in 1..Len(lines)
      PROVE  /\ lines[i] \in S /\ KeepsLine(lines[i], private)
             /\ lines[i].short /\ lines[i].kind # "media"
  <2>1. lines[i] \in ToSet(kept)
    BY <1>2, <1>7 DEF ToSet
  <2>2. lines[i] \in ToSet(all) /\ lines[i] \in wanted
    BY <1>5, <2>1
  <2>3. PICK k \in 1..Len(all) : lines[i] = all[k]
    BY <1>7, <2>2 DEF ToSet
  <2> QED
    BY <1>3, <2>2, <2>3 DEF wanted
<1>9. /\ IsFiniteSet(OfKind(lines, "candidate")) /\ IsFiniteSet(OfKind(all, "candidate"))
      /\ Cardinality(OfKind(lines, "candidate")) \in Nat /\ Cardinality(OfKind(all, "candidate")) \in Nat
  <2>1. IsFiniteSet(1..Len(all)) /\ IsFiniteSet(1..Len(lines))
    BY <1>7, FS_Interval
  <2>2. /\ OfKind(all, "candidate") \in SUBSET (1..Len(all))
        /\ OfKind(lines, "candidate") \in SUBSET (1..Len(lines))
    BY DEF OfKind
  <2> QED
    BY <2>1, <2>2, FS_Subset, FS_CardinalityType
<1>10. SdpSound(lines)
  <2>1. Len(lines) <= MaxSdpLines
    BY <1>3, <1>7
  <2>2. Cardinality(OfKind(lines, "application")) = 1
    BY <1>2, <1>3, <1>6
  <2>3. Cardinality(OfKind(lines, "candidate")) <= MaxCandidates
    BY <1>2, <1>3, <1>6, <1>9
  <2> QED
    BY <1>8, <2>1, <2>2, <2>3 DEF SdpSound, OfKind
<1>11. FilterIce(lines, private) = lines
  <2> DEFINE again == {line \in ToSet(lines) : KeepsLine(line, private)}
  <2>1. \A i \in 1..Len(lines) : lines[i] \in again
    BY <1>7, <1>8 DEF ToSet
  <2> HIDE DEF again
  <2>2. Kept(lines, again) = lines
    BY <1>7, <2>1, KeptWhole
  <2> QED
    BY <1>2, <2>2 DEF FilterIce, again
<1>12. {"application", "candidate"} \subseteq kinds
  <2>1. OfKind(lines, "application") # {}
    <3>1. Cardinality({}) = 0
      BY FS_EmptySet
    <3>2. Cardinality(OfKind(lines, "application")) = 1
      BY <1>2, <1>3, <1>6
    <3> QED
      BY <3>1, <3>2
  <2> QED
    BY <1>2, <2>1 DEF OfKind
<1>13. {"media", "remote-candidates"} \cap kinds = {}
  BY <1>8 DEF KeepsLine
<1>14. ASSUME NEW i \in 1..Len(lines), lines[i].kind = "candidate", SpecialPurpose(lines[i].address)
       PROVE  private /\ PrivateUse(lines[i].address)
  <2> DEFINE a == lines[i].address
  <2>1. a \in Seq(Nat) /\ (IsPublicIpv4(a) \/ (private /\ IsPrivateNetworkIpv4(a)))
    BY <1>1, <1>8, <1>14 DEF KeepsLine, CandidateAllowed
  <2>2. SpecialPurpose(a)
    BY <1>14
  <2> HIDE DEF a
  <2>3. IsIpv4(a)
    BY <2>1 DEF IsPublicIpv4, IsPrivateNetworkIpv4
  <2>4. (IsPrivateNetworkIpv4(a) <=> PrivateUse(a)) /\ (IsPublicIpv4(a) <=> ~ SpecialPurpose(a))
    BY <2>1, <2>3, RangesAreTheBlocks
  <2> QED
    BY <2>1, <2>2, <2>4 DEF a
<1> QED
  BY <1>10, <1>11, <1>12, <1>13, <1>14 DEF Confined

\* A description a tracker relays reaches the peer connection confined to the data
\* channel and to candidates that may be reached (parseWssMessage,
\* filterIceCandidates).
LEMMA DescriptionsAreConfined ==
    ASSUME NEW frame, NEW private,
           \A e \in frame.offer \cup frame.answer : IsDescription(e),
           MaxSdpLines \in Nat, MaxCandidates \in Nat
    PROVE  DescriptionIsConfined(frame, private)
<1> DEFINE read == ReadFrame(frame, private)
           kind == IF frame.offer # {} THEN "offer" ELSE "answer"
           envelope == CHOOSE e \in frame.offer \cup frame.answer :
                           frame.offer # {} => e \in frame.offer
           bad == \/ ~frame.object
                  \/ Cardinality(frame.keys) > MaxKeys
                  \/ ~(frame.keys \subseteq Recognized)
                  \/ ~(frame.action \subseteq {"announce"})
                  \/ ~BinaryIdentity(frame.hash)
           sound == /\ BinaryIdentity(frame.offerId) /\ BinaryIdentity(frame.peerId)
                    /\ EnvelopeSound(envelope, kind)
<1> SUFFICES ASSUME read.lines # <<>> PROVE DescriptionIsConfined(frame, private)
  BY DEF DescriptionIsConfined
<1>1. read = IF bad THEN Refuses
             ELSE IF frame.offer \cup frame.answer # {}
             THEN IF sound THEN [kind |-> kind, lines |-> FilterIce(envelope.lines, private)]
                  ELSE Refuses
             ELSE IF frame.counts /\ frame.texts THEN [kind |-> "announce", lines |-> <<>>]
             ELSE Refuses
  BY DEF ReadFrame
<1> HIDE DEF bad, sound, envelope, kind
<1>2. /\ frame.offer \cup frame.answer # {} /\ sound
      /\ read.kind = kind /\ read.lines = FilterIce(envelope.lines, private)
  BY <1>1 DEF Refuses
<1>3. envelope \in frame.offer \cup frame.answer
  BY <1>2 DEF envelope
<1>4. IsDescription(envelope) /\ SdpSound(envelope.lines)
  BY <1>2, <1>3 DEF sound, EnvelopeSound
<1> DEFINE lines == read.lines
<1>5. lines = FilterIce(envelope.lines, private) /\ lines # <<>>
  BY <1>2
<1> HIDE DEF lines
<1>6. Confined(lines, private)
  BY <1>4, <1>5, FilteredIsConfined
<1>7. read.kind \in {"offer", "answer"}
  BY <1>2 DEF kind
<1> QED
  BY <1>6, <1>7 DEF DescriptionIsConfined, Confined, lines

\* The smaller and the larger of two.
LEMMA OfTwo ==
    ASSUME NEW a \in Int, NEW b \in Int
    PROVE  /\ Min({a, b}) = IF a <= b THEN a ELSE b
           /\ Max({a, b}) = IF a <= b THEN b ELSE a
<1>1. \A x \in {a, b} : (\A y \in {a, b} : x =< y) <=> x = (IF a <= b THEN a ELSE b)
  OBVIOUS
<1>2. \A x \in {a, b} : (\A y \in {a, b} : x >= y) <=> x = (IF a <= b THEN b ELSE a)
  OBVIOUS
<1>3. (IF a <= b THEN a ELSE b) \in {a, b} /\ (IF a <= b THEN b ELSE a) \in {a, b}
  OBVIOUS
<1>4. Min({a, b}) = IF a <= b THEN a ELSE b
  BY <1>1, <1>3 DEF Min
<1>5. Max({a, b}) = IF a <= b THEN b ELSE a
  BY <1>2, <1>3 DEF Max
<1> QED
  BY <1>4, <1>5

\* A clamped counter is a finite number within its bounds, whatever the client
\* counts.
LEMMA ClampedCounters ==
    ASSUME NEW c, IsCounter(c)
    PROVE  /\ Finite(c) <=> c \in Int
           /\ \A high \in 0..LargestInteger :
                 Clamp(c, 0, high) \in 0..high /\ Counted(Clamp(c, 0, high))
           /\ ClampRate(c) \in Nat /\ Finite(ClampRate(c))
           /\ c # NaN => /\ Counted(NoMoreThan(AtLeastZero(c), MaxPeerCount))
                         /\ NoMoreThan(AtLeastZero(c), MaxPeerCount) <= MaxPeerCount
           /\ Finite(c) /\ c >= 0 => Counted(Min({c, LargestInteger}))
<1>0. /\ LargestInteger \in Int /\ MaxPeerCount <= LargestInteger
      /\ NaN \notin Int /\ Infinite \notin Int /\ NaN # Infinite
      /\ MaxPeerCount = 10000
  BY NumbersAssumption DEF MaxPeerCount
<1>1. \A n \in Int : Finite(n)
  BY <1>0 DEF Finite
<1>2. Finite(c) <=> c \in Int
  BY <1>0 DEF Finite, IsCounter
<1>3. \A n \in 0..LargestInteger : Counted(n)
  BY <1>1 DEF Counted
<1>4. ASSUME NEW high \in 0..LargestInteger
      PROVE  Clamp(c, 0, high) \in 0..high /\ Counted(Clamp(c, 0, high))
  <2>0. high \in Int /\ 0 <= high /\ high <= LargestInteger
    BY <1>0
  <2>1. CASE ~ Finite(c)
    <3>1. Clamp(c, 0, high) = 0
      BY <2>1 DEF Clamp
    <3> QED
      BY <1>0, <1>3, <2>0, <3>1
  <2>2. CASE Finite(c)
    <3> DEFINE m == Max({c, 0})
    <3>1. Clamp(c, 0, high) = Min({m, high})
      BY <2>2 DEF Clamp
    <3>2. c \in Int
      BY <1>2, <2>2
    <3>3. m = IF c <= 0 THEN 0 ELSE c
      BY <3>2, OfTwo
    <3> HIDE DEF m
    <3>4. m \in Int /\ 0 <= m
      BY <3>2, <3>3
    <3>5. Min({m, high}) = IF m <= high THEN m ELSE high
      BY <2>0, <3>4, OfTwo
    <3>6. Min({m, high}) \in 0..high /\ Min({m, high}) \in 0..LargestInteger
      BY <1>0, <2>0, <3>4, <3>5
    <3> QED
      BY <1>3, <3>1, <3>6
  <2> QED
    BY <2>1, <2>2
<1>5. ClampRate(c) \in Nat /\ Finite(ClampRate(c))
  BY <1>1, <1>2 DEF ClampRate
<1>6. ASSUME c # NaN
      PROVE  /\ Counted(NoMoreThan(AtLeastZero(c), MaxPeerCount))
             /\ NoMoreThan(AtLeastZero(c), MaxPeerCount) <= MaxPeerCount
  <2>1. CASE c = Infinite
    <3>1. AtLeastZero(c) = Infinite
      BY <2>1 DEF AtLeastZero, Finite
    <3>2. NoMoreThan(AtLeastZero(c), MaxPeerCount) = MaxPeerCount
      BY <1>0, <3>1 DEF NoMoreThan
    <3> QED
      BY <1>0, <1>3, <3>2
  <2>2. CASE c \in Int
    <3> DEFINE m == Max({c, 0})
    <3>1. AtLeastZero(c) = m
      BY <1>2, <2>2 DEF AtLeastZero
    <3>2. m = IF c <= 0 THEN 0 ELSE c
      BY <2>2, OfTwo
    <3> HIDE DEF m
    <3>3. m \in Int /\ 0 <= m /\ m # NaN /\ m # Infinite
      BY <1>0, <2>2, <3>2
    <3>4. NoMoreThan(m, MaxPeerCount) = Min({m, MaxPeerCount})
      BY <3>3 DEF NoMoreThan
    <3>5. Min({m, MaxPeerCount}) = IF m <= MaxPeerCount THEN m ELSE MaxPeerCount
      BY <1>0, <3>3, OfTwo
    <3>6. Min({m, MaxPeerCount}) \in 0..LargestInteger /\ Min({m, MaxPeerCount}) <= MaxPeerCount
      BY <1>0, <3>3, <3>5
    <3> QED
      BY <1>3, <3>1, <3>4, <3>6
  <2> QED
    BY <1>6, <2>1, <2>2 DEF IsCounter
<1>7. ASSUME Finite(c), c >= 0 PROVE Counted(Min({c, LargestInteger}))
  <2>1. c \in Int
    BY <1>2, <1>7
  <2>2. Min({c, LargestInteger}) = IF c <= LargestInteger THEN c ELSE LargestInteger
    BY <1>0, <2>1, OfTwo
  <2> QED
    BY <1>0, <1>3, <1>7, <2>1, <2>2
<1> QED
  BY <1>2, <1>4, <1>5, <1>6, <1>7

\* What is said of a torrent is accepted, whatever the client counts, but for its
\* uploads and its peers (DiskTorrentSession.stats, TorrentManager.#summary).
LEMMA SummariesAreAccepted ==
    ASSUME NEW session, NEW counters,
           IsSession(session), IsCounters(counters)
    PROVE  SummaryIsAccepted(session, counters)
<1> DEFINE said == Summary(session, counters)
           down == Clamp(counters.downloaded, 0, session.length)
           left == counters.timeRemaining
           sound == Counted(AtLeastZero(counters.uploaded)) /\ counters.peers # NaN
<1>1. /\ session.fileCount \in 1..MaxFileCount
      /\ IsFiniteSet(session.selected) /\ Cardinality(session.selected) <= session.fileCount
      /\ session.length \in 0..LargestInteger
      /\ session.state \in {"adding", "running", "paused", "removing", "removed"}
      /\ LargestInteger \in Int /\ NaN \notin Int /\ Infinite \notin Int
  BY NumbersAssumption DEF IsSession
<1>2. /\ said.fileCount = session.fileCount
      /\ said.selectedFileCount = Cardinality(session.selected)
      /\ said.length = session.length /\ said.downloaded = down
      /\ said.progress = IF session.length = 0 THEN <<1, 1>> ELSE <<down, session.length>>
      /\ said.downloadSpeed = ClampRate(counters.rate)
      /\ said.uploadSpeed = ClampRate(counters.rate)
      /\ said.uploaded = AtLeastZero(counters.uploaded)
      /\ said.peerCount = NoMoreThan(AtLeastZero(counters.peers), MaxPeerCount)
      /\ said.timeRemainingMs = IF Finite(left) /\ left >= 0
                                THEN {Min({left, LargestInteger})} ELSE {}
      /\ said.state = SummaryState(session.state, counters.done)
  BY DEF Summary
<1>3. down \in 0..session.length /\ Counted(down)
  BY <1>1, ClampedCounters DEF IsCounters
<1>4. Finite(ClampRate(counters.rate))
  BY ClampedCounters DEF IsCounters
<1>5. counters.peers # NaN =>
         /\ Counted(NoMoreThan(AtLeastZero(counters.peers), MaxPeerCount))
         /\ NoMoreThan(AtLeastZero(counters.peers), MaxPeerCount) <= MaxPeerCount
  BY ClampedCounters DEF IsCounters
<1>6. Finite(left) /\ left >= 0 => Counted(Min({left, LargestInteger}))
  BY ClampedCounters DEF IsCounters
<1>7. Counted(session.length)
  BY <1>1 DEF Counted, Finite
<1>8. said.state \in {"checking", "downloading", "error", "paused", "seeding", "stopped"}
  BY <1>1, <1>2 DEF SummaryState
<1>9. said.selectedFileCount \in 0..said.fileCount
  <2>1. Cardinality(session.selected) \in Nat
    BY <1>1, FS_CardinalityType
  <2>2. MaxFileCount \in Int
    BY DEF MaxFileCount
  <2> QED
    BY <1>1, <1>2, <2>1, <2>2
<1> HIDE DEF down, left, said
<1>10. said.downloaded <= said.length /\ said.progress[1] <= said.progress[2]
  <2>1. session.length \in Int /\ down \in Int /\ down <= session.length
    BY <1>1, <1>3
  <2>2. CASE session.length = 0
    BY <1>2, <2>1, <2>2
  <2>3. CASE session.length # 0
    BY <1>2, <2>1, <2>3
  <2> QED
    BY <2>2, <2>3
<1>11. \A l \in said.timeRemainingMs : Counted(l)
  BY <1>2, <1>6
<1>12. sound => SummaryAccepted(said)
  BY <1>1, <1>2, <1>3, <1>4, <1>5, <1>7, <1>8, <1>9, <1>10, <1>11 DEF SummaryAccepted
<1>13. SummaryAccepted(said) => sound
  <2>1. counters.peers = NaN => NoMoreThan(AtLeastZero(counters.peers), MaxPeerCount) = NaN
    <3>1. AtLeastZero(NaN) = NaN
      BY DEF AtLeastZero, Finite
    <3>2. NoMoreThan(NaN, MaxPeerCount) = NaN
      BY NumbersAssumption DEF NoMoreThan
    <3> QED
      BY <3>1, <3>2, Zenon
  <2>2. ~ Counted(NaN)
    BY DEF Counted, Finite
  <2> QED
    BY <1>2, <2>1, <2>2 DEF SummaryAccepted
<1> QED
  BY <1>12, <1>13 DEF SummaryIsAccepted, said

\* Every error becomes one main knows, and the one that makes main forget a torrent
\* answers a restore whose bytes could not be had, and no other (#mapFailure).
LEMMA FailuresAreTold ==
    ASSUME NEW error, NEW aborted,
           error.from = "preparation" => error.code \in PreparationErrorCodes
    PROVE  FailureIsTold(error, aborted)
<1> DEFINE told == Failure(error, aborted)
           from == error.from
           code == error.code
           legacy == IF code = "ROOT_NOT_AUTHORIZED" THEN "PATH_NOT_AUTHORIZED" ELSE "INPUT_INVALID"
<1>1. told.code \in ErrorCodes
  <2>1. CASE aborted \/ code = "ABORTED"
    BY <2>1 DEF Failure, PublicError, ErrorCodes
  <2> DEFINE goes == ~ aborted /\ code # "ABORTED"
  <2>2. CASE goes /\ from = "preparation"
    BY <2>2 DEF Failure, PublicError, ErrorCodes, PreparationErrorCodes
  <2>3. CASE goes /\ from \in {"unavailable", "archive", "legacy", "media", "subtitle", "creation"}
    BY <2>3 DEF Failure, PublicError, ErrorCodes
  <2>4. CASE goes /\ from \in {"disk", "manager", "registry", "store"}
    BY <2>4 DEF Failure, PublicError, ErrorCodes
  <2>5. CASE goes /\ from \notin {"unavailable", "archive", "preparation", "legacy", "media",
                                  "subtitle", "creation", "disk", "manager", "registry", "store"}
    BY <2>5 DEF Failure, PublicError, ErrorCodes
  <2> QED
    BY <2>1, <2>2, <2>3, <2>4, <2>5
<1>2. ASSUME error \in RaisedByAdd PROVE told.code # "NOT_FOUND"
  <2>0. CASE from = "unavailable"
    BY <2>0 DEF Failure, PublicError
  <2>1. CASE from = "disk"
    BY <2>1 DEF Failure, PublicError
  <2>2. CASE from \in {"manager", "registry"} /\ code \notin {"NOT_FOUND", "EXPIRED"}
    BY <2>2 DEF Failure, PublicError
  <2>3. CASE from = "metadata"
    BY <2>3 DEF Failure, PublicError
  <2> QED
    BY <1>2, <2>0, <2>1, <2>2, <2>3 DEF RaisedByAdd
<1>3. ASSUME error \in RaisedByAdd, NEW bytes \in {"unread", "another's", "sound"}
      PROVE  RestoreRefusal(bytes, error, aborted).code = "NOT_FOUND" <=> bytes # "sound"
  <2>1. CASE bytes = "sound"
    BY <1>2, <1>3, <2>1 DEF RestoreRefusal
  <2>2. CASE bytes # "sound"
    BY <1>3, <2>2 DEF RestoreRefusal, PublicError
  <2> QED
    BY <2>1, <2>2
<1> QED
  BY <1>1, <1>3 DEF FailureIsTold

\* The ids a command may be about.
IdFields == {"preparationId", "operationId", "leaseId", "infoHash", "fileIndex", "mediaFileIndex"}

\* An answer repeats the ids of its command, every one it carries.
LEMMA IdsAreEchoed ==
    ASSUME NEW command \in Commands
    PROVE  /\ RequiredFields(command) \cap IdFields = Echoed(command)
           /\ OptionalFields(command) \cap IdFields = {}
<1>1. CASE command \in {"open-preparation", "start-acquisition", "get-acquisition",
                        "get-preparation-files", "update-preparation-selection",
                        "commit-preparation"}
  BY <1>1 DEF RequiredFields, OptionalFields, Echoed, IdFields
<1>2. CASE command \in {"discard-preparation", "restore-torrent", "list-torrents",
                        "list-legacy-imports", "import-legacy-torrent", "get-torrent-files"}
  BY <1>2 DEF RequiredFields, OptionalFields, Echoed, IdFields
<1>3. CASE command \in {"set-torrent-selection", "pause-torrent", "resume-torrent",
                        "remove-torrent", "create-torrent", "export-torrent"}
  BY <1>3 DEF RequiredFields, OptionalFields, Echoed, IdFields
<1>4. CASE command \in {"open-media", "heartbeat-media", "close-media", "open-audio-metadata",
                        "open-subtitles", "open-external-subtitle"}
  BY <1>4 DEF RequiredFields, OptionalFields, Echoed, IdFields
<1> QED
  BY <1>1, <1>2, <1>3, <1>4 DEF Commands

\* An answer is taken for another command's only if both are about the same thing
\* (engineResultMatchesOperation).
LEMMA AnswersNameTheirSubjects ==
    ASSUME NEW a, NEW b, a.command \in Commands
    PROVE  AnswerNamesItsSubject(a, b)
<1> DEFINE c == a.command
           answer == [ok |-> TRUE, command |-> c,
                      value |-> [field \in Echoed(c) |-> a.payload[field]]]
<1> SUFFICES ASSUME CommandAccepted(a), CommandAccepted(b), Matches(answer, b)
             PROVE  IdsOf(a) = IdsOf(b)
  BY DEF AnswerNamesItsSubject
<1>1. /\ b.command = c
      /\ \A field \in Echoed(c) : a.payload[field] = b.payload[field]
  BY DEF Matches
<1>2. /\ RequiredFields(c) \cap IdFields = Echoed(c)
      /\ OptionalFields(c) \cap IdFields = {}
  BY IdsAreEchoed
<1>3. /\ RequiredFields(c) \subseteq DOMAIN a.payload
      /\ DOMAIN a.payload \subseteq RequiredFields(c) \cup OptionalFields(c)
      /\ RequiredFields(c) \subseteq DOMAIN b.payload
      /\ DOMAIN b.payload \subseteq RequiredFields(c) \cup OptionalFields(c)
  BY <1>1 DEF CommandAccepted
<1>4. DOMAIN a.payload \cap IdFields = Echoed(c) /\ DOMAIN b.payload \cap IdFields = Echoed(c)
  BY <1>2, <1>3
<1>5. IdsOf(a) = {<<field, a.payload[field]>> : field \in Echoed(c)}
      /\ IdsOf(b) = {<<field, b.payload[field]>> : field \in Echoed(c)}
  BY <1>4 DEF IdsOf, IdFields
<1> QED
  BY <1>1, <1>5

(* ----------------------------------- scans ---------------------------------- *)

\* The hashes of a list, and the entries and states of its scans.
HashesOf(s) == {s[i].hash : i \in 1..Len(s)}

EntriesOf(s) == UNION {{LegacyEntry(s[i], seen) : seen \in SUBSET HashesOf(s)} : i \in 1..Len(s)}

ScansOf(s) == [entries : Seq(EntriesOf(s)), seen : SUBSET HashesOf(s)]

\* What an entry is: of a hash that was not seen it offers some of the files.
LEMMA EntryIsOffered ==
    ASSUME NEW raw, IsRaw(raw), NEW seen
    PROVE  LET e == LegacyEntry(raw, seen)
           IN  /\ e.kind \in {"importable", "skipped"}
               /\ e.kind = "importable" <=> raw.outcome = "valid" /\ raw.hash \notin seen
               /\ e.kind = "importable" =>
                     /\ e.hash = raw.hash
                     /\ e.selected # {} /\ e.selected \subseteq 1..e.fileCount
<1> DEFINE e == LegacyEntry(raw, seen)
<1>1. CASE raw.outcome = "valid" /\ raw.hash \notin seen
  <2> DEFINE wellFormed == raw.selections # {} /\
                 \A s \in raw.selections : Len(s) = raw.fileCount /\ \E i \in 1..Len(s) : s[i]
             chosen == IF wellFormed
                       THEN LET s == CHOOSE s \in raw.selections : TRUE
                            IN  {i \in 1..Len(s) : s[i]}
                       ELSE 1..raw.fileCount
  <2>1. e = [kind |-> "importable", hash |-> raw.hash, fileCount |-> raw.fileCount,
             selected |-> chosen]
    BY <1>1 DEF LegacyEntry
  <2>2. chosen # {} /\ chosen \subseteq 1..raw.fileCount
    <3>1. CASE wellFormed
      <4> DEFINE s == CHOOSE s \in raw.selections : TRUE
      <4>1. s \in raw.selections
        BY <3>1
      <4> HIDE DEF s
      <4>2. Len(s) = raw.fileCount /\ \E i \in 1..Len(s) : s[i]
        BY <3>1, <4>1
      <4>3. {i \in 1..Len(s) : s[i]} # {} /\ {i \in 1..Len(s) : s[i]} \subseteq 1..raw.fileCount
        BY <4>2
      <4> QED
        BY <3>1, <4>3 DEF s
    <3>2. CASE ~ wellFormed
      <4>1. raw.fileCount \in Nat \ {0}
        BY <1>1 DEF IsRaw
      <4>2. 1 \in 1..raw.fileCount
        BY <4>1
      <4> HIDE DEF wellFormed
      <4>3. chosen = 1..raw.fileCount
        BY <3>2
      <4> QED
        BY <4>2, <4>3
    <3> QED
      BY <3>1, <3>2
  <2> HIDE DEF chosen, e
  <2>3. e.kind = "importable" /\ e.hash = raw.hash /\ e.selected = chosen /\ e.fileCount = raw.fileCount
    BY <2>1
  <2> QED
    BY <1>1, <2>2, <2>3 DEF e
<1>2. CASE ~ (raw.outcome = "valid" /\ raw.hash \notin seen)
  <2>1. e.kind = "skipped"
    BY <1>2 DEF LegacyEntry, IsRaw, Outcomes
  <2> QED
    BY <1>2, <2>1
<1> QED
  BY <1>1, <1>2

\* A scan goes on as one, torrent by torrent.
LEMMA ScansGoOn ==
    ASSUME NEW s, IsRaws(s), NEW scan \in ScansOf(s), NEW i \in 1..Len(s)
    PROVE  Scanned(scan, s[i]) \in ScansOf(s)
<1> DEFINE e == LegacyEntry(s[i], scan.seen)
<1>1. scan.entries \in Seq(EntriesOf(s)) /\ scan.seen \in SUBSET HashesOf(s)
  BY DEF ScansOf
<1>2. e \in EntriesOf(s) /\ s[i].hash \in HashesOf(s)
  <2>1. e \in EntriesOf(s)
    <3> DEFINE q == scan.seen
               here == {LegacyEntry(s[i], seen) : seen \in SUBSET HashesOf(s)}
    <3>1. q \in SUBSET HashesOf(s)
      BY <1>1
    <3> HIDE DEF q
    <3>2. LegacyEntry(s[i], q) \in here
      BY <3>1, Zenon
    <3>3. e = LegacyEntry(s[i], q)
      BY DEF q
    <3>4. here \in {{LegacyEntry(s[j], seen) : seen \in SUBSET HashesOf(s)} : j \in 1..Len(s)}
      BY Zenon
    <3> HIDE DEF here, e
    <3> QED
      BY <3>2, <3>3, <3>4 DEF EntriesOf
  <2>2. s[i].hash \in HashesOf(s)
    BY DEF HashesOf
  <2> QED
    BY <2>1, <2>2
<1>3. IsRaw(s[i])
  BY DEF IsRaws, IsList, ToSet
<1>4. e.kind = "importable" => e.hash = s[i].hash
  BY <1>3, EntryIsOffered
<1> HIDE DEF e
<1>5. Scanned(scan, s[i]) =
        [entries |-> Append(scan.entries, e),
         seen |-> scan.seen \cup (IF e.kind = "importable" THEN {e.hash} ELSE {})]
  BY DEF Scanned, e
<1>6. /\ Append(scan.entries, e) \in Seq(EntriesOf(s))
      /\ scan.seen \cup (IF e.kind = "importable" THEN {e.hash} ELSE {}) \in SUBSET HashesOf(s)
  BY <1>1, <1>2, <1>4
<1> QED
  BY <1>5, <1>6 DEF ScansOf

\* A scan goes on torrent by torrent.
ScanRun(st, s) ==
    /\ st[0] = [entries |-> <<>>, seen |-> {}]
    /\ \A k \in 1..Len(s) :
          st[k] = Scanned(st[k - 1], s[k])
    /\ LegacyScan(s) = st[Len(s)].entries

\* Scanning goes through such states.
LEMMA ScanSteps ==
    ASSUME NEW s, IsRaws(s)
    PROVE  \E st \in [0..Len(s) -> ScansOf(s)] : ScanRun(st, s)
<1> DEFINE n == Len(s)
           T == ScansOf(s)
           base == [entries |-> <<>>, seen |-> {}]
           step == [p \in T \X (1..n) |-> Scanned(p[1], s[p[2]])]
           IsFold(f) == f = [t \in SUBSET DOMAIN s |->
                           IF t = {} THEN base ELSE Scanned(f[t \ {Max(t)}], s[Max(t)])]
           iter == CHOOSE f : IsFold(f)
<1>1. n \in Nat /\ base \in T /\ DOMAIN s = 1..n
  BY DEF IsRaws, IsList, ScansOf
<1>2. step \in [T \X (1..n) -> T]
  <2>1. \A p \in T \X (1..n) : Scanned(p[1], s[p[2]]) \in T
    BY ScansGoOn
  <2> QED
    BY <2>1
<1>3. \A a \in T, k \in 1..n : step[<<a, k>>] = Scanned(a, s[k])
  OBVIOUS
<1>4. LegacyScan(s) = iter[1..n].entries
  BY <1>1 DEF LegacyScan, FoldLeft, MapThenFoldSet
<1> HIDE DEF T, n, step, base
<1>5. PICK f \in [SUBSET (1..n) -> T] :
         /\ GoesOn(f, base, T, step, n)
         /\ \A t \in SUBSET (1..n) : t # {} => Max(t) \in 1..n /\ f[t \ {Max(t)}] \in T
  BY <1>1, <1>2, FoldGoesOn
<1>6. IsFold(f)
  BY <1>1, <1>3, <1>5 DEF GoesOn
<1>7. IsFold(iter)
  <2> HIDE DEF IsFold
  <2> QED
    BY <1>6
<1> HIDE DEF iter
<1>8. GoesOn(iter, base, T, step, n)
  BY <1>1, <1>3, <1>5, <1>7, ZenonT(30) DEF GoesOn
<1>9. PICK st \in [0..n -> T] : Runs(st, base, T, step, n) /\ EndsWith(iter, st, n)
  <2> HIDE DEF IsFold
  <2>1. base \in T /\ n \in Nat
    BY <1>1
  <2> QED
    BY <1>2, <1>8, <2>1, StatesOfFold
<1> QED
  BY <1>3, <1>4, <1>9, ZenonT(30) DEF Runs, EndsWith, ScanRun, n, T, base

\* The places of what a scan offers.
OfferedIn(list) == {i \in 1..Len(list) : list[i].kind = "importable"}

ValidAmong(s, k) == {i \in 1..k : s[i].outcome = "valid"}

\* What a scan of the first k torrents found.
ScannedSo(scan, s, k) ==
    /\ Len(scan.entries) = k
    /\ \A i \in 1..k : scan.entries[i].kind \in {"importable", "skipped"}
    /\ scan.seen = {s[i].hash : i \in ValidAmong(s, k)}
    /\ \A i \in OfferedIn(scan.entries) :
          /\ i \in ValidAmong(s, k) /\ scan.entries[i].hash = s[i].hash
          /\ scan.entries[i].selected # {}
          /\ scan.entries[i].selected \subseteq 1..scan.entries[i].fileCount
    /\ \A i, j \in OfferedIn(scan.entries) :
          scan.entries[i].hash = scan.entries[j].hash => i = j
    /\ \A i \in ValidAmong(s, k) : \E j \in OfferedIn(scan.entries) : scan.entries[j].hash = s[i].hash

\* What a scan says of the torrents so far it says with the next one.
LEMMA ScannedOneMore ==
    ASSUME NEW s, IsRaws(s), NEW k \in Nat, k + 1 \in 1..Len(s),
           NEW scan \in ScansOf(s), ScannedSo(scan, s, k)
    PROVE  ScannedSo(Scanned(scan, s[k + 1]), s, k + 1)
<1> DEFINE raw == s[k + 1]
           e == LegacyEntry(raw, scan.seen)
           old == scan.entries
           new == Append(old, e)
           all == Scanned(scan, raw)
           offers == e.kind = "importable"
<1>1. /\ all.entries = new
      /\ all.seen = scan.seen \cup (IF offers THEN {e.hash} ELSE {})
  BY DEF Scanned
<1>2. IsRaw(raw)
  BY DEF IsRaws, IsList, ToSet
<1>3. /\ e.kind \in {"importable", "skipped"}
      /\ offers <=> raw.outcome = "valid" /\ raw.hash \notin scan.seen
      /\ offers => /\ e.hash = raw.hash
                   /\ e.selected # {} /\ e.selected \subseteq 1..e.fileCount
  BY <1>2, EntryIsOffered
<1>4. old \in Seq(EntriesOf(s))
  BY DEF ScansOf
<1> HIDE DEF e, all
<1>5. /\ Len(old) = k
      /\ \A i \in 1..k : old[i].kind \in {"importable", "skipped"}
      /\ scan.seen = {s[i].hash : i \in ValidAmong(s, k)}
      /\ \A i \in OfferedIn(old) :
            /\ i \in ValidAmong(s, k) /\ old[i].hash = s[i].hash
            /\ old[i].selected # {} /\ old[i].selected \subseteq 1..old[i].fileCount
      /\ \A i, j \in OfferedIn(old) : old[i].hash = old[j].hash => i = j
      /\ \A i \in ValidAmong(s, k) : \E j \in OfferedIn(old) : old[j].hash = s[i].hash
  BY DEF ScannedSo
<1>6. /\ Len(new) = k + 1 /\ new[k + 1] = e /\ \A i \in 1..k : new[i] = old[i]
  <2> HIDE DEF old
  <2> QED
    BY <1>4, <1>5
<1> HIDE DEF new, raw
<1>7. /\ \A i \in 1..(k + 1) : i \in 1..k \/ i = k + 1
      /\ \A i \in 1..k : i \in 1..(k + 1) /\ i # k + 1
      /\ k + 1 \in 1..(k + 1)
  OBVIOUS
<1>8. OfferedIn(new) = OfferedIn(old) \cup (IF offers THEN {k + 1} ELSE {})
  BY <1>5, <1>6, <1>7 DEF OfferedIn
<1>9. ValidAmong(s, k + 1) = ValidAmong(s, k) \cup (IF raw.outcome = "valid" THEN {k + 1} ELSE {})
  BY <1>7 DEF ValidAmong, raw
<1>10. \A i \in OfferedIn(old) : i \in 1..k /\ new[i] = old[i]
  BY <1>5, <1>6 DEF OfferedIn
<1> HIDE DEF offers
<1>11. all.seen = {s[i].hash : i \in ValidAmong(s, k + 1)}
  <2>1. CASE raw.outcome # "valid"
    BY <1>1, <1>3, <1>5, <1>9, <2>1
  <2>2. CASE raw.outcome = "valid" /\ ~ offers
    <3>1. raw.hash \in {s[i].hash : i \in ValidAmong(s, k)}
      BY <1>3, <1>5, <2>2
    <3>2. {s[i].hash : i \in ValidAmong(s, k + 1)} = {s[i].hash : i \in ValidAmong(s, k)} \cup {raw.hash}
      BY <1>9, <2>2 DEF raw
    <3> QED
      BY <1>1, <1>5, <2>2, <3>1, <3>2
  <2>3. CASE raw.outcome = "valid" /\ offers
    <3>2. {s[i].hash : i \in ValidAmong(s, k + 1)} = {s[i].hash : i \in ValidAmong(s, k)} \cup {raw.hash}
      BY <1>9, <2>3 DEF raw
    <3> QED
      BY <1>1, <1>3, <1>5, <2>3, <3>2
  <2> QED
    BY <2>1, <2>2, <2>3
<1>12. \A i \in OfferedIn(new) :
          /\ i \in ValidAmong(s, k + 1) /\ new[i].hash = s[i].hash
          /\ new[i].selected # {} /\ new[i].selected \subseteq 1..new[i].fileCount
  <2> SUFFICES ASSUME NEW i \in OfferedIn(new)
               PROVE  /\ i \in ValidAmong(s, k + 1) /\ new[i].hash = s[i].hash
                      /\ new[i].selected # {} /\ new[i].selected \subseteq 1..new[i].fileCount
    OBVIOUS
  <2>1. CASE i \in OfferedIn(old)
    BY <1>5, <1>9, <1>10, <2>1
  <2>2. CASE offers /\ i = k + 1
    BY <1>3, <1>6, <1>9, <2>2 DEF raw
  <2> QED
    BY <1>8, <2>1, <2>2
<1>13. \A i, j \in OfferedIn(new) : new[i].hash = new[j].hash => i = j
  <2> SUFFICES ASSUME NEW i \in OfferedIn(new), NEW j \in OfferedIn(new), new[i].hash = new[j].hash
               PROVE  i = j
    OBVIOUS
  <2>1. \A l \in OfferedIn(old) : offers => new[l].hash # e.hash
    BY <1>3, <1>5, <1>10
  <2>2. CASE i \in OfferedIn(old) /\ j \in OfferedIn(old)
    BY <1>5, <1>10, <2>2
  <2>3. CASE offers /\ i = k + 1 /\ j = k + 1
    BY <2>3
  <2>4. CASE offers /\ i = k + 1 /\ j \in OfferedIn(old)
    BY <1>6, <2>1, <2>4
  <2>5. CASE offers /\ j = k + 1 /\ i \in OfferedIn(old)
    BY <1>6, <2>1, <2>5
  <2> QED
    BY <1>8, <2>2, <2>3, <2>4, <2>5
<1>14. \A i \in ValidAmong(s, k + 1) : \E j \in OfferedIn(new) : new[j].hash = s[i].hash
  <2> SUFFICES ASSUME NEW i \in ValidAmong(s, k + 1) PROVE \E j \in OfferedIn(new) : new[j].hash = s[i].hash
    OBVIOUS
  <2>1. CASE i \in ValidAmong(s, k)
    <3>1. PICK j \in OfferedIn(old) : old[j].hash = s[i].hash
      BY <1>5, <2>1
    <3> QED
      BY <1>8, <1>10, <3>1
  <2>2. CASE raw.outcome = "valid" /\ i = k + 1 /\ offers
    BY <1>3, <1>6, <1>8, <2>2 DEF raw
  <2>3. CASE raw.outcome = "valid" /\ i = k + 1 /\ ~ offers
    <3>1. PICK l \in ValidAmong(s, k) : raw.hash = s[l].hash
      BY <1>3, <1>5, <2>3
    <3>2. PICK j \in OfferedIn(old) : old[j].hash = s[l].hash
      BY <1>5
    <3> QED
      BY <1>8, <1>10, <2>3, <3>1, <3>2 DEF raw
  <2> QED
    BY <1>9, <2>1, <2>2, <2>3
<1>15. \A i \in 1..(k + 1) : new[i].kind \in {"importable", "skipped"}
  BY <1>3, <1>5, <1>6, <1>7
<1> QED
  <2>1. ScannedSo(all, s, k + 1)
    BY <1>1, <1>6, <1>11, <1>12, <1>13, <1>14, <1>15, Zenon DEF ScannedSo
  <2> QED
    BY <2>1 DEF all, raw

\* A scan offers each torrent once, with some of its files, and one that was taken
\* is not offered again (LegacyImporter.scan, LegacyImportService.take).
LEMMA ScansOfferOnce ==
    ASSUME NEW raws, IsRaws(raws)
    PROVE  ScanOffersOnce(raws)
<1> DEFINE n == Len(raws)
<1>1. PICK st \in [0..n -> ScansOf(raws)] : ScanRun(st, raws)
  BY ScanSteps
<1>2. /\ st[0] = [entries |-> <<>>, seen |-> {}]
      /\ \A k \in 1..n : st[k] = Scanned(st[k - 1], raws[k])
      /\ LegacyScan(raws) = st[n].entries
  BY <1>1 DEF ScanRun
<1> DEFINE good == {k \in 0..n : ScannedSo(st[k], raws, k)}
<1>3. n \in Nat /\ raws \in Seq(ToSet(raws))
  BY DEF IsRaws, IsList
<1>4. 0 \in good
  <2>1. st[0].entries = <<>> /\ st[0].seen = {} /\ 1..0 = {}
    BY <1>2
  <2>2. ScannedSo(st[0], raws, 0)
    BY <2>1 DEF ScannedSo, OfferedIn, ValidAmong
  <2> QED
    BY <1>3, <2>2
<1>5. ASSUME NEW k \in 0..(n - 1), k \in good PROVE k + 1 \in good
  <2>1. /\ k \in 0..n /\ k \in Nat /\ k + 1 \in 1..Len(raws) /\ k + 1 \in 0..n /\ (k + 1) - 1 = k
    BY <1>3
  <2>2. st[k + 1] = Scanned(st[k], raws[k + 1]) /\ st[k] \in ScansOf(raws) /\ ScannedSo(st[k], raws, k)
    BY <1>2, <1>5, <2>1
  <2>3. ScannedSo(Scanned(st[k], raws[k + 1]), raws, k + 1)
    BY <2>1, <2>2, ScannedOneMore
  <2> QED
    BY <2>1, <2>2, <2>3
<1>6. ScannedSo(st[n], raws, n)
  <2>1. \A k \in 0..n : k \in good
    <3> HIDE DEF good, n
    <3> QED
      BY <1>3, <1>4, <1>5, UpTo
  <2> QED
    BY <1>3, <2>1
<1> DEFINE entries == LegacyScan(raws)
           V == ValidAmong(raws, n)
           valid == {raws[i].hash : i \in V}
           O == OfferedIn(entries)
<1>7. /\ Len(entries) = n
      /\ \A i \in 1..n : entries[i].kind \in {"importable", "skipped"}
      /\ \A i \in O :
            /\ i \in V /\ entries[i].hash = raws[i].hash
            /\ entries[i].selected # {} /\ entries[i].selected \subseteq 1..entries[i].fileCount
      /\ \A i, j \in O : entries[i].hash = entries[j].hash => i = j
      /\ \A i \in V : \E j \in O : entries[j].hash = raws[i].hash
  BY <1>2, <1>6 DEF ScannedSo
<1>8. {raws[i].hash : i \in {j \in 1..Len(raws) : raws[j].outcome = "valid"}} = valid
  BY DEF ValidAmong
<1> HIDE DEF entries
<1>9. {entries[i].hash : i \in O} = valid
  <2> HIDE DEF O, V
  <2> QED
    BY <1>7
<1>10. Cardinality(O) = Cardinality(valid)
  <2> DEFINE f == [i \in O |-> entries[i].hash]
  <2>1. IsFiniteSet(O)
    <3>1. O \in SUBSET (1..n) /\ IsFiniteSet(1..n)
      BY <1>3, <1>7, FS_Interval DEF OfferedIn
    <3> HIDE DEF O
    <3> QED
      BY <3>1, FS_Subset
  <2> HIDE DEF O, V
  <2>2. f \in [O -> valid] /\ (\A i, j \in O : f[i] = f[j] => i = j)
        /\ \A h \in valid : \E i \in O : f[i] = h
    BY <1>7
  <2> HIDE DEF f, valid
  <2>3. f \in Bijection(O, valid)
    BY <2>2 DEF Bijection, Injection, Surjection, IsInjective
  <2>4. ExistsBijection(O, valid)
    BY <2>3 DEF ExistsBijection
  <2> QED
    BY <2>1, <2>4, FS_Bijection
<1>11. ASSUME NEW hash \in valid
       PROVE  LET left == TakenOut(entries, hash)
              IN  {left[i].hash : i \in OfferedIn(left)} = valid \ {hash}
  <2> DEFINE left == TakenOut(entries, hash)
  <2>1. left = [i \in 1..n |-> IF entries[i].kind = "importable" /\ entries[i].hash = hash
                               THEN [kind |-> "skipped", reason |-> "DUPLICATE"] ELSE entries[i]]
    BY <1>7 DEF TakenOut
  <2>2. Len(left) = n
    BY <1>3, <2>1
  <2>3. OfferedIn(left) = {i \in O : entries[i].hash # hash}
    BY <1>7, <2>1, <2>2 DEF OfferedIn
  <2>4. \A i \in OfferedIn(left) : left[i] = entries[i]
    BY <1>7, <2>1, <2>3 DEF OfferedIn
  <2>5. {left[i].hash : i \in OfferedIn(left)} = {entries[i].hash : i \in {j \in O : entries[j].hash # hash}}
    <3> HIDE DEF left, O
    <3> QED
      BY <2>3, <2>4
  <2> HIDE DEF left, O, valid
  <2>6. {entries[i].hash : i \in {j \in O : entries[j].hash # hash}} = valid \ {hash}
    BY <1>9
  <2> QED
    BY <2>5, <2>6 DEF left
<1>12. O = {i \in 1..Len(entries) : entries[i].kind = "importable"}
  BY DEF OfferedIn
<1> HIDE DEF O, valid
<1> QED
  BY <1>7, <1>8, <1>9, <1>10, <1>11, <1>12 DEF ScanOffersOnce, entries, OfferedIn

(* ----------------------------------- pages ---------------------------------- *)

\* The items of a listing have sizes.
LEMMA ItemBytes ==
    ASSUME NEW s, AreItems(s)
    PROVE  /\ Len(s) \in Nat /\ DOMAIN s = 1..Len(s) /\ s \in Seq(ToSet(s))
           /\ \A k \in 1..Len(s) : s[k] \in ToSet(s) /\ s[k].bytes \in Nat
<1>1. s \in Seq(ToSet(s)) /\ \A x \in ToSet(s) : x.bytes \in Nat
  BY DEF AreItems, IsList
<1>2. \A k \in DOMAIN s : s[k] \in ToSet(s)
  BY DEF ToSet
<1> QED
  BY <1>1, <1>2

\* The bytes of a list add up item by item.
BytesRun(st, s) ==
    /\ st[0] = 0
    /\ \A k \in 1..Len(s) :
          st[k] = st[k - 1] + s[k].bytes
    /\ Bytes(s) = st[Len(s)]

\* The bytes of a listing add up item by item.
LEMMA BytesSteps ==
    ASSUME NEW s, AreItems(s)
    PROVE  \E st \in [0..Len(s) -> Nat] : BytesRun(st, s)
<1> DEFINE n == Len(s)
           T == Nat
           base == 0
           step == [p \in T \X (1..n) |-> p[1] + s[p[2]].bytes]
           IsFold(f) == f = [t \in SUBSET DOMAIN s |->
                           IF t = {} THEN base ELSE f[t \ {Max(t)}] + s[Max(t)].bytes]
           iter == CHOOSE f : IsFold(f)
<1>1. n \in Nat /\ base \in T /\ DOMAIN s = 1..n
  BY ItemBytes
<1>2. step \in [T \X (1..n) -> T]
  <2>1. \A k \in 1..n : s[k].bytes \in Nat
    BY ItemBytes
  <2> QED
    BY <2>1
<1>3. \A a \in T, k \in 1..n : step[<<a, k>>] = a + s[k].bytes
  OBVIOUS
<1>4. Bytes(s) = iter[1..n]
  BY <1>1 DEF Bytes, FoldLeft, MapThenFoldSet
<1> HIDE DEF T, n, step, base
<1>5. PICK f \in [SUBSET (1..n) -> T] :
         /\ GoesOn(f, base, T, step, n)
         /\ \A t \in SUBSET (1..n) : t # {} => Max(t) \in 1..n /\ f[t \ {Max(t)}] \in T
  BY <1>1, <1>2, FoldGoesOn
<1>6. IsFold(f)
  BY <1>1, <1>3, <1>5 DEF GoesOn
<1>7. IsFold(iter)
  <2> HIDE DEF IsFold
  <2> QED
    BY <1>6
<1> HIDE DEF iter
<1>8. GoesOn(iter, base, T, step, n)
  BY <1>1, <1>3, <1>5, <1>7, ZenonT(30) DEF GoesOn
<1>9. PICK st \in [0..n -> T] : Runs(st, base, T, step, n) /\ EndsWith(iter, st, n)
  <2> HIDE DEF IsFold
  <2>1. base \in T /\ n \in Nat
    BY <1>1
  <2> QED
    BY <1>2, <1>8, <2>1, StatesOfFold
<1> QED
  BY <1>3, <1>4, <1>9, ZenonT(30) DEF Runs, EndsWith, BytesRun, n, T, base


\* A page as it is filled.
PageCounts == [count : Nat, bytes : Nat, full : BOOLEAN]

\* A page that is filled counts items and bytes.
LEMMA FilledGoesOn ==
    ASSUME NEW page \in PageCounts, NEW item, item.bytes \in Nat, NEW limit, NEW budget
    PROVE  Filled(page, item, limit, budget) \in PageCounts
<1>1. page.count \in Nat /\ page.bytes \in Nat /\ page.full \in BOOLEAN
  BY DEF PageCounts
<1>2. [page EXCEPT !.full = TRUE] \in PageCounts
  BY DEF PageCounts
<1>3. [count |-> page.count + 1, bytes |-> page.bytes + item.bytes, full |-> FALSE] \in PageCounts
  BY <1>1 DEF PageCounts
<1> QED
  BY <1>2, <1>3 DEF Filled

FilledPage(s, limit, budget) ==
    FoldLeft(LAMBDA page, item : Filled(page, item, limit, budget), EmptyPage, s)

\* A page is filled item by item.
FillRun(st, s, limit, budget) ==
    /\ st[0] = EmptyPage
    /\ \A k \in 1..Len(s) :
          st[k] = Filled(st[k - 1], s[k], limit, budget)
    /\ FilledPage(s, limit, budget) = st[Len(s)]

\* A page fills item by item.
LEMMA FillSteps ==
    ASSUME NEW s, AreItems(s), NEW limit, NEW budget
    PROVE  \E st \in [0..Len(s) -> PageCounts] : FillRun(st, s, limit, budget)
<1> DEFINE n == Len(s)
           T == PageCounts
           base == EmptyPage
           step == [p \in T \X (1..n) |-> Filled(p[1], s[p[2]], limit, budget)]
           IsFold(f) == f = [t \in SUBSET DOMAIN s |->
                           IF t = {} THEN base ELSE Filled(f[t \ {Max(t)}], s[Max(t)], limit, budget)]
           iter == CHOOSE f : IsFold(f)
<1>1. n \in Nat /\ base \in T /\ DOMAIN s = 1..n
  BY ItemBytes DEF PageCounts, EmptyPage
<1>2. step \in [T \X (1..n) -> T]
  <2>1. \A p \in T \X (1..n) : Filled(p[1], s[p[2]], limit, budget) \in T
    BY ItemBytes, FilledGoesOn
  <2> QED
    BY <2>1
<1>3. \A a \in T, k \in 1..n : step[<<a, k>>] = Filled(a, s[k], limit, budget)
  OBVIOUS
<1>4. FilledPage(s, limit, budget) = iter[1..n]
  BY <1>1 DEF FilledPage, FoldLeft, MapThenFoldSet
<1> HIDE DEF T, n, step, base
<1>5. PICK f \in [SUBSET (1..n) -> T] :
         /\ GoesOn(f, base, T, step, n)
         /\ \A t \in SUBSET (1..n) : t # {} => Max(t) \in 1..n /\ f[t \ {Max(t)}] \in T
  BY <1>1, <1>2, FoldGoesOn
<1>6. IsFold(f)
  BY <1>1, <1>3, <1>5 DEF GoesOn
<1>7. IsFold(iter)
  <2> HIDE DEF IsFold
  <2> QED
    BY <1>6
<1> HIDE DEF iter
<1>8. GoesOn(iter, base, T, step, n)
  BY <1>1, <1>3, <1>5, <1>7, ZenonT(30) DEF GoesOn
<1>9. PICK st \in [0..n -> T] : Runs(st, base, T, step, n) /\ EndsWith(iter, st, n)
  <2> HIDE DEF IsFold
  <2>1. base \in T /\ n \in Nat
    BY <1>1
  <2> QED
    BY <1>2, <1>8, <2>1, StatesOfFold
<1> QED
  BY <1>3, <1>4, <1>9, ZenonT(30) DEF Runs, EndsWith, FillRun, n, T, base

\* A page after the first k items of a list, whose bytes add up as in sum.
FilledSo(page, k, limit, budget, sum) ==
    /\ page.count \in 0..k /\ page.count <= limit
    /\ page.bytes = sum[page.count] /\ page.bytes <= budget
    /\ page.full \/ page.count = k
    /\ k # 0 \/ page.full => page.count # 0

\* A page that was filled as far as it may is so with the next item offered.
LEMMA FilledOneMore ==
    ASSUME NEW limit \in Nat \ {0}, NEW budget \in Nat, NEW k \in Nat,
           NEW page \in PageCounts, NEW item, item.bytes \in Nat, item.bytes <= budget,
           NEW sum, sum[0] = 0, sum[k + 1] = sum[k] + item.bytes,
           FilledSo(page, k, limit, budget, sum)
    PROVE  FilledSo(Filled(page, item, limit, budget), k + 1, limit, budget, sum)
<1> DEFINE more == [count |-> page.count + 1, bytes |-> page.bytes + item.bytes, full |-> FALSE]
           same == [page EXCEPT !.full = TRUE]
           stop == \/ page.full \/ page.count = limit
                   \/ (page.count > 0 /\ page.bytes + item.bytes > budget)
<1>1. page.count \in Nat /\ page.bytes \in Nat /\ page.full \in BOOLEAN
  BY DEF PageCounts
<1>2. /\ page.count \in 0..k /\ page.count <= limit
      /\ page.bytes = sum[page.count] /\ page.bytes <= budget
      /\ page.full \/ page.count = k
      /\ k # 0 \/ page.full => page.count # 0
  BY DEF FilledSo
<1>3. CASE stop
  <2>1. same.count = page.count /\ same.bytes = page.bytes /\ same.full = TRUE
    BY DEF PageCounts
  <2>2. page.count # 0
    BY <1>1, <1>2, <1>3
  <2>3. Filled(page, item, limit, budget) = same
    BY <1>3 DEF Filled
  <2> HIDE DEF same
  <2> QED
    BY <1>1, <1>2, <2>1, <2>2, <2>3 DEF FilledSo
<1>4. CASE ~ stop
  <2>1. page.count = k /\ k + 1 <= limit
    BY <1>1, <1>2, <1>4
  <2>2. page.bytes + item.bytes <= budget
    <3>1. CASE k = 0
      BY <1>2, <2>1, <3>1
    <3>2. CASE k # 0
      BY <1>1, <1>4, <2>1, <3>2
    <3> QED
      BY <3>1, <3>2
  <2>3. Filled(page, item, limit, budget) = more
    BY <1>4 DEF Filled
  <2>4. more.count = k + 1 /\ more.bytes = sum[k + 1] /\ more.full = FALSE
    BY <1>2, <2>1
  <2>5. more.bytes <= budget
    BY <2>2
  <2> HIDE DEF more
  <2> QED
    BY <2>1, <2>3, <2>4, <2>5 DEF FilledSo
<1> QED
  BY <1>3, <1>4

\* The bytes of a part of a list are the sum up to its end.
LEMMA BytesOfAPart ==
    ASSUME NEW s, AreItems(s), NEW sum, BytesRun(sum, s), NEW e \in 0..Len(s)
    PROVE  Bytes(SubSeq(s, 1, e)) = sum[e]
<1> DEFINE q == SubSeq(s, 1, e)
<1>1. Len(s) \in Nat /\ s \in Seq(ToSet(s))
  BY ItemBytes
<1>2. /\ q \in Seq(ToSet(s)) /\ Len(q) = e /\ DOMAIN q = 1..e
      /\ \A k \in 1..e : q[k] = s[k] /\ k \in 1..Len(s)
  BY <1>1
<1>3. AreItems(q)
  <2> HIDE DEF q
  <2>1. q \in Seq(ToSet(q))
    BY <1>2 DEF ToSet
  <2>2. \A k \in 1..e : s[k].bytes \in Nat
    BY <1>2, ItemBytes
  <2>3. \A x \in ToSet(q) : x.bytes \in Nat
    BY <1>2, <2>2 DEF ToSet
  <2> QED
    BY <2>1, <2>3 DEF AreItems, IsList
<1> HIDE DEF q
<1>4. PICK part \in [0..Len(q) -> Nat] : BytesRun(part, q)
  BY <1>3, BytesSteps
<1>5. /\ part[0] = 0 /\ Bytes(q) = part[e]
      /\ \A k \in 1..e : part[k] = part[k - 1] + q[k].bytes
  BY <1>2, <1>4 DEF BytesRun
<1>6. /\ sum[0] = 0
      /\ \A k \in 1..Len(s) : sum[k] = sum[k - 1] + s[k].bytes
  BY DEF BytesRun
<1> DEFINE good == {k \in 0..e : part[k] = sum[k]}
<1>7. e \in Nat /\ 0 \in good
  BY <1>1, <1>5, <1>6
<1>8. ASSUME NEW k \in 0..(e - 1), k \in good PROVE k + 1 \in good
  <2>1. k + 1 \in 1..e /\ k + 1 \in 1..Len(s) /\ (k + 1) - 1 = k /\ k + 1 \in 0..e
    BY <1>1
  <2>2. part[k + 1] = part[k] + q[k + 1].bytes /\ sum[k + 1] = sum[k] + s[k + 1].bytes
    BY <1>5, <1>6, <2>1
  <2>3. q[k + 1] = s[k + 1] /\ part[k] = sum[k]
    BY <1>2, <1>8, <2>1
  <2> QED
    BY <2>1, <2>2, <2>3
<1>9. e \in good
  <2> HIDE DEF good
  <2>1. \A k \in 0..e : k \in good
    BY <1>7, <1>8, UpTo
  <2> QED
    BY <1>7, <2>1
<1> QED
  BY <1>5, <1>9 DEF q

\* What is taken of a list for a page: no more than the limit and the budget, and
\* something as long as there is something.
IsTaken(e, s, limit, budget) ==
    /\ e \in 0..Len(s) /\ e <= limit
    /\ Len(s) # 0 => e # 0
    /\ Bytes(SubSeq(s, 1, e)) <= budget

\* A page holds as many items as its limit and its budget allow, and at least one.
LEMMA PageIsFilled ==
    ASSUME NEW s, AreItems(s), NEW limit \in Nat \ {0}, NEW budget \in Nat,
           \A x \in ToSet(s) : x.bytes <= budget
    PROVE  IsTaken(FilledPage(s, limit, budget).count, s, limit, budget)
<1> DEFINE n == Len(s)
<1>1. PICK sum \in [0..Len(s) -> Nat] : BytesRun(sum, s)
  BY BytesSteps
<1>2. PICK st \in [0..Len(s) -> PageCounts] : FillRun(st, s, limit, budget)
  BY FillSteps
<1>3. /\ n \in Nat
      /\ \A k \in 1..n : s[k].bytes \in Nat /\ s[k].bytes <= budget
  BY ItemBytes
<1>4. /\ sum[0] = 0
      /\ \A k \in 1..n : sum[k] = sum[k - 1] + s[k].bytes
  BY <1>1 DEF BytesRun
<1>5. /\ st[0] = EmptyPage
      /\ \A k \in 1..n : st[k] = Filled(st[k - 1], s[k], limit, budget)
      /\ FilledPage(s, limit, budget) = st[n]
  BY <1>2 DEF FillRun
<1> DEFINE good == {k \in 0..n : FilledSo(st[k], k, limit, budget, sum)}
<1>6. 0 \in good
  <2>1. FilledSo(EmptyPage, 0, limit, budget, sum)
    BY <1>4 DEF FilledSo, EmptyPage
  <2> QED
    BY <1>3, <1>5, <2>1
<1>7. ASSUME NEW k \in 0..(n - 1), k \in good PROVE k + 1 \in good
  <2>1. k + 1 \in 1..n /\ (k + 1) - 1 = k /\ k + 1 \in 0..n /\ k \in 0..n /\ k \in Nat
    BY <1>3
  <2>2. /\ st[k + 1] = Filled(st[k], s[k + 1], limit, budget)
        /\ sum[k + 1] = sum[k] + s[k + 1].bytes
        /\ s[k + 1].bytes \in Nat /\ s[k + 1].bytes <= budget
    BY <1>3, <1>4, <1>5, <2>1
  <2>3. st[k] \in PageCounts /\ FilledSo(st[k], k, limit, budget, sum)
    BY <1>2, <1>7, <2>1
  <2>4. FilledSo(Filled(st[k], s[k + 1], limit, budget), k + 1, limit, budget, sum)
    BY <1>4, <2>1, <2>2, <2>3, FilledOneMore
  <2> QED
    BY <2>1, <2>2, <2>4
<1>8. n \in good
  <2> HIDE DEF good, n
  <2>1. \A k \in 0..n : k \in good
    BY <1>3, <1>6, <1>7, UpTo
  <2> QED
    BY <1>3, <2>1
<1> DEFINE e == st[n].count
<1>9. /\ e \in 0..n /\ e <= limit /\ sum[e] <= budget
      /\ n # 0 => e # 0
  BY <1>8 DEF FilledSo
<1>10. Bytes(SubSeq(s, 1, e)) = sum[e]
  BY <1>1, <1>9, BytesOfAPart
<1> QED
  BY <1>5, <1>9, <1>10 DEF IsTaken

\* A page of a list from one place to another.
IsPageTo(page, L, c, e, limit, budget) ==
    /\ page.items = SubSeq(L, c + 1, e) /\ page.total = Len(L)
    /\ page.next = (IF e < Len(L) THEN {e} ELSE {})
    /\ c < Len(L) => c < e
    /\ e - c <= limit /\ Bytes(page.items) <= budget

\* A list that can be paged: none of its items is too large for a page.
Pageable(L, budget) == AreItems(L) /\ \A x \in ToSet(L) : x.bytes <= budget

\* A part of a part is a part.
LEMMA PartOfAPart ==
    ASSUME NEW S, NEW L \in Seq(S), NEW c \in 0..Len(L), NEW t \in 0..(Len(L) - c)
    PROVE  SubSeq(SubSeq(L, c + 1, Len(L)), 1, t) = SubSeq(L, c + 1, c + t)
<1> DEFINE s == SubSeq(L, c + 1, Len(L))
           a == SubSeq(s, 1, t)
           b == SubSeq(L, c + 1, c + t)
<1>1. Len(L) \in Nat
  OBVIOUS
<1>2. s \in Seq(S) /\ Len(s) = Len(L) - c /\ \A k \in 1..(Len(L) - c) : s[k] = L[c + k]
  BY <1>1
<1>3. b \in Seq(S) /\ Len(b) = t /\ \A k \in 1..t : b[k] = L[c + k]
  BY <1>1
<1> HIDE DEF s, b
<1>4. a \in Seq(S) /\ Len(a) = t /\ \A k \in 1..t : a[k] = s[k]
  BY <1>1, <1>2
<1> HIDE DEF a
<1>5. \A k \in 1..t : k \in 1..(Len(L) - c)
  BY <1>1
<1>6. a = b
  BY <1>2, <1>3, <1>4, <1>5, SeqEqual
<1> QED
  BY <1>6 DEF a, b, s

\* What is left of a pageable list is pageable.
LEMMA RestIsPageable ==
    ASSUME NEW L, NEW budget, Pageable(L, budget), NEW c \in 0..Len(L)
    PROVE  LET s == SubSeq(L, c + 1, Len(L))
           IN  Pageable(s, budget) /\ Len(s) = Len(L) - c
<1> DEFINE s == SubSeq(L, c + 1, Len(L))
           S == ToSet(L)
<1>1. L \in Seq(S) /\ Len(L) \in Nat
  BY ItemBytes DEF Pageable
<1>2. /\ \A k \in 1..Len(L) : L[k] \in S
      /\ \A x \in S : x.bytes \in Nat /\ x.bytes <= budget
  BY ItemBytes DEF Pageable, AreItems
<1> HIDE DEF S
<1>3. s \in Seq(S) /\ Len(s) = Len(L) - c /\ DOMAIN s = 1..(Len(L) - c)
  BY <1>1
<1>4. \A k \in 1..(Len(L) - c) : s[k] \in S
  BY <1>3
<1> HIDE DEF s
<1>5. ToSet(s) \subseteq S
  BY <1>3, <1>4 DEF ToSet
<1>6. s \in Seq(ToSet(s))
  BY <1>3 DEF ToSet
<1> QED
  BY <1>2, <1>3, <1>5, <1>6 DEF s, Pageable, AreItems, IsList

\* The page at any place of a listing says how far it goes and where the next
\* begins.
LEMMA PagesGoOn ==
    ASSUME NEW L, NEW limit \in Nat \ {0}, NEW budget \in Nat, Pageable(L, budget),
           NEW c \in 0..Len(L)
    PROVE  \E e \in c..Len(L) :
              IsPageTo(PageFrom(L, c, limit, budget), L, c, e, limit, budget)
<1> DEFINE n == Len(L)
           s == SubSeq(L, c + 1, n)
           t == FilledPage(s, limit, budget).count
           page == PageFrom(L, c, limit, budget)
<1>1. n \in Nat /\ L \in Seq(ToSet(L))
  BY ItemBytes DEF Pageable
<1>2. Pageable(s, budget) /\ Len(s) = n - c
  BY RestIsPageable
<1>3. Taken(L, c, limit, budget) = t
  BY DEF Taken, FilledPage
<1> HIDE DEF s
<1>4. IsTaken(t, s, limit, budget)
  BY <1>2, PageIsFilled DEF Pageable
<1> HIDE DEF t
<1>5. /\ t \in 0..(n - c) /\ t <= limit
      /\ n - c # 0 => t # 0
      /\ Bytes(SubSeq(s, 1, t)) <= budget
  BY <1>2, <1>4 DEF IsTaken
<1>6. SubSeq(s, 1, t) = SubSeq(L, c + 1, c + t)
  BY <1>1, <1>5, PartOfAPart DEF s
<1>7. Min({c, n}) = c
  BY <1>1, OfTwo
<1>8. page = [items |-> SubSeq(L, c + 1, c + t), total |-> n,
              next |-> IF c + t < n THEN {c + t} ELSE {}]
  BY <1>3, <1>7 DEF PageFrom
<1> HIDE DEF page
<1>9. /\ page.items = SubSeq(L, c + 1, c + t) /\ page.total = n
      /\ page.next = (IF c + t < n THEN {c + t} ELSE {})
  BY <1>8
<1>10. c + t \in c..n /\ (c < n => c < c + t) /\ (c + t) - c <= limit
  BY <1>1, <1>5
<1>11. IsPageTo(page, L, c, c + t, limit, budget)
  BY <1>5, <1>6, <1>9, <1>10 DEF IsPageTo
<1> QED
  BY <1>10, <1>11 DEF page

\* Every page is of a size main accepts and has items of the listing, the one
\* behind the end too.
LEMMA PagesFit ==
    ASSUME NEW L, NEW limit \in 1..MaxPageItems, NEW budget \in Nat, Pageable(L, budget),
           Len(L) <= MaxFileCount, NEW c \in 0..(Len(L) + 1)
    PROVE  /\ PageFits(PageFrom(L, c, limit, budget), budget)
           /\ ToSet(PageFrom(L, c, limit, budget).items) \subseteq ToSet(L)
           /\ Ordered(L) => Ordered(PageFrom(L, c, limit, budget).items)
<1> DEFINE n == Len(L)
           d == IF c <= n THEN c ELSE n
           page == PageFrom(L, d, limit, budget)
<1>1. n \in Nat /\ L \in Seq(ToSet(L)) /\ limit \in Nat \ {0}
  <2> HIDE DEF d, page
  <2>1. n \in Nat /\ L \in Seq(ToSet(L))
    BY ItemBytes DEF Pageable
  <2>2. limit \in Nat \ {0}
    BY DEF MaxPageItems
  <2> QED
    BY <2>1, <2>2
<1>2. d \in 0..n /\ Min({c, n}) = d /\ Min({d, n}) = d
  BY <1>1, OfTwo
<1>3. PageFrom(L, c, limit, budget) = page
  BY <1>2 DEF PageFrom
<1> HIDE DEF d
<1>4. PICK e \in d..n : IsPageTo(page, L, d, e, limit, budget)
  BY <1>1, <1>2, PagesGoOn
<1> HIDE DEF page
<1>5. /\ page.items = SubSeq(L, d + 1, e) /\ page.total = n
      /\ page.next = (IF e < n THEN {e} ELSE {})
      /\ e - d <= limit /\ Bytes(page.items) <= budget
  BY <1>4 DEF IsPageTo
<1>6. Len(page.items) = e - d
  <2>1. d + 1 \in 1..(n + 1) /\ e \in d..n /\ e \in Nat /\ d \in Nat
    BY <1>1, <1>2
  <2> QED
    BY <1>1, <1>5, <2>1, SMTT(30)
<1>7. Len(page.items) <= MaxPageItems
  <2>1. e - d <= limit /\ Len(page.items) = e - d
    BY <1>5, <1>6
  <2>2. limit \in Int /\ limit <= MaxPageItems /\ MaxPageItems \in Int /\ e \in Int /\ d \in Int
    BY <1>1, <1>2 DEF MaxPageItems
  <2> QED
    BY <2>1, <2>2
<1>8. Len(page.items) <= page.total /\ \A next \in page.next : next <= page.total
  BY <1>1, <1>2, <1>5, <1>6
<1>9. ToSet(page.items) \subseteq ToSet(L)
  <2>1. d + 1 \in 1..(n + 1) /\ e \in d..n /\ e \in Nat /\ d \in Nat
    BY <1>1, <1>2
  <2> DEFINE S == ToSet(L)
             t == SubSeq(L, d + 1, e)
  <2>2. L \in Seq(S)
    BY <1>1
  <2> HIDE DEF S
  <2>3. t \in Seq(S)
    BY <2>1, <2>2
  <2> HIDE DEF t
  <2>4. \A i \in DOMAIN t : t[i] \in S
    BY <2>3
  <2> QED
    BY <1>5, <2>4 DEF ToSet, S, t
<1>10. Ordered(L) => Ordered(page.items)
  <2> SUFFICES ASSUME Ordered(L), NEW i \in 2..(e - d)
               PROVE  page.items[i - 1].key < page.items[i].key
    BY <1>6 DEF Ordered
  <2>1. d + 1 \in 1..(n + 1) /\ e \in d..n /\ e \in Nat /\ d \in Nat
    BY <1>1, <1>2
  <2>2. \A k \in 1..(e - d) : page.items[k] = L[d + k]
    BY <1>1, <1>5, <2>1
  <2>3. i - 1 \in 1..(e - d) /\ i \in 1..(e - d)
    BY <2>1
  <2>4. d + i \in 2..n /\ d + (i - 1) = (d + i) - 1
    BY <1>1, <2>1
  <2>5. L[(d + i) - 1].key < L[d + i].key
    BY <2>4 DEF Ordered
  <2> QED
    BY <2>2, <2>3, <2>4, <2>5
<1> QED
  BY <1>3, <1>5, <1>7, <1>8, <1>9, <1>10 DEF PageFits

\* What is read from a place on, when f is what is read from the later ones.
ReadFrom(page, c, f) ==
    IF page.items = <<>> \/ \A next \in page.next : next <= c
    THEN page.items
    ELSE page.items \o f[CHOOSE next \in page.next : TRUE]

Walked(f, pages) == f = [c \in DOMAIN pages |-> ReadFrom(pages[c], c, f)]

\* What is collected follows the pages from the first.
LEMMA CollectedIsWalked ==
    ASSUME NEW pages, NEW g, Walked(g, pages)
    PROVE  \E f : Walked(f, pages) /\ Collected(pages) = f[0]
<1> DEFINE IsFold(f) == f = [cursor \in DOMAIN pages |->
                           IF pages[cursor].items = <<>>
                              \/ \A next \in pages[cursor].next : next <= cursor
                           THEN pages[cursor].items
                           ELSE pages[cursor].items \o f[CHOOSE next \in pages[cursor].next : TRUE]]
           walk == CHOOSE f : IsFold(f)
<1>1. IsFold(g)
  BY DEF Walked, ReadFrom
<1>2. IsFold(walk)
  <2> HIDE DEF IsFold
  <2> QED
    BY <1>1
<1>3. Collected(pages) = walk[0]
  BY DEF Collected
<1> HIDE DEF walk
<1>4. Walked(walk, pages)
  BY <1>2 DEF Walked, ReadFrom
<1> QED
  BY <1>3, <1>4

\* A page and the rest of the listing are what was left of it.
LEMMA TwoParts ==
    ASSUME NEW S, NEW L \in Seq(S), NEW c \in 0..Len(L), NEW e \in c..Len(L)
    PROVE  SubSeq(L, c + 1, e) \o SubSeq(L, e + 1, Len(L)) = SubSeq(L, c + 1, Len(L))
<1> DEFINE a == SubSeq(L, c + 1, e)
           b == SubSeq(L, e + 1, Len(L))
           all == SubSeq(L, c + 1, Len(L))
           ab == a \o b
<1>1. Len(L) \in Nat /\ c \in Nat /\ e \in Nat
  OBVIOUS
<1>2. a \in Seq(S) /\ Len(a) = e - c /\ \A k \in 1..(e - c) : a[k] = L[c + k]
  BY <1>1
<1>3. b \in Seq(S) /\ Len(b) = Len(L) - e /\ \A k \in 1..(Len(L) - e) : b[k] = L[e + k]
  BY <1>1
<1>4. all \in Seq(S) /\ Len(all) = Len(L) - c /\ \A k \in 1..(Len(L) - c) : all[k] = L[c + k]
  BY <1>1
<1> HIDE DEF a, b, all
<1>5. ab \in Seq(S) /\ Len(ab) = Len(a) + Len(b)
      /\ \A k \in 1..(Len(a) + Len(b)) : ab[k] = IF k <= Len(a) THEN a[k] ELSE b[k - Len(a)]
  BY <1>2, <1>3, ConcatProperties
<1> HIDE DEF ab
<1>6. Len(ab) = Len(L) - c
      /\ \A k \in 1..(Len(L) - c) : ab[k] = IF k <= e - c THEN a[k] ELSE b[k - (e - c)]
  BY <1>1, <1>2, <1>3, <1>5
<1>7. ASSUME NEW k \in 1..(Len(L) - c) PROVE ab[k] = all[k]
  <2>1. CASE k <= e - c
    <3>1. k \in 1..(e - c)
      BY <1>1, <2>1
    <3> QED
      BY <1>2, <1>4, <1>6, <2>1, <3>1
  <2>2. CASE ~ (k <= e - c)
    <3>1. k - (e - c) \in 1..(Len(L) - e) /\ e + (k - (e - c)) = c + k
      BY <1>1, <2>2
    <3> QED
      BY <1>3, <1>4, <1>6, <2>2, <3>1
  <2> QED
    BY <2>1, <2>2
<1>8. ab = all
  BY <1>4, <1>5, <1>6, <1>7, SeqEqual
<1> QED
  BY <1>8 DEF a, b, ab, all

\* What is read of a list from the place c on: all that is left of it, as long as
\* f is what is left from every later place on.
LEMMA RestIsRead ==
    ASSUME NEW L, NEW limit \in Nat \ {0}, NEW budget \in Nat, Pageable(L, budget),
           NEW c \in 0..Len(L), NEW f,
           \A e \in (c + 1)..Len(L) : f[e] = SubSeq(L, e + 1, Len(L))
    PROVE  ReadFrom(PageFrom(L, c, limit, budget), c, f) = SubSeq(L, c + 1, Len(L))
<1> DEFINE n == Len(L)
           page == PageFrom(L, c, limit, budget)
<1>1. n \in Nat /\ L \in Seq(ToSet(L))
  BY ItemBytes DEF Pageable
<1>2. PICK e \in c..n : IsPageTo(page, L, c, e, limit, budget)
  BY PagesGoOn
<1> HIDE DEF page
<1>3. /\ page.items = SubSeq(L, c + 1, e)
      /\ page.next = (IF e < n THEN {e} ELSE {})
      /\ c < n => c < e
  BY <1>2 DEF IsPageTo
<1>4. Len(page.items) = e - c
  <2>1. c + 1 \in 1..(n + 1) /\ e \in Nat /\ c \in Nat
    BY <1>1
  <2> QED
    BY <1>1, <1>3, <2>1
<1>5. CASE e = n
  <2>1. page.next = {} /\ page.items = SubSeq(L, c + 1, n)
    BY <1>1, <1>3, <1>5
  <2>2. ReadFrom(page, c, f) = page.items
    BY <2>1 DEF ReadFrom
  <2> QED
    BY <2>1, <2>2 DEF page
<1>6. CASE e < n
  <2>0. c < n /\ page.next = {e}
    BY <1>1, <1>3, <1>6
  <2>1. c < e /\ page.next = {e} /\ page.items # <<>>
    <3>1. c < e
      BY <1>3, <2>0
    <3>2. Len(page.items) # 0
      BY <1>1, <1>4, <3>1
    <3>3. Len(<<>>) = 0
      OBVIOUS
    <3> QED
      BY <2>0, <3>1, <3>2, <3>3
  <2>2. (CHOOSE next \in page.next : TRUE) = e /\ ~ \A next \in page.next : next <= c
    BY <1>1, <2>1
  <2>3. ReadFrom(page, c, f) = page.items \o f[e]
    BY <2>1, <2>2 DEF ReadFrom
  <2>4. f[e] = SubSeq(L, e + 1, n)
    BY <1>1, <2>1
  <2> QED
    BY <1>1, <1>3, <2>3, <2>4, TwoParts DEF page
<1> QED
  BY <1>1, <1>5, <1>6 DEF page

\* The pages from the first to the last are the listing.
LEMMA PagesGather ==
    ASSUME NEW L, NEW limit \in Nat \ {0}, NEW budget \in Nat, Pageable(L, budget),
           NEW pages, pages = [c \in 0..Len(L) |-> PageFrom(L, c, limit, budget)]
    PROVE  Collected(pages) = L
<1> DEFINE n == Len(L)
           g == [c \in 0..n |-> SubSeq(L, c + 1, n)]
<1>1. n \in Nat /\ L \in Seq(ToSet(L))
  BY ItemBytes DEF Pageable
<1>2. DOMAIN pages = 0..n /\ \A c \in 0..n : pages[c] = PageFrom(L, c, limit, budget)
  OBVIOUS
<1>3. Walked(g, pages)
  <2>1. ASSUME NEW c \in 0..n PROVE ReadFrom(pages[c], c, g) = SubSeq(L, c + 1, n)
    <3>1. \A e \in (c + 1)..n : g[e] = SubSeq(L, e + 1, n)
      BY <1>1
    <3> HIDE DEF g
    <3> QED
      BY <1>2, <3>1, RestIsRead
  <2>2. g = [c \in 0..n |-> ReadFrom(pages[c], c, g)]
    <3> DEFINE h == [c \in 0..n |-> ReadFrom(pages[c], c, g)]
    <3>1. \A c \in 0..n : h[c] = SubSeq(L, c + 1, n)
      BY <2>1
    <3>2. h = [c \in 0..n |-> h[c]]
      OBVIOUS
    <3> HIDE DEF h
    <3>3. h = [c \in 0..n |-> SubSeq(L, c + 1, n)]
      BY <3>1, <3>2
    <3> QED
      BY <3>3 DEF h
  <2> HIDE DEF g
  <2> QED
    BY <1>2, <2>2 DEF Walked
<1> HIDE DEF g
<1>4. PICK f : Walked(f, pages) /\ Collected(pages) = f[0]
  BY <1>3, CollectedIsWalked
<1>5. \A c \in 0..n : f[c] = ReadFrom(PageFrom(L, c, limit, budget), c, f)
  <2>1. f = [c \in 0..n |-> ReadFrom(pages[c], c, f)]
    BY <1>2, <1>4 DEF Walked
  <2>2. \A c \in 0..n : f[c] = ReadFrom(pages[c], c, f)
    BY <2>1
  <2> QED
    BY <1>2, <2>2
<1> DEFINE good == {k \in 0..n : \A c \in (n - k)..n : f[c] = SubSeq(L, c + 1, n)}
<1>6. 0 \in good
  <2>1. \A e \in (n + 1)..n : f[e] = SubSeq(L, e + 1, n)
    BY <1>1
  <2>2. n \in 0..n
    BY <1>1
  <2>3. f[n] = SubSeq(L, n + 1, n)
    BY <1>5, <2>1, <2>2, RestIsRead
  <2>4. \A c \in (n - 0)..n : c = n
    BY <1>1
  <2> QED
    BY <1>1, <2>3, <2>4
<1>7. ASSUME NEW k \in 0..(n - 1), k \in good PROVE k + 1 \in good
  <2> DEFINE d == n - (k + 1)
  <2>1. d \in 0..n /\ d + 1 = n - k /\ k + 1 \in 0..n
    BY <1>1
  <2>2. \A c \in d..n : c = d \/ c \in (n - k)..n
    BY <1>1
  <2>3. \A e \in (n - k)..n : f[e] = SubSeq(L, e + 1, n)
    BY <1>7
  <2> HIDE DEF d
  <2>4. f[d] = SubSeq(L, d + 1, n)
    BY <1>5, <2>1, <2>3, RestIsRead, SMTT(30)
  <2>5. \A c \in d..n : f[c] = SubSeq(L, c + 1, n)
    BY <2>2, <2>3, <2>4
  <2> QED
    BY <2>1, <2>5 DEF d
<1>8. n \in good
  <2> HIDE DEF good, n
  <2>1. \A k \in 0..n : k \in good
    BY <1>1, <1>6, <1>7, UpTo
  <2> QED
    BY <1>1, <2>1
<1>9. f[0] = SubSeq(L, 1, n)
  BY <1>1, <1>8
<1>10. SubSeq(L, 1, n) = L
  <2> DEFINE a == SubSeq(L, 1, n)
  <2>1. a \in Seq(ToSet(L)) /\ Len(a) = n /\ \A k \in 1..n : a[k] = L[k]
    BY <1>1
  <2> HIDE DEF a
  <2>2. a = L
    BY <1>1, <2>1, SeqEqual
  <2> QED
    BY <2>2 DEF a
<1> QED
  BY <1>4, <1>9, <1>10

\* A list sorted by numbers that no two of its items share is strictly sorted.
LEMMA StrictlySorted ==
    ASSUME NEW s, IsList(s), NEW t, IsList(t), Len(t) = Len(s), ToSet(t) = ToSet(s),
           NEW rank, \A x \in ToSet(s) : rank[x] \in Int,
           \A i, j \in 1..Len(s) : rank[s[i]] = rank[s[j]] => i = j,
           InOrderOf(t, rank)
    PROVE  \A i \in 2..Len(t) : rank[t[i - 1]] < rank[t[i]]
<1> DEFINE n == Len(s)
           S == ToSet(s)
<1>1. /\ n \in Nat /\ s \in [1..n -> S] /\ t \in [1..n -> S]
      /\ (\A x \in S : \E i \in 1..n : s[i] = x)
      /\ (\A x \in S : \E i \in 1..n : t[i] = x)
  <2>1. s \in Seq(S) /\ t \in Seq(S)
    BY DEF IsList
  <2>2. DOMAIN s = 1..n /\ DOMAIN t = 1..n /\ n \in Nat
    BY <2>1
  <2>3. \A x \in S : \E i \in DOMAIN s : s[i] = x
    BY DEF ToSet
  <2>4. \A x \in S : \E i \in DOMAIN t : t[i] = x
    BY DEF ToSet
  <2> QED
    BY <2>1, <2>2, <2>3, <2>4
<1>2. \A x \in S : rank[x] \in Int
  OBVIOUS
<1> HIDE DEF S
<1>3. \A i, j \in 1..n : s[i] = s[j] => i = j
  OBVIOUS
<1>4. s \in Injection(1..n, S) /\ s \in Surjection(1..n, S) /\ t \in Surjection(1..n, S)
  BY <1>1, <1>3 DEF Injection, Surjection, IsInjective
<1>5. IsFiniteSet(1..n)
  BY <1>1, FS_Interval
<1>6. Cardinality(1..n) = Cardinality(S)
  <2> HIDE DEF n
  <2> QED
    BY <1>4, <1>5, FS_Surjection
<1>7. t \in Injection(1..n, S)
  <2> HIDE DEF n
  <2> QED
    BY <1>4, <1>5, <1>6, FS_SurjSameCardinalityImpliesInj
<1>8. \A i, j \in 1..n : t[i] = t[j] => i = j
  BY <1>1, <1>7 DEF Injection, IsInjective
<1>9. \A x, y \in S : rank[x] = rank[y] => x = y
  BY <1>1
<1> SUFFICES ASSUME NEW i \in 2..n PROVE rank[t[i - 1]] < rank[t[i]]
  OBVIOUS
<1>10. i \in 1..n /\ i - 1 \in 1..n /\ i - 1 < i /\ i - 1 # i
  BY <1>1
<1>11. rank[t[i - 1]] <= rank[t[i]]
  BY <1>10 DEF InOrderOf
<1>12. t[i] \in S /\ t[i - 1] \in S /\ t[i - 1] # t[i]
  BY <1>1, <1>8, <1>10
<1>13. rank[t[i - 1]] # rank[t[i]]
  BY <1>9, <1>12
<1> QED
  BY <1>2, <1>11, <1>12, <1>13

\* The pages of a list that can be paged add up to it.
LEMMA PagesAre ==
    ASSUME NEW L, NEW limit \in 1..MaxPageItems, NEW budget \in Nat, Pageable(L, budget),
           Len(L) <= MaxFileCount
    PROVE  /\ \A c \in 0..(Len(L) + 1) :
                 /\ PageFits(PageFrom(L, c, limit, budget), budget)
                 /\ ToSet(PageFrom(L, c, limit, budget).items) \subseteq ToSet(L)
                 /\ Ordered(L) => Ordered(PageFrom(L, c, limit, budget).items)
           /\ Collected([c \in 0..Len(L) |-> PageFrom(L, c, limit, budget)]) = L
<1>1. limit \in Nat \ {0}
  BY DEF MaxPageItems
<1>2. Collected([c \in 0..Len(L) |-> PageFrom(L, c, limit, budget)]) = L
  BY <1>1, PagesGather
<1> QED
  BY <1>2, PagesFit

\* The pages of the torrents are the torrents: engine.list.
LEMMA TorrentPagesAddUp ==
    ASSUME NEW items, IsListing("torrents", items), NEW limit \in 1..MaxPageItems
    PROVE  PagesAddUp("torrents", items, limit)
<1> DEFINE rank == [t \in ToSet(items) |-> t.key]
           L == Ranked(items, rank)
           B == MaxPageNameBytes
           n == Len(items)
<1>1. /\ AreItems(items) /\ n <= MaxFileCount
      /\ \A x \in ToSet(items) : x.key \in Int /\ x.bytes <= B /\ BoundedName(x)
      /\ \A i, j \in 1..n : items[i].key = items[j].key => i = j
  <2>1. /\ AreItems(items) /\ n <= MaxFileCount
        /\ \A x \in ToSet(items) : x.key \in Int /\ BoundedName(x)
        /\ \A i, j \in 1..n : items[i].key = items[j].key => i = j
    BY DEF IsListing
  <2>2. \A x : BoundedName(x) => x.bytes <= B
    BY DEF BoundedName, MaxNameBytes, MaxPageNameBytes
  <2> QED
    BY <2>1, <2>2
<1>2. \A x \in ToSet(items) : rank[x] = x.key /\ rank[x] \in Int
  BY <1>1
<1>3. items \in Seq(ToSet(items)) /\ n \in Nat /\ \A i \in 1..n : items[i] \in ToSet(items)
  BY <1>1, ItemBytes
<1> HIDE DEF rank
<1>4. L \in Seq(ToSet(items)) /\ Len(L) = n /\ ToSet(L) = ToSet(items) /\ InOrderOf(L, rank)
  BY <1>2, <1>3, RankedIsInOrder
<1>5. \A cursor : TorrentPage(items, cursor, limit) = PageFrom(L, cursor, limit, B)
  BY DEF TorrentPage, rank
<1> HIDE DEF L
<1>6. Pageable(L, B)
  BY <1>1, <1>4 DEF Pageable, AreItems, IsList
<1>7. B \in Nat
  BY DEF MaxPageNameBytes
<1>8. /\ \A c \in 0..(n + 1) :
            /\ PageFits(PageFrom(L, c, limit, B), B)
            /\ ToSet(PageFrom(L, c, limit, B).items) \subseteq ToSet(L)
            /\ Ordered(L) => Ordered(PageFrom(L, c, limit, B).items)
      /\ Collected([c \in 0..n |-> PageFrom(L, c, limit, B)]) = L
  <2> HIDE DEF B, n
  <2> QED
    BY <1>1, <1>4, <1>6, <1>7, PagesAre
<1>9. Ordered(L)
  <2>1. \A i \in 1..n : L[i] \in ToSet(items)
    BY <1>4
  <2>2. \A i, j \in 1..n : rank[items[i]] = rank[items[j]] => i = j
    BY <1>1, <1>2, <1>3
  <2>3. IsList(items) /\ IsList(L)
    BY <1>3, <1>4 DEF IsList
  <2>4. \A i \in 2..n : rank[L[i - 1]] < rank[L[i]]
    BY <1>2, <1>4, <2>2, <2>3, StrictlySorted
  <2>5. \A i \in 2..n : i \in 1..n /\ i - 1 \in 1..n
    BY <1>3
  <2> QED
    BY <1>2, <1>4, <2>1, <2>4, <2>5 DEF Ordered
<1>11. \A c \in 0..(n + 1) : PageAccepted("torrents", PageFrom(L, c, limit, B))
  <2> SUFFICES ASSUME NEW c \in 0..(n + 1)
               PROVE  PageAccepted("torrents", PageFrom(L, c, limit, B))
    OBVIOUS
  <2>1. \A x \in ToSet(PageFrom(L, c, limit, B).items) : BoundedName(x)
    BY <1>1, <1>4, <1>8
  <2> QED
    BY <1>8, <1>9, <2>1 DEF PageAccepted, ItemAccepted, PageBudget
<1> HIDE DEF B, n
<1>10. [c \in 0..n |-> TorrentPage(items, c, limit)] = [c \in 0..n |-> PageFrom(L, c, limit, B)]
  BY <1>5
<1> QED
  BY <1>4, <1>5, <1>8, <1>9, <1>10, <1>11 DEF PagesAddUp, B, n

\* The pages of a torrent's files are its files.
LEMMA FilePagesAddUp ==
    ASSUME NEW items, IsListing("files", items), NEW limit \in 1..MaxPageItems
    PROVE  PagesAddUp("files", items, limit)
<1> DEFINE B == MaxPagePathBytes
           n == Len(items)
<1>1. /\ AreItems(items) /\ n <= MaxFileCount /\ Ordered(items)
      /\ \A x \in ToSet(items) : x.bytes <= B /\ BoundedPath(x)
  <2>1. /\ AreItems(items) /\ n <= MaxFileCount /\ Ordered(items)
        /\ \A x \in ToSet(items) : BoundedPath(x)
    BY DEF IsListing
  <2>2. \A x : BoundedPath(x) => x.bytes <= B
    <3> SUFFICES ASSUME NEW x, BoundedPath(x) PROVE x.bytes <= B
      OBVIOUS
    <3>1. x.bytes \in 1..4096
      BY DEF BoundedPath, MaxPathBytes
    <3> DEFINE b == x.bytes
    <3>2. b \in 1..4096
      BY <3>1
    <3> HIDE DEF b
    <3>3. b <= MaxPagePathBytes
      BY <3>2 DEF MaxPagePathBytes
    <3> QED
      BY <3>3 DEF b
  <2> QED
    BY <2>1, <2>2
<1>2. \A cursor : FilePage(items, cursor, limit) = PageFrom(items, cursor, limit, B)
  BY DEF FilePage
<1>3. B \in Nat
  BY DEF MaxPagePathBytes
<1> HIDE DEF B, n
<1>4. /\ \A c \in 0..(n + 1) :
            /\ PageFits(PageFrom(items, c, limit, B), B)
            /\ ToSet(PageFrom(items, c, limit, B).items) \subseteq ToSet(items)
            /\ Ordered(PageFrom(items, c, limit, B).items)
      /\ Collected([c \in 0..n |-> PageFrom(items, c, limit, B)]) = items
  BY <1>1, <1>3, PagesAre DEF Pageable, n
<1>6. \A c \in 0..(n + 1) : PageAccepted("files", PageFrom(items, c, limit, B))
  <2> SUFFICES ASSUME NEW c \in 0..(n + 1)
               PROVE  PageAccepted("files", PageFrom(items, c, limit, B))
    OBVIOUS
  <2>1. \A x \in ToSet(PageFrom(items, c, limit, B).items) : BoundedPath(x)
    BY <1>1, <1>4
  <2> QED
    BY <1>4, <2>1 DEF PageAccepted, ItemAccepted, PageBudget, B
<1>5. [c \in 0..n |-> FilePage(items, c, limit)] = [c \in 0..n |-> PageFrom(items, c, limit, B)]
  BY <1>2
<1> QED
  BY <1>1, <1>2, <1>4, <1>5, <1>6 DEF PagesAddUp, B, n

\* A name that is cut keeps its item, and is one main accepts where each of its
\* characters is one byte.
LEMMA NameIsCut ==
    ASSUME NEW x, IsLegacyName(x)
    PROVE  /\ EntryName(x).key = x.key
           /\ EntryName(x).bytes \in 1..765
           /\ \/ BoundedName(EntryName(x))
              \/ EntryName(x).control
              \/ EntryName(x).bytes > EntryName(x).characters
<1>1. /\ x = [key |-> x.key, bytes |-> x.bytes, characters |-> x.characters,
              control |-> x.control, first |-> x.first]
      /\ x.characters \in Nat \ {0} /\ x.bytes \in x.characters..(3 * x.characters)
      /\ x.first.bytes \in 0..756
  BY DEF IsLegacyName, MaxNameBytes
<1>2. CASE x.characters <= MaxNameBytes
  <2>1. EntryName(x) = x /\ x.bytes \in 1..765
    BY <1>1, <1>2 DEF EntryName, MaxNameBytes
  <2> QED
    BY <1>1, <1>2, <2>1 DEF BoundedName, MaxNameBytes
<1>3. CASE ~ (x.characters <= MaxNameBytes)
  <2> DEFINE cut == [x EXCEPT !.characters = MaxNameBytes, !.bytes = x.first.bytes + 3,
                              !.control = x.first.control]
  <2>1. EntryName(x) = cut
    BY <1>3 DEF EntryName
  <2>2. /\ cut.key = x.key /\ cut.characters = MaxNameBytes
        /\ cut.bytes = x.first.bytes + 3
    BY <1>1
  <2> HIDE DEF cut
  <2>3. cut.bytes \in 1..765
    BY <1>1, <2>2
  <2>4. BoundedName(cut) \/ cut.control \/ cut.bytes > cut.characters
    BY <2>2, <2>3 DEF BoundedName, MaxNameBytes
  <2> QED
    BY <2>1, <2>2, <2>3, <2>4
<1> QED
  BY <1>2, <1>3

\* The pages of the former application's torrents are those torrents.
LEMMA LegacyPagesAddUp ==
    ASSUME NEW items, IsListing("legacy", items), NEW limit \in 1..MaxPageItems
    PROVE  PagesAddUp("legacy", items, limit)
<1> DEFINE B == MaxPageNameBytes
           n == Len(items)
           L == [i \in 1..n |-> EntryName(items[i])]
           Plain(x) == BoundedName(x) \/ x.control \/ x.bytes > x.characters
<1>1. /\ AreItems(items) /\ n <= MaxFileCount
      /\ \A x \in ToSet(items) : IsLegacyName(x)
  BY DEF IsListing
<1>2. n \in Nat /\ \A i \in 1..n : items[i] \in ToSet(items)
  BY <1>1, ItemBytes
<1>3. \A i \in 1..n : /\ L[i] = EntryName(items[i]) /\ L[i].key = items[i].key
                      /\ L[i].bytes \in 1..765 /\ Plain(L[i])
  BY <1>1, <1>2, NameIsCut
<1>4. \A cursor : LegacyPage(items, cursor, limit) = PageFrom(L, cursor, limit, B)
  BY DEF LegacyPage
<1>5. DOMAIN L = 1..n /\ L = [i \in 1..n |-> L[i]]
  OBVIOUS
<1> HIDE DEF L, Plain
<1>6. IsList(L) /\ Len(L) = n
  BY <1>2, <1>5, AList
<1>7. B \in Nat /\ 765 <= B
  BY DEF MaxPageNameBytes
<1>8. \A x \in ToSet(L) : x.bytes \in 1..765 /\ Plain(x)
  <2> TAKE x \in ToSet(L)
  <2>1. PICK i \in 1..n : x = L[i]
    BY <1>5 DEF ToSet
  <2> QED
    BY <1>3, <2>1
<1>9. Pageable(L, B)
  <2> HIDE DEF B
  <2>1. \A x \in ToSet(L) : x.bytes \in Nat /\ x.bytes <= B
    BY <1>7, <1>8
  <2> QED
    BY <1>6, <2>1 DEF Pageable, AreItems
<1>10. /\ \A c \in 0..(n + 1) :
             /\ PageFits(PageFrom(L, c, limit, B), B)
             /\ ToSet(PageFrom(L, c, limit, B).items) \subseteq ToSet(L)
       /\ Collected([c \in 0..n |-> PageFrom(L, c, limit, B)]) = L
  <2> HIDE DEF B
  <2> QED
    BY <1>1, <1>6, <1>7, <1>9, PagesAre
<1>11. [c \in 0..n |-> LegacyPage(items, c, limit)] = [c \in 0..n |-> PageFrom(L, c, limit, B)]
  BY <1>4
<1>12. {item.key : item \in ToSet(L)} = {item.key : item \in ToSet(items)}
  <2>1. DOMAIN items = 1..n
    BY <1>1, ItemBytes
  <2> QED
    BY <1>3, <1>5, <2>1 DEF ToSet
<1>13. \A c \in 0..(n + 1) :
          \/ PageAccepted("legacy", PageFrom(L, c, limit, B))
          \/ /\ PageFits(PageFrom(L, c, limit, B), PageBudget("legacy"))
             /\ \E item \in ToSet(PageFrom(L, c, limit, B).items) :
                   item.control \/ item.bytes > item.characters
  <2> SUFFICES ASSUME NEW c \in 0..(n + 1),
                      ~ \E item \in ToSet(PageFrom(L, c, limit, B).items) :
                           item.control \/ item.bytes > item.characters
               PROVE  PageAccepted("legacy", PageFrom(L, c, limit, B))
    BY <1>10 DEF PageBudget
  <2>1. \A x \in ToSet(PageFrom(L, c, limit, B).items) : BoundedName(x)
    BY <1>8, <1>10 DEF Plain
  <2> QED
    BY <1>10, <2>1 DEF PageAccepted, ItemAccepted, PageBudget
<1> HIDE DEF n, B
<1> QED
  BY <1>4, <1>6, <1>10, <1>11, <1>12, <1>13 DEF PagesAddUp, B, n

\* The pages of any listing are the listing.
LEMMA ListingsAddUp ==
    ASSUME NEW listing, NEW items, IsListing(listing, items), NEW limit \in 1..MaxPageItems
    PROVE  PagesAddUp(listing, items, limit)
<1>1. listing \in {"torrents", "files", "legacy"}
  BY DEF IsListing
<1> QED
  BY <1>1, TorrentPagesAddUp, FilePagesAddUp, LegacyPagesAddUp

(* ------------------------------- the readers -------------------------------- *)

\* A reader's input has its type, from the first state to the last.
InputInv == subject \in Readers => IsInput(subject, input)

\* The input a behaviour starts with has its type.
LEMMA InputsStart == Init => InputInv
<1> SUFFICES ASSUME Init, subject \in Readers PROVE IsInput(subject, input)
  BY DEF InputInv
<1>1. subject \notin Subjects
  BY ReadersAssumption
<1>2. subject \in DOMAIN Inputs /\ \E k \in DOMAIN Inputs[subject] : input \in Inputs[subject][k]
  BY <1>1 DEF Init
<1> QED
  BY <1>2, ReadersAssumption

\* The input of a behaviour never changes, so it keeps its type.
LEMMA InputsStay == Spec => []InputInv
<1>1. InputInv /\ [Next]_vars => InputInv'
  BY DEF InputInv, Next, vars
<1> QED
  BY <1>1, InputsStart, PTL DEF Spec

\* What comes from outside leads nowhere it may not: announces, answers,
\* datagrams, relayed descriptions and contacts, whoever sent them.
THEOREM OutsidersHold == Spec => []OutsidersAreConfined
<1>1. InputInv => OutsidersAreConfined
  <2> SUFFICES ASSUME InputInv PROVE OutsidersAreConfined
    OBVIOUS
  <2>1. CASE subject = "requests"
    <3>1. IsList(input.url.query)
      BY <2>1 DEF InputInv, IsInput, Readers
    <3> QED
      BY <2>1, <3>1, RequestsAskForThemselves DEF OutsidersAreConfined
  <2>2. CASE subject = "answers"
    <3>1. \A list \in input.peers : IsPeerList(list)
      BY <2>2 DEF InputInv, IsInput, Readers
    <3>2. \A private \in BOOLEAN : BelievesWithinBounds(input, private)
      BY <3>1, WireAssumption, AnswersAreWithinBounds
    <3> QED
      BY <2>2, <3>2 DEF OutsidersAreConfined
  <2>3. CASE subject = "datagrams"
    <3>1. \A r \in input.r : IsAnswer(r)
      BY <2>3 DEF InputInv, IsInput, Readers
    <3>2. MessageIsUsable(input)
      BY <3>1, DatagramsAreUsable
    <3> QED
      BY <2>3, <3>2 DEF OutsidersAreConfined
  <2>4. CASE subject = "frames"
    <3>1. \A e \in input.offer \cup input.answer : IsDescription(e)
      BY <2>4 DEF InputInv, IsInput, Readers
    <3>2. \A private \in BOOLEAN : DescriptionIsConfined(input, private)
      BY <3>1, FramesAssumption, DescriptionsAreConfined
    <3> QED
      BY <2>4, <3>2 DEF OutsidersAreConfined
  <2>5. CASE subject = "contacts"
    <3>1. IsList(input) /\ \A c \in ToSet(input) : c.address \in Seq(Nat)
      BY <2>5 DEF InputInv, IsInput, Readers, AreAddressed, IsAddress
    <3>2. LET handed == SanitizeContacts(input, MaxAcceptedPeers)
          IN  /\ Len(handed) <= MaxAcceptedPeers
              /\ \A i \in 1..Len(handed) : ~ SpecialPurpose(handed[i].address)
      BY <3>1, WireAssumption, ContactsAreReachable
    <3> QED
      BY <2>5, <3>2 DEF OutsidersAreConfined
  <2>6. CASE subject = "addresses"
    <3>1. input \in Seq(Nat) /\ IsIpv4(input)
      BY <2>6 DEF InputInv, IsInput, Readers, IsAddress
    <3>2. /\ IsPublicIpv4(input) <=> ~ SpecialPurpose(input)
          /\ IsPrivateNetworkIpv4(input) <=> PrivateUse(input)
      BY <3>1, RangesAreTheBlocks
    <3> QED
      BY <2>6, <3>2 DEF OutsidersAreConfined
  <2>7. CASE subject \notin {"requests", "answers", "datagrams", "frames", "contacts", "addresses"}
    BY <2>7 DEF OutsidersAreConfined
  <2> QED
    BY <2>1, <2>2, <2>3, <2>4, <2>5, <2>6, <2>7
<1> QED
  BY <1>1, InputsStay, PTL

\* A torrent file or a magnet that is let through can be stored, reached and
\* selected from: whatever its trees, tiers, parameters, digits or sizes.
THEOREM PreparedHold == Spec => []PreparedIsUsable
<1>1. InputInv => PreparedIsUsable
  <2> SUFFICES ASSUME InputInv PROVE PreparedIsUsable
    OBVIOUS
  <2>1. CASE subject = "torrents"
    <3>1. IsTorrentFile(input.root, input.info)
      BY <2>1 DEF InputInv, IsInput, Readers
    <3>2. MetadataIsUsable(input.root, input.info)
      BY <3>1, TorrentsAreUsable
    <3> QED
      BY <2>1, <3>2 DEF PreparedIsUsable
  <2>2. CASE subject = "magnets"
    <3>1. AreParameters(input.parameters)
      BY <2>2 DEF InputInv, IsInput, Readers
    <3>2. MagnetCanBeStaged(input.parameters, input.allowDht)
      BY <3>1, MagnetsCanBeStaged
    <3> QED
      BY <2>2, <3>2 DEF PreparedIsUsable
  <2>3. CASE subject = "topics"
    <3>1. IsTopic(input)
      BY <2>3 DEF InputInv, IsInput, Readers
    <3>2. BtihKeepsItsBits(input)
      BY <3>1, TopicsKeepTheirBits
    <3> QED
      BY <2>3, <3>2 DEF PreparedIsUsable
  <2>4. CASE subject = "pieces"
    <3>1. ArePlaced(input.files, input.geometry)
      BY <2>4 DEF InputInv, IsInput, Readers
    <3>2. RangesAreThePieces(input.files, input.selected, input.geometry)
      BY <3>1, PiecesAreOfTheSelection
    <3> QED
      BY <2>4, <3>2 DEF PreparedIsUsable
  <2>5. CASE subject \notin {"torrents", "magnets", "topics", "pieces"}
    BY <2>5 DEF PreparedIsUsable
  <2> QED
    BY <2>1, <2>2, <2>3, <2>4, <2>5
<1> QED
  BY <1>1, InputsStay, PTL

\* The torrent that is committed is the one that was prepared, whatever the
\* client and the preparation say of it.
THEOREM CommitsHold == Spec => []CommittedIsPrepared
<1>1. InputInv => CommittedIsPrepared
  <2> SUFFICES ASSUME InputInv, subject = "commits"
               PROVE  CommitKeepsTheSelection(input.observed, input.expected, input.reservation)
    BY DEF CommittedIsPrepared
  <2>1. IsFiles(input.observed.files) /\ IsFiles(input.expected.files)
    BY DEF InputInv, IsInput, Readers
  <2> QED
    BY <2>1, AnyCommitKeepsTheSelection
<1> QED
  BY <1>1, InputsStay, PTL

\* What the engine answers main accepts and understands, with the exceptions the
\* property names: listings of any length, counters of any value, any two commands
\* and any error.
THEOREM AnswersHold == Spec => []AnswersAreUnderstood
<1>1. InputInv => AnswersAreUnderstood
  <2> SUFFICES ASSUME InputInv PROVE AnswersAreUnderstood
    OBVIOUS
  <2>1. CASE subject = "pages"
    <3>1. IsListing(input.listing, input.items) /\ input.limit \in 1..MaxPageItems
      BY <2>1 DEF InputInv, IsInput, Readers
    <3>2. PagesAddUp(input.listing, input.items, input.limit)
      BY <3>1, ListingsAddUp
    <3> QED
      BY <2>1, <3>2 DEF AnswersAreUnderstood
  <2>2. CASE subject = "scans"
    <3>1. IsRaws(input)
      BY <2>2 DEF InputInv, IsInput, Readers
    <3> QED
      BY <2>2, <3>1, ScansOfferOnce DEF AnswersAreUnderstood
  <2>3. CASE subject = "summaries"
    <3>1. IsSession(input.session) /\ IsCounters(input.counters)
      BY <2>3 DEF InputInv, IsInput, Readers
    <3>2. SummaryIsAccepted(input.session, input.counters)
      BY <3>1, SummariesAreAccepted
    <3> QED
      BY <2>3, <3>2 DEF AnswersAreUnderstood
  <2>4. CASE subject = "operations"
    <3>1. input.asked.command \in Commands
      BY <2>4 DEF InputInv, IsInput, Readers
    <3>2. AnswerNamesItsSubject(input.asked, input.other)
      BY <3>1, AnswersNameTheirSubjects
    <3> QED
      BY <2>4, <3>2 DEF AnswersAreUnderstood
  <2>5. CASE subject = "failures"
    <3>1. input.error.from = "preparation" => input.error.code \in PreparationErrorCodes
      BY <2>5 DEF InputInv, IsInput, Readers
    <3>2. FailureIsTold(input.error, input.aborted)
      BY <3>1, FailuresAreTold
    <3> QED
      BY <2>5, <3>2 DEF AnswersAreUnderstood
  <2>6. CASE subject \notin {"pages", "scans", "summaries", "operations", "failures"}
    BY <2>6 DEF AnswersAreUnderstood
  <2> QED
    BY <2>1, <2>2, <2>3, <2>4, <2>5, <2>6
<1> QED
  BY <1>1, InputsStay, PTL

================================================================================
