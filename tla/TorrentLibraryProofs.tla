-------------------------- MODULE TorrentLibraryProofs --------------------------
(***************************************************************************)
(* Theorems about TorrentLibrary, for any number of torrents, commands in  *)
(* flight and exits of the engine, whatever fails.                         *)
(***************************************************************************)
EXTENDS TorrentLibrary, TLAPS

\* The reply changes what main records of h, unless it is dropped.
Changes(r, h) ==
    /\ r.request.hash = h
    /\ \/ r.request.by = "sweep" /\ r.code = "NOT_FOUND"
       \/ /\ r.request.by \in Callers /\ r.code = "ok"
          /\ r.request.cmd \in {"commit", "remove", "pause", "resume"}

Effect(r) == IF r.request.by = "sweep" \/ r.request.cmd = "remove" THEN "none"
             ELSE IF r.request.cmd = "resume" THEN "running" ELSE "paused"

\* With the records lib, v is what is recorded of h after the first n of the
\* replies seq.
After(lib, seq, n, h, v) ==
    \/ /\ lib[h] = v
       /\ \A i \in 1..n : ~Changes(seq[i], h)
    \/ \E i \in 1..n :
          /\ Changes(seq[i], h) /\ Effect(seq[i]) = v
          /\ \A j \in (i + 1)..n : ~Changes(seq[j], h)

\* What is recorded of h when the replies on their way have been read.
Will(h, v) == After(library, replies, Len(replies), h, v)

Underway == Entries(lane) \cup {r.request : r \in Entries(replies)}

Busy(h) == acted /\ Head(lane).hash = h

\* Only the sweep restores, and it does nothing else.
KindsHold ==
    \A q \in Underway : /\ q.by = "sweep" => q.cmd = "restore"
                        /\ q.cmd = "restore" => q.by \in {"sweep", None}

\* Nothing is left of a generation that has exited.
DownIsEmpty ==
    engine = "down" => /\ lane = <<>> /\ replies = <<>>
                       /\ session = [h \in Hashes |-> "none"]

\* The command that has changed its session is one that archives or unlinks.
ActedIsHalfway ==
    acted => /\ lane # <<>>
             /\ \/ Head(lane).cmd = "commit" /\ session[Head(lane).hash] = "paused"
                \/ Head(lane).cmd = "remove" /\ session[Head(lane).hash] = "none"

\* A torrent whose caller gave up is known as such.
HeardOf == \A q \in Underway : q.hash \notin unheard => q.by # None

\* A loaded torrent is archived, and once the replies have been read its record
\* is its session.
LoadedAgrees(h) ==
    session[h] # "none" /\ ~Busy(h) => h \in archive /\ Will(h, session[h])

Due(h, v) ==
    \/ todo[h] = v /\ v # "none"
    \/ \E q \in Entries(lane) : q.cmd = "restore" /\ q.hash = h /\ q.intent = v

\* A torrent that is about to be loaded again has the record it is loaded from.
DueAgrees(h) ==
    session[h] = "none" /\ h \in archive /\ ~Busy(h) =>
        \A v \in Intents : Due(h, v) => Will(h, v)

\* A pause or resume that succeeded finds a record.
PausedIsRecorded(h) ==
    \A i \in 1..Len(replies) :
        /\ replies[i].request.cmd \in {"pause", "resume"} /\ replies[i].code = "ok"
        /\ replies[i].request.hash = h
        => \E v \in {"paused", "running"} : After(library, replies, i - 1, h, v)

\* A command that adds h is in the engine, or its reply comes after the first n.
Adding(h, n) ==
    \/ \E q \in Entries(lane) : q.cmd = "commit" /\ q.hash = h
    \/ \E i \in (n + 1)..Len(replies) :
          replies[i].request.cmd = "commit" /\ replies[i].request.hash = h

\* A torrent whose removal is on its way to main, and that no later command
\* adds, is neither loaded nor archived.
RemovedIsOut(h) ==
    \A i \in 1..Len(replies) :
        /\ replies[i].request.cmd = "remove" /\ replies[i].code = "ok"
        /\ replies[i].request.hash = h /\ ~Adding(h, i)
        => session[h] = "none" /\ h \notin archive

\* A torrent whose removal was told is nowhere, and not being added.
GoneIsOut(h) ==
    h \in gone =>
        session[h] = "none" /\ library[h] = "none" /\ h \notin archive /\ ~Adding(h, 0)

\* A restore that found no bytes finds them only if they were archived after it.
MissingIsOut(h) ==
    \A i \in 1..Len(replies) :
        /\ replies[i].request.cmd = "restore" /\ replies[i].code = "NOT_FOUND"
        /\ replies[i].request.hash = h
        => \/ h \notin archive
           \/ \E j \in (i + 1)..Len(replies) :
                 /\ replies[j].request.cmd = "commit" /\ replies[j].request.hash = h
                 /\ replies[j].code = "ok"

\* Main, the archive and the engine are in step about h.
InStep(h) ==
    /\ LoadedAgrees(h) /\ DueAgrees(h) /\ PausedIsRecorded(h)
    /\ RemovedIsOut(h) /\ GoneIsOut(h) /\ MissingIsOut(h)

IInv ==
    /\ LibraryTypeOK /\ KindsHold /\ DownIsEmpty /\ ActedIsHalfway /\ HeardOf
    /\ \A h \in Hashes \ unheard : InStep(h)

USE LibraryAssumption

-----------------------------------------------------------------------------
(* What is recorded after some replies.                                    *)

\* A reply that comes after the first n changes nothing of what they record.
LEMMA AfterPrefix ==
    ASSUME NEW lib, NEW seq \in Seq(Results), NEW r \in Results, NEW n \in 0..Len(seq),
           NEW h, NEW v
    PROVE  After(lib, Append(seq, r), n, h, v) <=> After(lib, seq, n, h, v)
<1>1. \A i \in 1..n : Append(seq, r)[i] = seq[i]
  OBVIOUS
<1> QED
  BY <1>1 DEF After

\* A reply about something else leaves what is recorded.
LEMMA AfterOther ==
    ASSUME NEW lib, NEW seq \in Seq(Results), NEW r \in Results, NEW h, NEW v,
           ~Changes(r, h), After(lib, seq, Len(seq), h, v)
    PROVE  After(lib, Append(seq, r), Len(Append(seq, r)), h, v)
<1>1. /\ Len(Append(seq, r)) = Len(seq) + 1
      /\ Append(seq, r)[Len(seq) + 1] = r
      /\ \A i \in 1..Len(seq) : Append(seq, r)[i] = seq[i]
  OBVIOUS
<1> HIDE DEF Changes, Effect
<1> QED
  BY <1>1 DEF After

\* The last reply that changes a record decides it.
LEMMA AfterLast ==
    ASSUME NEW lib, NEW seq \in Seq(Results), NEW r \in Results, NEW h, Changes(r, h)
    PROVE  After(lib, Append(seq, r), Len(Append(seq, r)), h, Effect(r))
<1>1. /\ Len(Append(seq, r)) = Len(seq) + 1
      /\ Append(seq, r)[Len(seq) + 1] = r
  OBVIOUS
<1> QED
  BY <1>1 DEF After

\* Reading the first reply as it says leaves what the others will record.
LEMMA AfterRead ==
    ASSUME NEW lib, NEW new, NEW seq \in Seq(Results), seq # <<>>, NEW h, NEW v,
           new[h] = IF Changes(Head(seq), h) THEN Effect(Head(seq)) ELSE lib[h],
           NEW n \in 1..Len(seq), After(lib, seq, n, h, v)
    PROVE  After(new, Tail(seq), n - 1, h, v)
<1>1. /\ Len(Tail(seq)) = Len(seq) - 1
      /\ \A i \in 1..(n - 1) : Tail(seq)[i] = seq[i + 1]
      /\ Head(seq) = seq[1]
  OBVIOUS
<1> DEFINE kept(i) == \A j \in (i + 1)..n : ~Changes(seq[j], h)
<1>2. CASE \A i \in 1..n : ~Changes(seq[i], h)
  BY <1>1, <1>2 DEF After
<1>3. ASSUME NEW i \in 1..n, Changes(seq[i], h), Effect(seq[i]) = v, kept(i)
      PROVE  After(new, Tail(seq), n - 1, h, v)
  <2>1. \A j \in i..(n - 1) : ~Changes(Tail(seq)[j], h)
    BY <1>1, <1>3
  <2>2. CASE i = 1
    BY <1>1, <1>3, <2>1, <2>2 DEF After
  <2>3. CASE i > 1
    <3>1. i - 1 \in 1..(n - 1) /\ Tail(seq)[i - 1] = seq[i]
      BY <1>1, <2>3
    <3> QED
      BY <1>3, <2>1, <3>1 DEF After
  <2> QED
    BY <2>2, <2>3
<1> QED
  BY <1>2, <1>3 DEF After

\* Replies about other torrents do not matter.
LEMMA AfterSame ==
    ASSUME NEW lib, NEW seq \in Seq(Results), NEW new \in Seq(Results), NEW h, NEW v,
           NEW n \in 0..Len(seq), Len(new) = Len(seq),
           \A i \in 1..Len(seq) : new[i].request.hash = seq[i].request.hash,
           \A i \in 1..Len(seq) : seq[i].request.hash = h => new[i] = seq[i],
           After(lib, seq, n, h, v)
    PROVE  After(lib, new, n, h, v)
<1>1. \A i \in 1..n : /\ Changes(new[i], h) <=> Changes(seq[i], h)
                      /\ Changes(seq[i], h) => Effect(new[i]) = Effect(seq[i])
  BY DEF Changes
<1> HIDE DEF Changes, Effect
<1> QED
  BY <1>1 DEF After

-----------------------------------------------------------------------------
(* The engine answers the first command it has.                            *)

LEMMA HeadOfLane ==
    ASSUME LibraryTypeOK, lane # <<>>
    PROVE  /\ Head(lane) \in Requests /\ Head(lane) \in Entries(lane)
           /\ Head(lane).hash \in Hashes
<1>1. lane \in Seq(Requests) /\ Head(lane) \in Requests
  BY DEF LibraryTypeOK
<1>2. Head(lane) = lane[1] /\ 1 \in DOMAIN lane
  BY <1>1
<1> QED
  BY <1>1, <1>2 DEF Entries, Requests

LEMMA AnsweredType ==
    ASSUME LibraryTypeOK, lane # <<>>,
           NEW code \in {"ok", "NOT_FOUND", "ALREADY_EXISTS", "INTERNAL"}, Reply(code)
    PROVE  lane' \in Seq(Requests) /\ replies' \in Seq(Results) /\ acted' = FALSE
<1>1. lane \in Seq(Requests) /\ replies \in Seq(Results) /\ Head(lane) \in Requests
  BY DEF LibraryTypeOK
<1>2. [request |-> Head(lane), code |-> code] \in Results
  BY <1>1 DEF Results
<1> QED
  BY <1>1, <1>2 DEF Reply

\* What is in flight after a command was answered was in flight before.
LEMMA AnsweredUnderway ==
    ASSUME LibraryTypeOK, lane # <<>>, NEW code, Reply(code)
    PROVE  Underway' \subseteq Underway /\ Head(lane) \in Underway
<1>1. \A q \in Entries(lane') : q \in Entries(lane)
  BY DEF Entries, Reply, LibraryTypeOK
<1>2. \A x \in Entries(replies') : x \in Entries(replies) \/ x.request = Head(lane)
  BY DEF Entries, Reply, LibraryTypeOK
<1>3. Head(lane) \in Entries(lane)
  BY DEF Entries, LibraryTypeOK
<1> QED
  BY <1>1, <1>2, <1>3 DEF Underway

\* The parts that are not about one torrent.
LEMMA AnsweredInv ==
    ASSUME IInv, lane # <<>>, NEW code, Reply(code), engine' = engine,
           unheard \subseteq unheard'
    PROVE  KindsHold' /\ DownIsEmpty' /\ ActedIsHalfway' /\ HeardOf'
<1>1. Underway' \subseteq Underway
  BY AnsweredUnderway DEF IInv
<1>2. KindsHold' /\ HeardOf'
  BY <1>1 DEF IInv, KindsHold, HeardOf
<1>3. engine # "down" /\ ~acted'
  BY DEF IInv, DownIsEmpty, Reply
<1> QED
  BY <1>2, <1>3 DEF DownIsEmpty, ActedIsHalfway

\* The replies and the commands after the answer.
LEMMA AnsweredQueues ==
    ASSUME LibraryTypeOK, lane # <<>>,
           NEW code \in {"ok", "NOT_FOUND", "ALREADY_EXISTS", "INTERNAL"}, Reply(code)
    PROVE  /\ Len(replies') = Len(replies) + 1
           /\ \A i \in 1..Len(replies) : replies'[i] = replies[i]
           /\ replies'[Len(replies) + 1] = [request |-> Head(lane), code |-> code]
           /\ [request |-> Head(lane), code |-> code] \in Results
           /\ \A q \in Entries(lane') : q \in Entries(lane)
           /\ Head(lane) \in Entries(lane)
           /\ \A q \in Entries(lane) : q \in Entries(lane') \/ q = Head(lane)
           /\ Head(lane) \in Requests
<1>1. /\ lane \in Seq(Requests) /\ replies \in Seq(Results)
      /\ Head(lane) \in Requests
  BY DEF LibraryTypeOK
<1>2. [request |-> Head(lane), code |-> code] \in Results
  BY <1>1 DEF Results
<1>3. \A q \in Entries(lane') : q \in Entries(lane)
  BY <1>1 DEF Entries, Reply
<1>4. \A q \in Entries(lane) : q \in Entries(lane') \/ q = Head(lane)
  <2> SUFFICES ASSUME NEW i \in 1..Len(lane), i # 1
               PROVE  lane[i] \in Entries(lane')
      BY <1>1 DEF Entries
  <2>1. lane'[i - 1] = lane[i] /\ i - 1 \in DOMAIN lane'
    BY <1>1 DEF Reply
  <2> QED
    BY <2>1 DEF Entries
<1>5. Head(lane) \in Entries(lane)
  BY <1>1 DEF Entries
<1> QED
  BY <1>1, <1>2, <1>3, <1>4, <1>5 DEF Reply

\* A torrent is added after the answer if it was before.
LEMMA AnsweredAdding ==
    ASSUME LibraryTypeOK, lane # <<>>,
           NEW code \in {"ok", "NOT_FOUND", "ALREADY_EXISTS", "INTERNAL"}, Reply(code),
           NEW h, NEW n \in 0..Len(replies)
    PROVE  Adding(h, n)' <=> Adding(h, n)
<1>1. CASE Adding(h, n)
  BY <1>1, AnsweredQueues DEF Adding
<1>2. CASE Adding(h, n)'
  BY <1>2, AnsweredQueues DEF Adding
<1> QED
  BY <1>1, <1>2

\* An answer that changes nothing of h keeps it in step.
LEMMA UntouchedInStep ==
    ASSUME IInv, lane # <<>>,
           NEW code \in {"ok", "NOT_FOUND", "ALREADY_EXISTS", "INTERNAL"}, Reply(code),
           NEW h \in Hashes \ unheard,
           Head(lane).hash = h =>
               /\ ~acted /\ code # "ok"
               /\ ~(code = "NOT_FOUND" /\ Head(lane).cmd = "restore"),
           session'[h] = session[h], h \in archive' <=> h \in archive,
           UNCHANGED <<library, todo, gone>>
    PROVE  InStep(h)'
<1> DEFINE r == [request |-> Head(lane), code |-> code]
<1>1. /\ Len(replies') = Len(replies) + 1
      /\ \A i \in 1..Len(replies) : replies'[i] = replies[i]
      /\ replies'[Len(replies) + 1] = r
      /\ r \in Results
      /\ \A q \in Entries(lane') : q \in Entries(lane)
      /\ replies \in Seq(Results) /\ replies' = Append(replies, r)
  BY AnsweredQueues DEF IInv, LibraryTypeOK, Reply
<1>2. ~Changes(r, h)
  BY AnsweredUnderway DEF Changes, IInv, KindsHold
<1> HIDE DEF r
<1>3. ~Busy(h) /\ ~Busy(h)' /\ InStep(h)
  BY DEF Busy, IInv, Reply
<1>4. \A v : Will(h, v) => Will(h, v)'
  BY <1>1, <1>2, AfterOther DEF Will
<1>5. \A n \in 0..Len(replies) : Adding(h, n)' <=> Adding(h, n)
  BY AnsweredAdding DEF IInv
<1>6. LoadedAgrees(h)'
  BY <1>3, <1>4 DEF InStep, LoadedAgrees
<1>7. DueAgrees(h)'
  <2>1. \A v : Due(h, v)' => Due(h, v)
    BY <1>1 DEF Due
  <2> QED
    BY <1>3, <1>4, <2>1 DEF InStep, DueAgrees
<1>8. PausedIsRecorded(h)'
  <2> SUFFICES ASSUME NEW i \in 1..Len(replies'),
                      replies'[i].request.cmd \in {"pause", "resume"},
                      replies'[i].code = "ok", replies'[i].request.hash = h
               PROVE  \E v \in {"paused", "running"} : After(library', replies', i - 1, h, v)
      BY DEF PausedIsRecorded
  <2>1. i \in 1..Len(replies)
    BY <1>1 DEF r
  <2>2. PICK v \in {"paused", "running"} : After(library, replies, i - 1, h, v)
    BY <1>1, <1>3, <2>1 DEF InStep, PausedIsRecorded
  <2> QED
    BY <1>1, <2>1, <2>2, AfterPrefix
<1>9. RemovedIsOut(h)'
  BY <1>1, <1>3, <1>5 DEF InStep, RemovedIsOut, r
<1>10. GoneIsOut(h)'
  BY <1>3, <1>5 DEF InStep, GoneIsOut
<1>11. MissingIsOut(h)'
  BY <1>1, <1>3 DEF InStep, MissingIsOut, r
<1> QED
  BY <1>6, <1>7, <1>8, <1>9, <1>10, <1>11 DEF InStep

-----------------------------------------------------------------------------
(* What the engine does.                                                   *)

LEMMA RefuseInv ==
    ASSUME IInv, NEW cmd \in Commands, NEW code \in {"NOT_FOUND", "ALREADY_EXISTS", "INTERNAL"},
           code = "NOT_FOUND" => cmd # "restore", Refuse(cmd, code)
    PROVE  IInv'
<1>1. lane # <<>> /\ ~acted /\ Reply(code) /\ Head(lane).cmd = cmd
  BY DEF Refuse, Running
<1>2. LibraryTypeOK'
  BY <1>1, AnsweredType DEF IInv, LibraryTypeOK, Refuse, durable, history
<1>3. KindsHold' /\ DownIsEmpty' /\ ActedIsHalfway' /\ HeardOf'
  BY <1>1, AnsweredInv DEF Refuse, history
<1>4. \A h \in Hashes \ unheard' : InStep(h)'
  BY <1>1, UntouchedInStep DEF Refuse, durable, history
<1> QED
  BY <1>2, <1>3, <1>4 DEF IInv

\* The session of one torrent changes, and the rest of the command is to come.
LEMMA HalfwayInv ==
    ASSUME IInv, NEW cmd \in {"commit", "remove"}, Running(cmd), ~acted, acted' = TRUE,
           session[Hash] = (IF cmd = "commit" THEN "none" ELSE session[Hash]),
           Become(IF cmd = "commit" THEN "paused" ELSE "none"),
           UNCHANGED <<durable, lane, replies, todo, engine, crashes, history>>
    PROVE  IInv'
<1>1. LibraryTypeOK'
  BY DEF IInv, LibraryTypeOK, Intents, Become, durable, history
<1>2. KindsHold' /\ HeardOf'
  BY DEF IInv, KindsHold, HeardOf, Underway, history
<1>3. /\ lane # <<>> /\ Head(lane) \in Entries(lane) /\ Head(lane) \in Requests
      /\ Head(lane).cmd = cmd /\ Hash \in Hashes
  BY HeadOfLane DEF Running, IInv, Hash
<1>4. DownIsEmpty' /\ ActedIsHalfway'
  BY <1>3 DEF IInv, LibraryTypeOK, DownIsEmpty, ActedIsHalfway, Become, Hash
<1>5. ASSUME NEW h \in Hashes \ unheard' PROVE InStep(h)'
  <2>1. InStep(h) /\ ~Busy(h) /\ (Busy(h)' <=> h = Hash)
    BY DEF IInv, history, Busy, Hash
  <2>2. h # Hash => session'[h] = session[h]
    BY DEF Become, IInv, LibraryTypeOK
  <2>3. \A n : Adding(h, n)' <=> Adding(h, n)
    BY DEF Adding
  <2>4. \A v : (Will(h, v)' <=> Will(h, v)) /\ (Due(h, v)' <=> Due(h, v))
    BY DEF Will, Due, durable
  <2>5. LoadedAgrees(h)' /\ DueAgrees(h)'
    BY <2>1, <2>2, <2>4 DEF InStep, LoadedAgrees, DueAgrees, durable
  <2>6. PausedIsRecorded(h)' /\ MissingIsOut(h)'
    BY <2>1 DEF InStep, PausedIsRecorded, MissingIsOut, durable
  <2>7. h = Hash => session'[h] = "none" \/ \A n : Adding(h, n)
    BY <1>3 DEF Adding, Become, IInv, LibraryTypeOK, Hash
  <2>8. RemovedIsOut(h)' /\ GoneIsOut(h)'
    BY <2>1, <2>2, <2>3, <2>7 DEF InStep, RemovedIsOut, GoneIsOut, durable, history
  <2> QED
    BY <2>5, <2>6, <2>8 DEF InStep
<1> QED
  BY <1>1, <1>2, <1>4, <1>5 DEF IInv

\* The last part of a command that adds or removes a torrent.
LEMMA CommitArchivesInv == IInv /\ CommitArchives => IInv'
<1> SUFFICES ASSUME IInv, CommitArchives PROVE IInv'
    OBVIOUS
<1> DEFINE r == [request |-> Head(lane), code |-> "ok"]
<1>1. lane # <<>> /\ acted /\ Reply("ok") /\ Head(lane).cmd = "commit"
  BY DEF CommitArchives, Running
<1>2. /\ Len(replies') = Len(replies) + 1
      /\ \A i \in 1..Len(replies) : replies'[i] = replies[i]
      /\ replies'[Len(replies) + 1] = r
      /\ r \in Results /\ Head(lane) \in Requests
      /\ Head(lane) \in Entries(lane)
      /\ \A q \in Entries(lane') : q \in Entries(lane)
      /\ replies \in Seq(Results) /\ replies' = Append(replies, r)
  BY <1>1, AnsweredQueues DEF IInv, LibraryTypeOK, Reply
<1>3. Hash \in Hashes /\ unheard \subseteq unheard'
  BY <1>2 DEF CommitArchives, Hash, Requests
<1>4. LibraryTypeOK'
  BY <1>1, <1>3, AnsweredType DEF IInv, LibraryTypeOK, CommitArchives
<1>5. KindsHold' /\ DownIsEmpty' /\ ActedIsHalfway' /\ HeardOf'
  BY <1>1, <1>3, AnsweredInv DEF CommitArchives
<1>6. ASSUME NEW h \in Hashes \ unheard', h # Hash PROVE InStep(h)'
  BY <1>1, <1>3, <1>6, UntouchedInStep DEF CommitArchives, Hash
<1>7. ASSUME NEW h \in Hashes \ unheard', h = Hash PROVE InStep(h)'
  <2>1. Changes(r, h) /\ Effect(r) = "paused"
    <3>1. r.request.by \in Callers
      BY <1>1, <1>2, <1>3, <1>7 DEF IInv, KindsHold, HeardOf, Underway, Requests, Hash
    <3> QED
      BY <1>1, <1>7, <3>1 DEF Changes, Effect, Hash
  <2>2. InStep(h) /\ session[h] = "paused" /\ session' = session
    BY <1>1, <1>3, <1>7 DEF IInv, ActedIsHalfway, Hash, CommitArchives
  <2>3. h \in archive' /\ UNCHANGED <<library, todo, gone>>
    BY <1>7, <1>3 DEF CommitArchives
  <2>4. \A n \in 0..Len(replies) : Adding(h, n) /\ Adding(h, n)'
    BY <1>1, <1>2, <1>7, AnsweredAdding DEF IInv, Adding, Hash
  <2>5. LoadedAgrees(h)' /\ DueAgrees(h)'
    BY <1>2, <2>1, <2>2, <2>3, AfterLast DEF LoadedAgrees, DueAgrees, Will
  <2>6. PausedIsRecorded(h)'
    BY <1>1, <1>2, <2>2, <2>3, AfterPrefix DEF InStep, PausedIsRecorded
  <2>7. RemovedIsOut(h)'
    BY <1>1, <1>2, <2>4 DEF RemovedIsOut
  <2>8. GoneIsOut(h)'
    BY <2>2, <2>3, <2>4 DEF InStep, GoneIsOut
  <2>9. MissingIsOut(h)'
    BY <1>1, <1>2, <1>7 DEF MissingIsOut, Hash
  <2> QED
    BY <2>5, <2>6, <2>7, <2>8, <2>9 DEF InStep
<1> QED
  BY <1>4, <1>5, <1>6, <1>7 DEF IInv

LEMMA RemoveArchiveInv == IInv /\ RemoveArchive => IInv'
<1> SUFFICES ASSUME IInv, RemoveArchive PROVE IInv'
    OBVIOUS
<1> DEFINE r == [request |-> Head(lane), code |-> "ok"]
<1>1. /\ lane # <<>> /\ Reply("ok") /\ Head(lane).cmd = "remove"
      /\ acted' = FALSE
  BY DEF RemoveArchive, Running, Reply
<1>2. /\ Len(replies') = Len(replies) + 1
      /\ \A i \in 1..Len(replies) : replies'[i] = replies[i]
      /\ replies'[Len(replies) + 1] = r
      /\ r \in Results /\ Head(lane) \in Requests
      /\ Head(lane) \in Entries(lane)
      /\ \A q \in Entries(lane') : q \in Entries(lane)
      /\ replies \in Seq(Results) /\ replies' = Append(replies, r)
  BY <1>1, AnsweredQueues DEF IInv, LibraryTypeOK, Reply
<1>3. Hash \in Hashes /\ unheard \subseteq unheard' /\ UNCHANGED <<library, todo, gone>>
  BY <1>2 DEF RemoveArchive, Hash, Requests, durable, history
<1>4. LibraryTypeOK'
  BY <1>1, <1>2, <1>3, AnsweredType DEF IInv, LibraryTypeOK, RemoveArchive, Requests, Become, Hash, durable, history
<1>5. KindsHold' /\ DownIsEmpty' /\ ActedIsHalfway' /\ HeardOf'
  BY <1>1, <1>3, AnsweredInv DEF RemoveArchive, durable, history
<1>6. ASSUME NEW h \in Hashes \ unheard', h # Hash PROVE InStep(h)'
  <2>1. session'[h] = session[h] /\ (h \in archive' <=> h \in archive)
    BY <1>6 DEF RemoveArchive, Become, IInv, LibraryTypeOK, durable
  <2> QED
    BY <1>1, <1>3, <1>6, <2>1, UntouchedInStep DEF Hash
<1>7. ASSUME NEW h \in Hashes \ unheard', h = Hash PROVE InStep(h)'
  <2>1. InStep(h) /\ session'[h] = "none" /\ h \notin archive'
    BY <1>1, <1>3, <1>7 DEF IInv, ActedIsHalfway, Hash, RemoveArchive
  <2>2. \A n \in 0..Len(replies) : Adding(h, n)' <=> Adding(h, n)
    BY <1>1, AnsweredAdding DEF IInv
  <2>3. LoadedAgrees(h)' /\ DueAgrees(h)'
    BY <2>1 DEF LoadedAgrees, DueAgrees
  <2>4. PausedIsRecorded(h)'
    BY <1>1, <1>2, <1>3, <2>1, AfterPrefix DEF InStep, PausedIsRecorded
  <2>5. RemovedIsOut(h)' /\ MissingIsOut(h)'
    BY <2>1 DEF RemovedIsOut, MissingIsOut
  <2>6. GoneIsOut(h)'
    BY <1>3, <2>1, <2>2 DEF InStep, GoneIsOut
  <2> QED
    BY <2>3, <2>4, <2>5, <2>6 DEF InStep
<1> QED
  BY <1>4, <1>5, <1>6, <1>7 DEF IInv

LEMMA RestoreInv == IInv /\ Restore => IInv'
<1> SUFFICES ASSUME IInv, Restore PROVE IInv'
    OBVIOUS
<1> DEFINE r == [request |-> Head(lane), code |-> "ok"]
<1>1. /\ lane # <<>> /\ Reply("ok") /\ Head(lane).cmd = "restore"
      /\ acted' = FALSE
  BY DEF Restore, Running, Reply
<1>2. /\ Len(replies') = Len(replies) + 1
      /\ \A i \in 1..Len(replies) : replies'[i] = replies[i]
      /\ replies'[Len(replies) + 1] = r
      /\ r \in Results /\ Head(lane) \in Requests
      /\ Head(lane) \in Entries(lane)
      /\ \A q \in Entries(lane') : q \in Entries(lane)
      /\ replies \in Seq(Results) /\ replies' = Append(replies, r)
  BY <1>1, AnsweredQueues DEF IInv, LibraryTypeOK, Reply
<1>3. Hash \in Hashes /\ unheard \subseteq unheard' /\ UNCHANGED <<library, todo, gone>>
  BY <1>2 DEF Restore, Hash, Requests, durable, history
<1>4. LibraryTypeOK'
  BY <1>1, <1>2, <1>3, AnsweredType DEF IInv, LibraryTypeOK, Restore, Requests, Become, Hash, durable, history
<1>5. KindsHold' /\ DownIsEmpty' /\ ActedIsHalfway' /\ HeardOf'
  BY <1>1, <1>3, AnsweredInv DEF Restore, durable, history
<1>6. ASSUME NEW h \in Hashes \ unheard', h # Hash PROVE InStep(h)'
  <2>1. session'[h] = session[h] /\ (h \in archive' <=> h \in archive)
    BY <1>6 DEF Restore, Become, IInv, LibraryTypeOK, durable
  <2> QED
    BY <1>1, <1>3, <1>6, <2>1, UntouchedInStep DEF Hash
<1>7. ASSUME NEW h \in Hashes \ unheard', h = Hash PROVE InStep(h)'
  <2>1. /\ InStep(h) /\ ~Busy(h) /\ session[h] = "none" /\ h \in archive
        /\ session'[h] = Head(lane).intent /\ archive' = archive
    BY <1>1, <1>3, <1>7 DEF IInv, LibraryTypeOK, ActedIsHalfway, Hash, Restore, Become, Busy,
                            durable, history
  <2>2. ~Changes(r, h)
    BY <1>1 DEF Changes, IInv, KindsHold, Underway
  <2>3. \A v : Will(h, v) => Will(h, v)'
    BY <1>2, <1>3, <2>2, AfterOther DEF Will
  <2>4. \A v : Due(h, v)' => Due(h, v)
    BY <1>2, <1>3 DEF Due
  <2>5. Due(h, Head(lane).intent) /\ Head(lane).intent \in Intents
    BY <1>1, <1>2, <1>7 DEF Due, Hash, Requests
  <2>6. LoadedAgrees(h)' /\ DueAgrees(h)'
    BY <2>1, <2>3, <2>4, <2>5 DEF InStep, LoadedAgrees, DueAgrees
  <2>7. PausedIsRecorded(h)'
    BY <1>1, <1>2, <1>3, <2>1, AfterPrefix DEF InStep, PausedIsRecorded
  <2>8. \A n \in 0..Len(replies) : Adding(h, n)' <=> Adding(h, n)
    BY <1>1, AnsweredAdding DEF IInv
  <2>9. RemovedIsOut(h)'
    BY <1>1, <1>2, <2>1, <2>8 DEF InStep, RemovedIsOut
  <2>10. GoneIsOut(h)' /\ MissingIsOut(h)'
    BY <1>2, <1>3, <2>1 DEF InStep, GoneIsOut, MissingIsOut
  <2> QED
    BY <2>6, <2>7, <2>9, <2>10 DEF InStep
<1> QED
  BY <1>4, <1>5, <1>6, <1>7 DEF IInv

LEMMA RestoreMissingInv == IInv /\ RestoreMissing => IInv'
<1> SUFFICES ASSUME IInv, RestoreMissing PROVE IInv'
    OBVIOUS
<1> DEFINE r == [request |-> Head(lane), code |-> "NOT_FOUND"]
<1>1. /\ lane # <<>> /\ Reply("NOT_FOUND") /\ Head(lane).cmd = "restore"
      /\ acted' = FALSE
  BY DEF RestoreMissing, Running, Reply
<1>2. /\ Len(replies') = Len(replies) + 1
      /\ \A i \in 1..Len(replies) : replies'[i] = replies[i]
      /\ replies'[Len(replies) + 1] = r
      /\ r \in Results /\ Head(lane) \in Requests
      /\ Head(lane) \in Entries(lane)
      /\ \A q \in Entries(lane') : q \in Entries(lane)
      /\ replies \in Seq(Results) /\ replies' = Append(replies, r)
  BY <1>1, AnsweredQueues DEF IInv, LibraryTypeOK, Reply
<1>3. Hash \in Hashes /\ unheard \subseteq unheard' /\ UNCHANGED <<library, todo, gone>>
  BY <1>2 DEF RestoreMissing, Hash, Requests, durable, history
<1>4. LibraryTypeOK'
  BY <1>1, <1>2, <1>3, AnsweredType DEF IInv, LibraryTypeOK, RestoreMissing, Requests, Become, Hash, durable, history
<1>5. KindsHold' /\ DownIsEmpty' /\ ActedIsHalfway' /\ HeardOf'
  BY <1>1, <1>3, AnsweredInv DEF RestoreMissing, durable, history
<1>6. ASSUME NEW h \in Hashes \ unheard', h # Hash PROVE InStep(h)'
  <2>1. session'[h] = session[h] /\ (h \in archive' <=> h \in archive)
    BY <1>6 DEF RestoreMissing, Become, IInv, LibraryTypeOK, durable
  <2> QED
    BY <1>1, <1>3, <1>6, <2>1, UntouchedInStep DEF Hash
<1>7. ASSUME NEW h \in Hashes \ unheard', h = Hash PROVE InStep(h)'
  <2>1. h \notin archive /\ ~Busy(h) /\ archive' = archive /\ session' = session
    BY <1>7 DEF RestoreMissing, Hash, Busy, durable
  <2>2. InStep(h) /\ session[h] = "none"
    BY <1>3, <1>7, <2>1 DEF IInv, InStep, LoadedAgrees
  <2>3. LoadedAgrees(h)' /\ DueAgrees(h)'
    BY <2>1, <2>2 DEF LoadedAgrees, DueAgrees
  <2>4. PausedIsRecorded(h)'
    BY <1>1, <1>2, <1>3, <2>2, AfterPrefix DEF InStep, PausedIsRecorded
  <2>5. \A n \in 0..Len(replies) : Adding(h, n)' <=> Adding(h, n)
    BY <1>1, AnsweredAdding DEF IInv
  <2>6. RemovedIsOut(h)' /\ MissingIsOut(h)'
    BY <2>1, <2>2 DEF RemovedIsOut, MissingIsOut
  <2>7. GoneIsOut(h)'
    BY <1>3, <2>1, <2>2, <2>5 DEF InStep, GoneIsOut
  <2> QED
    BY <2>3, <2>4, <2>6, <2>7 DEF InStep
<1> QED
  BY <1>4, <1>5, <1>6, <1>7 DEF IInv

LEMMA SetPausedInv ==
    ASSUME IInv, NEW cmd \in {"pause", "resume"}, SetPaused(cmd)
    PROVE  IInv'
<1> DEFINE r == [request |-> Head(lane), code |-> "ok"]
<1>1. /\ lane # <<>> /\ Reply("ok") /\ Head(lane).cmd = cmd
      /\ acted' = FALSE
  BY DEF SetPaused, Running, Reply
<1>2. /\ Len(replies') = Len(replies) + 1
      /\ \A i \in 1..Len(replies) : replies'[i] = replies[i]
      /\ replies'[Len(replies) + 1] = r
      /\ r \in Results /\ Head(lane) \in Requests
      /\ Head(lane) \in Entries(lane)
      /\ \A q \in Entries(lane') : q \in Entries(lane)
      /\ replies \in Seq(Results) /\ replies' = Append(replies, r)
  BY <1>1, AnsweredQueues DEF IInv, LibraryTypeOK, Reply
<1>3. Hash \in Hashes /\ unheard \subseteq unheard' /\ UNCHANGED <<library, todo, gone>>
  BY <1>2 DEF SetPaused, Hash, Requests, durable, history
<1>4. LibraryTypeOK'
  BY <1>1, <1>2, <1>3, AnsweredType DEF IInv, LibraryTypeOK, Intents, SetPaused, Requests, Become, Hash, durable, history
<1>5. KindsHold' /\ DownIsEmpty' /\ ActedIsHalfway' /\ HeardOf'
  BY <1>1, <1>3, AnsweredInv DEF SetPaused, durable, history
<1>6. ASSUME NEW h \in Hashes \ unheard', h # Hash PROVE InStep(h)'
  <2>1. session'[h] = session[h] /\ (h \in archive' <=> h \in archive)
    BY <1>6 DEF SetPaused, Become, IInv, LibraryTypeOK, durable
  <2> QED
    BY <1>1, <1>3, <1>6, <2>1, UntouchedInStep DEF Hash
<1>7. ASSUME NEW h \in Hashes \ unheard', h = Hash PROVE InStep(h)'
  <2>1. /\ InStep(h) /\ ~Busy(h) /\ session[h] \in {"paused", "running"}
        /\ session'[h] = (IF cmd = "pause" THEN "paused" ELSE "running")
        /\ archive' = archive
    BY <1>1, <1>3, <1>7 DEF IInv, LibraryTypeOK, Intents, ActedIsHalfway, Hash, SetPaused, Become,
                            Busy, durable, history
  <2>2. Changes(r, h) /\ session'[h] = Effect(r)
    <3>1. r.request.by \in Callers
      BY <1>1, <1>2, <1>3, <1>7 DEF IInv, KindsHold, HeardOf, Underway, Requests, Hash
    <3> QED
      BY <1>1, <1>7, <2>1, <3>1 DEF Changes, Effect, Hash
  <2>3. h \in archive /\ Will(h, session[h])
    BY <2>1 DEF InStep, LoadedAgrees
  <2>4. LoadedAgrees(h)' /\ DueAgrees(h)'
    <3>1. Will(h, session[h])'
      BY <1>2, <2>2, AfterLast DEF Will
    <3> QED
      BY <2>1, <2>3, <3>1 DEF LoadedAgrees, DueAgrees
  <2>5. PausedIsRecorded(h)'
    <3>1. ASSUME NEW i \in 1..Len(replies),
                 replies'[i].request.cmd \in {"pause", "resume"},
                 replies'[i].code = "ok", replies'[i].request.hash = h
          PROVE  \E v \in {"paused", "running"} : After(library', replies', i - 1, h, v)
      BY <1>2, <1>3, <2>1, <3>1, AfterPrefix DEF InStep, PausedIsRecorded
    <3>2. After(library', replies', Len(replies), h, session[h])
      BY <1>2, <1>3, <2>3, AfterPrefix DEF Will
    <3> QED
      BY <1>2, <2>1, <3>1, <3>2 DEF PausedIsRecorded
  <2>6. \A n \in 0..Len(replies) : Adding(h, n)' <=> Adding(h, n)
    BY <1>1, AnsweredAdding DEF IInv
  <2>7. RemovedIsOut(h)'
    BY <1>1, <1>2, <2>1, <2>6 DEF InStep, RemovedIsOut
  <2>8. GoneIsOut(h)' /\ MissingIsOut(h)'
    BY <1>1, <1>2, <1>3, <2>1 DEF InStep, GoneIsOut, MissingIsOut
  <2> QED
    BY <2>4, <2>5, <2>7, <2>8 DEF InStep
<1> QED
  BY <1>4, <1>5, <1>6, <1>7 DEF IInv

LEMMA RestoreFailsInv == IInv /\ RestoreFails => IInv'
<1> SUFFICES ASSUME IInv, RestoreFails PROVE IInv'
    OBVIOUS
<1>1. lane # <<>> /\ ~acted /\ Reply("INTERNAL")
  BY DEF RestoreFails, Running
<1>2. LibraryTypeOK'
  BY <1>1, AnsweredType, HeadOfLane DEF IInv, LibraryTypeOK, RestoreFails, durable, Hash
<1>3. KindsHold' /\ DownIsEmpty' /\ ActedIsHalfway' /\ HeardOf'
  BY <1>1, AnsweredInv DEF RestoreFails
<1>4. \A h \in Hashes \ unheard' : InStep(h)'
  BY <1>1, UntouchedInStep DEF RestoreFails, durable
<1> QED
  BY <1>2, <1>3, <1>4 DEF IInv

LEMMA EngineStepInv == IInv /\ EngineStep => IInv'
<1> SUFFICES ASSUME IInv, EngineStep PROVE IInv'
    OBVIOUS
<1>1. CASE CommitAdds
  BY <1>1, HalfwayInv DEF CommitAdds, Hash
<1>2. CASE RemoveSession
  BY <1>2, HalfwayInv DEF RemoveSession, Hash
<1>3. CASE CommitDuplicate \/ RestoreDuplicate
  BY <1>3, RefuseInv DEF CommitDuplicate, RestoreDuplicate, Commands
<1>4. ASSUME NEW cmd \in Commands, Fails(cmd) \/ GivenUp(cmd) PROVE IInv'
  BY <1>4, RefuseInv DEF Fails, GivenUp
<1>5. ASSUME NEW cmd \in {"pause", "resume", "remove"}, Missing(cmd) PROVE IInv'
  BY <1>5, RefuseInv DEF Missing, Commands
<1> QED
  BY <1>1, <1>2, <1>3, <1>4, <1>5, CommitArchivesInv, RemoveArchiveInv, RestoreInv,
     RestoreMissingInv, RestoreFailsInv, SetPausedInv DEF EngineStep

-----------------------------------------------------------------------------
(* What main does.                                                         *)

\* The command at the end of the lane does not disturb the one that runs.
LEMMA SentQueue ==
    ASSUME LibraryTypeOK, ActedIsHalfway, NEW q \in Requests, Send(q)
    PROVE  /\ lane' \in Seq(Requests)
           /\ acted => lane # <<>> /\ lane' # <<>> /\ Head(lane') = Head(lane)
           /\ Entries(lane') = Entries(lane) \cup {q}
<1>1. lane \in Seq(Requests)
  BY DEF LibraryTypeOK
<1>2. lane # <<>> => lane' # <<>> /\ Head(lane') = Head(lane)
  BY <1>1 DEF Send
<1>3. /\ Len(lane') = Len(lane) + 1
      /\ \A i \in 1..Len(lane) : lane'[i] = lane[i]
      /\ lane'[Len(lane) + 1] = q
      /\ DOMAIN lane' = 1..Len(lane') /\ DOMAIN lane = 1..Len(lane)
      /\ lane' \in Seq(Requests)
  BY <1>1 DEF Send
<1>4. Entries(lane') = Entries(lane) \cup {q}
  BY <1>3 DEF Entries
<1> QED
  BY <1>2, <1>3, <1>4 DEF ActedIsHalfway

LEMMA SentInv ==
    ASSUME IInv, NEW q \in Requests, Send(q), engine = "ready",
           q.by = "sweep" => q.cmd = "restore",
           q.cmd = "restore" => q.by = "sweep", q.by # None,
           UNCHANGED <<library, session, archive, acted, replies, engine, unheard>>,
           \A h \in Hashes : h # q.hash => todo'[h] = todo[h],
           \A v \in Intents : Due(q.hash, v)' => Due(q.hash, v),
           gone' \subseteq gone, q.cmd = "commit" => q.hash \notin gone'
    PROVE  /\ KindsHold' /\ DownIsEmpty' /\ ActedIsHalfway' /\ HeardOf'
           /\ \A h \in Hashes \ unheard' : InStep(h)'
<1>1. /\ Underway' = Underway \cup {q}
      /\ Entries(lane') = Entries(lane) \cup {q}
      /\ acted => lane # <<>> /\ lane' # <<>> /\ Head(lane') = Head(lane)
  BY SentQueue DEF IInv, Underway
<1>2. KindsHold' /\ HeardOf'
  BY <1>1 DEF IInv, KindsHold, HeardOf
<1>3. DownIsEmpty' /\ ActedIsHalfway'
  BY <1>1 DEF IInv, DownIsEmpty, ActedIsHalfway
<1>4. ASSUME NEW h \in Hashes \ unheard' PROVE InStep(h)'
  <2>1. InStep(h) /\ (Busy(h)' <=> Busy(h))
    BY <1>1 DEF IInv, Busy
  <2>2. \A v : Will(h, v)' <=> Will(h, v)
    BY DEF Will
  <2>3. \A v \in Intents : Due(h, v)' => Due(h, v)
    BY <1>1 DEF Due
  <2>4. \A n : Adding(h, n) => Adding(h, n)'
    BY <1>1 DEF Adding
  <2>5. h \in gone' => \A n : Adding(h, n)' => Adding(h, n)
    BY <1>1 DEF Adding
  <2>6. LoadedAgrees(h)' /\ DueAgrees(h)'
    BY <2>1, <2>2, <2>3 DEF InStep, LoadedAgrees, DueAgrees
  <2>7. PausedIsRecorded(h)' /\ MissingIsOut(h)'
    BY <2>1 DEF InStep, PausedIsRecorded, MissingIsOut
  <2>8. RemovedIsOut(h)' /\ GoneIsOut(h)'
    BY <2>1, <2>4, <2>5 DEF InStep, RemovedIsOut, GoneIsOut
  <2> QED
    BY <2>6, <2>7, <2>8 DEF InStep
<1> QED
  BY <1>2, <1>3, <1>4

LEMMA CallInv ==
    ASSUME IInv, NEW c \in Callers, NEW cmd \in Commands \ {"restore"}, NEW h \in Hashes,
           Call(c, cmd, h)
    PROVE  IInv'
<1> DEFINE q == [cmd |-> cmd, hash |-> h, intent |-> "none", by |-> c]
<1>1. q \in Requests /\ Send(q)
  BY DEF Requests, Intents, Call
<1>2. LibraryTypeOK'
  BY <1>1, SentQueue DEF IInv, LibraryTypeOK, Call, durable
<1>3. Entries(lane') = Entries(lane) \cup {q}
  BY <1>1, SentQueue DEF IInv
<1>4. \A v \in Intents : Due(q.hash, v)' => Due(q.hash, v)
  BY <1>3 DEF Due, Call
<1> QED
  BY <1>1, <1>2, <1>4, SentInv DEF IInv, Call, durable

LEMMA SweepNextInv ==
    ASSUME IInv, NEW h \in Hashes, SweepNext(h)
    PROVE  IInv'
<1> DEFINE q == [cmd |-> "restore", hash |-> h, intent |-> todo[h], by |-> "sweep"]
<1>1. q \in Requests /\ Send(q)
  BY DEF Requests, Commands, SweepNext, IInv, LibraryTypeOK
<1>2. LibraryTypeOK'
  BY <1>1, SentQueue DEF IInv, LibraryTypeOK, Intents, SweepNext, durable, history
<1>3. Entries(lane') = Entries(lane) \cup {q}
  BY <1>1, SentQueue DEF IInv
<1>4. \A v \in Intents : Due(q.hash, v)' => Due(q.hash, v)
  BY <1>3 DEF Due, SweepNext, IInv, LibraryTypeOK
<1>5. \A x \in Hashes : x # h => todo'[x] = todo[x]
  BY DEF SweepNext, IInv, LibraryTypeOK
<1> QED
  BY <1>1, <1>2, <1>4, <1>5, SentInv DEF IInv, SweepNext, durable, history

LEMMA CrashInv == IInv /\ Crash => IInv'
<1> SUFFICES ASSUME IInv, Crash PROVE IInv'
    OBVIOUS
<1>1. LibraryTypeOK'
  <2>1. lane' \in Seq(Requests) /\ replies' \in Seq(Results)
    BY DEF Crash
  <2>2. crashes' \in 0..MaxCrash
    BY DEF IInv, LibraryTypeOK, Crash
  <2> QED
    BY <2>1, <2>2 DEF IInv, LibraryTypeOK, Intents, Crash, durable
<1>2. /\ Underway' = {} /\ Entries(lane') = {} /\ Len(replies') = 0 /\ ~acted'
      /\ unheard' = unheard
  BY DEF Crash, Underway, Entries
<1>3. KindsHold' /\ DownIsEmpty' /\ ActedIsHalfway' /\ HeardOf'
  BY <1>2 DEF KindsHold, DownIsEmpty, ActedIsHalfway, HeardOf, Crash
<1>4. ASSUME NEW h \in Hashes \ unheard' PROVE InStep(h)'
  <2>1. InStep(h) /\ session'[h] = "none" /\ todo'[h] = "none"
    BY <1>2 DEF IInv, Crash
  <2>2. \A n : Adding(h, n) \/ ~Adding(h, 0)'
    BY <1>2 DEF Adding
  <2>3. LoadedAgrees(h)' /\ DueAgrees(h)'
    BY <1>2, <2>1 DEF LoadedAgrees, DueAgrees, Due
  <2>4. PausedIsRecorded(h)' /\ MissingIsOut(h)' /\ RemovedIsOut(h)'
    BY <1>2 DEF PausedIsRecorded, MissingIsOut, RemovedIsOut
  <2>5. GoneIsOut(h)'
    BY <1>2, <2>1 DEF InStep, GoneIsOut, Adding, Crash, durable
  <2> QED
    BY <2>3, <2>4, <2>5 DEF InStep
<1> QED
  BY <1>1, <1>3, <1>4 DEF IInv

LEMMA ReadyInv == IInv /\ Ready => IInv'
<1> SUFFICES ASSUME IInv, Ready PROVE IInv'
    OBVIOUS
<1>1. LibraryTypeOK'
  BY DEF IInv, LibraryTypeOK, Ready, durable, traffic, history
<1>2. /\ lane' = <<>> /\ Entries(lane') = {} /\ Len(replies') = 0 /\ ~acted'
      /\ Underway' = {} /\ session' = [h \in Hashes |-> "none"] /\ replies' = <<>>
  BY DEF IInv, ActedIsHalfway, DownIsEmpty, Ready, Underway, Entries, traffic
<1>3. KindsHold' /\ DownIsEmpty' /\ ActedIsHalfway' /\ HeardOf'
  BY <1>2 DEF KindsHold, DownIsEmpty, ActedIsHalfway, HeardOf, Ready
<1>4. ASSUME NEW h \in Hashes \ unheard' PROVE InStep(h)'
  <2>1. InStep(h) /\ session'[h] = "none" /\ todo'[h] = library'[h]
    BY <1>2 DEF IInv, Ready, durable, history
  <2>2. Will(h, library[h])'
    BY <1>2 DEF Will, After
  <2>3. LoadedAgrees(h)' /\ DueAgrees(h)'
    BY <1>2, <2>1, <2>2 DEF LoadedAgrees, DueAgrees, Due
  <2>4. PausedIsRecorded(h)' /\ MissingIsOut(h)' /\ RemovedIsOut(h)'
    BY <1>2 DEF PausedIsRecorded, MissingIsOut, RemovedIsOut
  <2>5. GoneIsOut(h)'
    BY <1>2, <2>1 DEF InStep, GoneIsOut, Adding, Ready, durable, history
  <2> QED
    BY <2>3, <2>4, <2>5 DEF InStep
<1> QED
  BY <1>1, <1>3, <1>4 DEF IInv

LEMMA UpsertIs ==
    ASSUME NEW h, NEW intent, NEW new \in Upsert(h, intent)
    PROVE  new = [library EXCEPT ![h] = intent] \/ (new = library /\ ~Recorded(h))
<1> DEFINE one == [library EXCEPT ![h] = intent]
<1>1. Upsert(h, intent) =
          {one} \cup (IF "full" \in Faults /\ ~Recorded(h) THEN {library} ELSE {})
  BY DEF Upsert
<1> HIDE DEF one
<1>2. new = one \/ (new = library /\ ~Recorded(h))
  BY <1>1
<1> QED
  BY <1>2 DEF one

LEMMA ReadType == IInv /\ HandleReply => library' \in [Hashes -> Intents]
<1> SUFFICES ASSUME IInv, HandleReply PROVE library' \in [Hashes -> Intents]
    OBVIOUS
<1> DEFINE q == Head(replies).request
           code == Head(replies).code
<1>1. /\ library' \in CASE q.by = None -> {library}
                        [] q.by = "sweep" -> {Swept(q, code)}
                        [] OTHER -> Record(q, code)
      /\ library \in [Hashes -> Intents]
  BY DEF HandleReply, IInv, LibraryTypeOK
<1> HIDE DEF q, code
<1>2. \A h : [library EXCEPT ![h] = "none"] \in [Hashes -> Intents]
  BY <1>1 DEF Intents
<1>3. \A h : \A v \in {"paused", "running"} : Upsert(h, v) \subseteq [Hashes -> Intents]
  BY <1>1, UpsertIs DEF Intents
<1>4. Swept(q, code) \in [Hashes -> Intents]
  BY <1>1, <1>2 DEF Swept
<1>5. Record(q, code) \subseteq [Hashes -> Intents]
  <2>1. CASE code # "ok"
    BY <1>1, <2>1 DEF Record
  <2>2. CASE code = "ok" /\ q.cmd = "commit"
    <3>1. Record(q, code) = Upsert(q.hash, "paused")
      BY <2>2 DEF Record
    <3> QED
      BY <1>3, <3>1
  <2>3. CASE code = "ok" /\ q.cmd = "remove"
    <3>1. Record(q, code) = {[library EXCEPT ![q.hash] = "none"]}
      BY <2>3 DEF Record
    <3> QED
      BY <1>2, <3>1
  <2>4. CASE code = "ok" /\ q.cmd \in {"pause", "resume"} /\ Recorded(q.hash)
    <3>1. Record(q, code) = Upsert(q.hash, IF q.cmd = "pause" THEN "paused" ELSE "running")
      BY <2>4 DEF Record
    <3> QED
      BY <1>3, <3>1
  <2>5. CASE /\ code = "ok" /\ q.cmd \notin {"commit", "remove"}
             /\ ~(q.cmd \in {"pause", "resume"} /\ Recorded(q.hash))
    <3>1. Record(q, code) = {library}
      BY <2>5 DEF Record
    <3> QED
      BY <1>1, <3>1
  <2> QED
    BY <2>1, <2>2, <2>3, <2>4, <2>5
<1>6. CASE q.by = None
  BY <1>1, <1>6
<1>7. CASE q.by = "sweep"
  BY <1>1, <1>4, <1>7
<1>8. CASE q.by # None /\ q.by # "sweep"
  BY <1>1, <1>5, <1>8
<1> QED
  BY <1>6, <1>7, <1>8

\* What main records when it reads a reply is what the reply says.
LEMMA ReadRecords ==
    ASSUME IInv, HandleReply, NEW h \in Hashes \ unheard'
    PROVE  library'[h] = IF Changes(Head(replies), h) THEN Effect(Head(replies))
                         ELSE library[h]
<1> DEFINE q == Head(replies).request
           code == Head(replies).code
<1>1. /\ Head(replies) \in Results /\ q \in Requests /\ q \in Underway
      /\ q.hash \in Hashes /\ replies # <<>>
      /\ Head(replies) = replies[1] /\ 1 \in 1..Len(replies)
  <2>1. replies \in Seq(Results) /\ replies # <<>>
    BY DEF IInv, LibraryTypeOK, HandleReply
  <2>2. Head(replies) \in Results /\ Head(replies) = replies[1] /\ 1 \in DOMAIN replies
    BY <2>1
  <2> QED
    BY <2>1, <2>2 DEF Results, Requests, Underway, Entries
<1>2. /\ library' \in CASE q.by = None -> {library}
                        [] q.by = "sweep" -> {Swept(q, code)}
                        [] OTHER -> Record(q, code)
      /\ unheard' = IF q.by # None /\ q.cmd = "commit" /\ code = "ok"
                       /\ library'[q.hash] = "none"
                    THEN unheard \cup {q.hash} ELSE unheard
  BY DEF HandleReply
<1>3. unheard \subseteq unheard' /\ library \in [Hashes -> Intents]
  BY <1>2 DEF IInv, LibraryTypeOK
<1>4. /\ q.by = "sweep" => q.cmd = "restore"
      /\ q.cmd = "restore" => q.by \in {"sweep", None}
      /\ q.hash = h => q.by # None
      /\ q.by \in Callers \cup {"sweep", None}
      /\ q.cmd \in Commands
  BY <1>1, <1>3 DEF IInv, KindsHold, HeardOf, Requests
<1>5. q.cmd \in {"pause", "resume"} /\ code = "ok" /\ q.hash = h => Recorded(h)
  <2>1. ASSUME q.cmd \in {"pause", "resume"}, code = "ok", q.hash = h
        PROVE  \E v \in {"paused", "running"} : After(library, replies, 0, h, v)
    BY <1>1, <1>3, <2>1 DEF IInv, InStep, PausedIsRecorded
  <2> QED
    BY <2>1 DEF After, Recorded
<1> HIDE DEF q, code
<1>6. CASE q.by = None
  BY <1>2, <1>3, <1>4, <1>6 DEF Changes, q
<1>7. CASE q.by = "sweep"
  <2>1. library' = IF code = "NOT_FOUND" THEN [library EXCEPT ![q.hash] = "none"]
                   ELSE library
    BY <1>2, <1>7 DEF Swept
  <2>2. Changes(Head(replies), h) <=> q.hash = h /\ code = "NOT_FOUND"
    BY <1>7 DEF Changes, q, code
  <2>3. Effect(Head(replies)) = "none"
    BY <1>7 DEF Effect, q
  <2> QED
    BY <1>1, <1>3, <2>1, <2>2, <2>3 DEF Intents
<1>8. CASE q.by \in Callers
  <2>1. library' \in Record(q, code)
    BY <1>2, <1>8
  <2>2. Changes(Head(replies), h) <=>
            q.hash = h /\ code = "ok" /\ q.cmd \in {"commit", "remove", "pause", "resume"}
    BY <1>8 DEF Changes, q, code
  <2>3. Effect(Head(replies)) = IF q.cmd = "remove" THEN "none"
                                ELSE IF q.cmd = "resume" THEN "running" ELSE "paused"
    BY <1>8 DEF Effect, q
  <2>4. CASE code # "ok" \/ q.cmd = "restore"
    <3>1. Record(q, code) = {library}
      BY <2>4 DEF Record
    <3> QED
      BY <1>3, <2>1, <2>2, <2>4, <3>1
  <2>5. CASE code = "ok" /\ q.cmd = "commit"
    <3>1. \/ library' = [library EXCEPT ![q.hash] = "paused"]
          \/ library' = library /\ ~Recorded(q.hash)
      <4>1. Record(q, code) = Upsert(q.hash, "paused")
        BY <2>5 DEF Record
      <4> QED
        BY <2>1, <4>1, UpsertIs
    <3> QED
      BY <1>1, <1>2, <1>3, <1>4, <2>2, <2>3, <2>5, <3>1 DEF Recorded, Intents
  <2>6. CASE code = "ok" /\ q.cmd = "remove"
    <3>1. library' = [library EXCEPT ![q.hash] = "none"]
      BY <2>1, <2>6 DEF Record
    <3> QED
      BY <1>1, <1>3, <2>2, <2>3, <2>6, <3>1 DEF Intents
  <2>7. CASE code = "ok" /\ q.cmd \in {"pause", "resume"}
    <3>1. CASE Recorded(q.hash)
      <4>1. library' = [library EXCEPT ![q.hash] = IF q.cmd = "pause" THEN "paused" ELSE "running"]
        BY <2>1, <2>7, <3>1 DEF Record, Upsert
      <4> QED
        BY <1>1, <1>3, <2>2, <2>3, <2>7, <4>1 DEF Intents
    <3>2. CASE ~Recorded(q.hash)
      BY <1>3, <1>5, <2>1, <2>2, <2>7, <3>2 DEF Record
    <3> QED
      BY <3>1, <3>2
  <2> QED
    BY <1>4, <2>4, <2>5, <2>6, <2>7 DEF Commands
<1> QED
  BY <1>4, <1>6, <1>7, <1>8

LEMMA ReadQueue ==
    ASSUME LibraryTypeOK, replies # <<>>, replies' = Tail(replies)
    PROVE  /\ replies' \in Seq(Results) /\ Len(replies') = Len(replies) - 1
           /\ \A i \in 1..Len(replies') : i + 1 \in 1..Len(replies)
                                         /\ replies'[i] = replies[i + 1]
           /\ 1 \in 1..Len(replies) /\ Head(replies) = replies[1]
           /\ Head(replies) \in Results /\ Head(replies).request \in Requests
           /\ Entries(replies') \subseteq Entries(replies)
           /\ Entries(replies') = {replies[i] : i \in 2..Len(replies)}
<1>1. replies \in Seq(Results) /\ replies # <<>>
  BY DEF LibraryTypeOK
<1>2. /\ replies' \in Seq(Results) /\ Len(replies') = Len(replies) - 1
      /\ \A i \in 1..Len(replies') : i + 1 \in 1..Len(replies)
                                    /\ replies'[i] = replies[i + 1]
      /\ 1 \in 1..Len(replies) /\ Head(replies) = replies[1]
      /\ Head(replies) \in Results
      /\ DOMAIN replies' = 1..Len(replies') /\ DOMAIN replies = 1..Len(replies)
  BY <1>1
<1>3. Entries(replies') \subseteq Entries(replies)
  BY <1>2 DEF Entries
<1>4. \A i \in 2..Len(replies) : replies[i] = replies'[i - 1] /\ i - 1 \in 1..Len(replies')
  BY <1>2
<1>5. Entries(replies') = {replies[i] : i \in 2..Len(replies)}
  <2>1. \A i \in 1..Len(replies') : i + 1 \in 2..Len(replies)
    BY <1>2
  <2>2. ASSUME NEW x \in Entries(replies') PROVE x \in {replies[i] : i \in 2..Len(replies)}
    BY <1>2, <2>1 DEF Entries
  <2>3. ASSUME NEW i \in 2..Len(replies) PROVE replies[i] \in Entries(replies')
    BY <1>2, <1>4 DEF Entries
  <2> QED
    BY <2>2, <2>3
<1> QED
  BY <1>2, <1>3, <1>5 DEF Results

LEMMA HandleReplyInv == IInv /\ HandleReply => IInv'
<1> SUFFICES ASSUME IInv, HandleReply PROVE IInv'
    OBVIOUS
<1> DEFINE q == Head(replies).request
           code == Head(replies).code
<1>1. /\ replies # <<>> /\ replies' = Tail(replies)
      /\ UNCHANGED <<archive, session, lane, acted, todo, engine, crashes, unrestored>>
      /\ unheard \subseteq unheard'
  BY DEF HandleReply
<1>2. /\ replies' \in Seq(Results) /\ Len(replies') = Len(replies) - 1
      /\ \A i \in 1..Len(replies') : i + 1 \in 1..Len(replies)
                                    /\ replies'[i] = replies[i + 1]
      /\ 1 \in 1..Len(replies) /\ Head(replies) = replies[1]
      /\ Head(replies) \in Results /\ q \in Requests
      /\ Entries(replies') \subseteq Entries(replies)
      /\ Entries(replies') = {replies[i] : i \in 2..Len(replies)}
      /\ replies \in Seq(Results)
  BY <1>1, ReadQueue DEF IInv, LibraryTypeOK
<1>3. KindsHold' /\ DownIsEmpty' /\ ActedIsHalfway' /\ HeardOf'
  <2>1. Underway' \subseteq Underway
    BY <1>1, <1>2 DEF Underway
  <2>2. engine # "down"
    BY <1>1 DEF IInv, DownIsEmpty
  <2> QED
    BY <1>1, <2>1, <2>2 DEF IInv, KindsHold, DownIsEmpty, ActedIsHalfway, HeardOf
<1>4. \A h, n : n \in Nat => (Adding(h, n)' <=> Adding(h, n + 1))
  <2> SUFFICES ASSUME NEW h, NEW n \in Nat PROVE Adding(h, n)' <=> Adding(h, n + 1)
      OBVIOUS
  <2>1. ASSUME Adding(h, n)' PROVE Adding(h, n + 1)
    BY <1>1, <1>2, <2>1 DEF Adding
  <2>2. ASSUME NEW i \in (n + 1 + 1)..Len(replies)
        PROVE  i - 1 \in (n + 1)..Len(replies') /\ replies'[i - 1] = replies[i]
    BY <1>2
  <2>3. ASSUME Adding(h, n + 1) PROVE Adding(h, n)'
    BY <1>1, <2>2, <2>3 DEF Adding
  <2> QED
    BY <2>1, <2>3
<1>5. ASSUME NEW h \in Hashes \ unheard' PROVE InStep(h)'
  <2>1. /\ InStep(h)
        /\ library'[h] = IF Changes(Head(replies), h) THEN Effect(Head(replies))
                         ELSE library[h]
    BY <1>1, ReadRecords DEF IInv
  <2>2. ASSUME NEW n \in 1..Len(replies), NEW v, After(library, replies, n, h, v)
        PROVE  After(library', replies', n - 1, h, v)
    <3>1. After(library', Tail(replies), n - 1, h, v)
      BY <1>1, <1>2, <2>1, <2>2, AfterRead
    <3> QED
      BY <1>1, <3>1
  <2>3. \A v : Will(h, v) => Will(h, v)'
    BY <1>2, <2>2 DEF Will
  <2>4. \A v : Due(h, v)' <=> Due(h, v)
    BY <1>1 DEF Due
  <2>5. Busy(h)' <=> Busy(h)
    BY <1>1 DEF Busy
  <2>6. LoadedAgrees(h)' /\ DueAgrees(h)'
    BY <1>1, <2>1, <2>3, <2>4, <2>5 DEF InStep, LoadedAgrees, DueAgrees
  <2>7. PausedIsRecorded(h)'
    <3> SUFFICES ASSUME NEW i \in 1..Len(replies'),
                        replies'[i].request.cmd \in {"pause", "resume"},
                        replies'[i].code = "ok", replies'[i].request.hash = h
                 PROVE  \E v \in {"paused", "running"} : After(library', replies', i - 1, h, v)
        BY DEF PausedIsRecorded
    <3>1. PICK v \in {"paused", "running"} : After(library, replies, i, h, v)
      BY <1>2, <2>1 DEF InStep, PausedIsRecorded
    <3>2. i \in 1..Len(replies)
      BY <1>2
    <3> QED
      BY <2>2, <3>1, <3>2
  <2>8. RemovedIsOut(h)'
    BY <1>1, <1>2, <1>4, <2>1 DEF InStep, RemovedIsOut
  <2>9. MissingIsOut(h)'
    <3> SUFFICES ASSUME NEW i \in 1..Len(replies'),
                        replies'[i].request.cmd = "restore",
                        replies'[i].code = "NOT_FOUND", replies'[i].request.hash = h,
                        h \in archive'
                 PROVE  \E j \in (i + 1)..Len(replies') :
                           /\ replies'[j].request.cmd = "commit"
                           /\ replies'[j].request.hash = h /\ replies'[j].code = "ok"
        BY DEF MissingIsOut
    <3>1. PICK j \in (i + 2)..Len(replies) :
                 /\ replies[j].request.cmd = "commit" /\ replies[j].request.hash = h
                 /\ replies[j].code = "ok"
      BY <1>1, <1>2, <2>1 DEF InStep, MissingIsOut
    <3>2. j - 1 \in (i + 1)..Len(replies') /\ replies'[j - 1] = replies[j]
      BY <1>2
    <3> QED
      BY <3>1, <3>2
  <2>10. GoneIsOut(h)'
    <3>1. CASE h \in gone
      <4>1. session[h] = "none" /\ library[h] = "none" /\ h \notin archive /\ ~Adding(h, 0)
        BY <2>1, <3>1 DEF InStep, GoneIsOut
      <4>2. ~Adding(h, 1) /\ ~Adding(h, 0)'
        <5>1. ~Adding(h, 0 + 1)
          BY <4>1 DEF Adding
        <5> QED
          BY <1>4, <5>1
      <4>3. Changes(Head(replies), h) => Effect(Head(replies)) = "none"
        <5>1. q.hash = h => q.cmd # "commit"
          BY <1>2, <4>1 DEF Adding
        <5>2. ~(q.cmd \in {"pause", "resume"} /\ code = "ok" /\ q.hash = h)
          <6>1. ASSUME q.cmd \in {"pause", "resume"}, code = "ok", q.hash = h
                PROVE  \E v \in {"paused", "running"} : After(library, replies, 0, h, v)
            BY <1>2, <2>1, <6>1 DEF InStep, PausedIsRecorded
          <6> QED
            BY <4>1, <6>1 DEF After
        <5> QED
          BY <5>1, <5>2 DEF Changes, Effect
      <4> QED
        BY <1>1, <2>1, <4>1, <4>2, <4>3 DEF GoneIsOut
    <3>2. CASE h \in gone' /\ h \notin gone
      <4>1. /\ q.by \in Callers /\ q.cmd = "remove" /\ code = "ok" /\ q.hash = h
            /\ ~\E r \in Entries(lane) \cup {x.request : x \in Entries(Tail(replies))} :
                  r.cmd = "commit" /\ r.hash = q.hash
        BY <3>2 DEF HandleReply
      <4>2. ~Adding(h, 1)
        BY <1>1, <1>2, <4>1 DEF Adding
      <4>3. session[h] = "none" /\ h \notin archive
        BY <1>2, <2>1, <4>1, <4>2 DEF InStep, RemovedIsOut
      <4>4. library'[h] = "none"
        BY <2>1, <4>1 DEF Changes, Effect
      <4>5. ~Adding(h, 0)'
        BY <1>4, <4>2
      <4> QED
        BY <1>1, <4>3, <4>4, <4>5 DEF GoneIsOut
    <3> QED
      BY <3>1, <3>2 DEF GoneIsOut
  <2> QED
    BY <2>6, <2>7, <2>8, <2>9, <2>10 DEF InStep
<1>6. LibraryTypeOK'
  <2>1. gone' \in SUBSET Hashes /\ unheard' \in SUBSET Hashes
    BY <1>2 DEF HandleReply, IInv, LibraryTypeOK, Requests
  <2>2. library' \in [Hashes -> Intents]
    BY ReadType
  <2> QED
    BY <1>1, <1>2, <2>1, <2>2 DEF IInv, LibraryTypeOK
<1> QED
  BY <1>3, <1>5, <1>6 DEF IInv

\* The entries about torrents whose results are not lost stay as they are.
LEMMA TimeoutQueues ==
    ASSUME IInv, NEW c \in Callers \cup {"sweep"}, Timeout(c)
    PROVE  /\ lane' \in Seq(Requests) /\ replies' \in Seq(Results)
           /\ Len(lane') = Len(lane) /\ Len(replies') = Len(replies)
           /\ \A i \in 1..Len(lane) :
                 /\ lane'[i].hash = lane[i].hash /\ lane'[i].cmd = lane[i].cmd
                 /\ lane[i].hash \notin unheard' => lane'[i] = lane[i]
                 /\ lane'[i] = lane[i] \/ lane'[i].by = None
           /\ \A i \in 1..Len(replies) :
                 /\ replies'[i].request.hash = replies[i].request.hash
                 /\ replies'[i].request.cmd = replies[i].request.cmd
                 /\ replies'[i].code = replies[i].code
                 /\ replies[i].request.hash \notin unheard' => replies'[i] = replies[i]
                 /\ replies'[i] = replies[i] \/ replies'[i].request.by = None
           /\ unheard \subseteq unheard' /\ unheard' \subseteq Hashes
<1>1. lane \in Seq(Requests) /\ replies \in Seq(Results)
  BY DEF IInv, LibraryTypeOK
<1>2. \A r \in Requests : /\ Orphan(r, c) \in Requests
                          /\ Orphan(r, c).hash = r.hash /\ Orphan(r, c).cmd = r.cmd
                          /\ r.by # c => Orphan(r, c) = r
                          /\ r.by = c => Orphan(r, c).by = None
  BY DEF Orphan, Requests
<1>3. \A x \in Results : LET y == [x EXCEPT !.request = Orphan(@, c)]
                         IN  /\ y \in Results /\ y.code = x.code
                             /\ y.request = Orphan(x.request, c)
                             /\ x.request.by # c => y = x
  BY <1>2 DEF Results
<1> HIDE DEF Orphan
<1>4. lane' \in Seq(Requests) /\ Len(lane') = Len(lane)
  BY <1>1, <1>2 DEF Timeout
<1>5. replies' \in Seq(Results) /\ Len(replies') = Len(replies)
  <2> DEFINE new(i) == [replies[i] EXCEPT !.request = Orphan(@, c)]
  <2>1. \A i \in 1..Len(replies) : new(i) \in Results
    BY <1>1, <1>3
  <2>2. replies' = [i \in 1..Len(replies) |-> new(i)] /\ Len(replies) \in Nat
    BY <1>1 DEF Timeout
  <2> HIDE DEF new
  <2> QED
    BY <2>1, <2>2
<1>6. unheard' = unheard \cup {r.hash : r \in {x \in Underway : x.by = c}}
  <2>1. {y.request : y \in Entries(replies)} = {r.request : r \in Entries(replies)}
    OBVIOUS
  <2> QED
    BY <2>1 DEF Timeout, Underway
<1>7. /\ \A i \in 1..Len(lane) : lane[i] \in Requests /\ lane[i] \in Underway
      /\ \A i \in 1..Len(replies) : replies[i] \in Results /\ replies[i].request \in Underway
  BY <1>1 DEF Underway, Entries
<1>8. ASSUME NEW i \in 1..Len(lane)
      PROVE  /\ lane'[i].hash = lane[i].hash /\ lane'[i].cmd = lane[i].cmd
             /\ lane[i].hash \notin unheard' => lane'[i] = lane[i]
             /\ lane'[i] = lane[i] \/ lane'[i].by = None
  <2>1. lane'[i] = Orphan(lane[i], c)
    BY <1>1 DEF Timeout
  <2> QED
    BY <1>2, <1>6, <1>7, <2>1
<1>9. ASSUME NEW i \in 1..Len(replies)
      PROVE  /\ replies'[i].request.hash = replies[i].request.hash
             /\ replies'[i].request.cmd = replies[i].request.cmd
             /\ replies'[i].code = replies[i].code
             /\ replies[i].request.hash \notin unheard' => replies'[i] = replies[i]
             /\ replies'[i] = replies[i] \/ replies'[i].request.by = None
  <2>1. replies'[i] = [replies[i] EXCEPT !.request = Orphan(@, c)]
    BY <1>1 DEF Timeout
  <2>2. replies[i].request \in Requests
    BY <1>7 DEF Results
  <2> QED
    BY <1>2, <1>3, <1>6, <1>7, <2>1, <2>2
<1>10. unheard' \subseteq Hashes
  <2>1. /\ \A r \in Entries(lane) : r \in Requests
        /\ \A r \in Entries(replies) : r \in Results
    BY <1>1 DEF Entries
  <2>2. \A r \in Underway : r.hash \in Hashes
    BY <2>1 DEF Underway, Requests, Results
  <2> QED
    BY <1>6, <2>2 DEF IInv, LibraryTypeOK
<1> QED
  BY <1>4, <1>5, <1>6, <1>8, <1>9, <1>10

LEMMA TimeoutInv ==
    ASSUME IInv, NEW c \in Callers \cup {"sweep"}, Timeout(c)
    PROVE  IInv'
<1>1. /\ UNCHANGED <<durable, session, acted, todo, engine, crashes, gone, unrestored>>
      /\ engine = "down" => lane = <<>> /\ replies = <<>>
  BY DEF Timeout, IInv, DownIsEmpty
<1>2. LibraryTypeOK'
  BY <1>1, TimeoutQueues DEF IInv, LibraryTypeOK, durable
<1>3. /\ DOMAIN lane = 1..Len(lane) /\ DOMAIN lane' = 1..Len(lane)
      /\ DOMAIN replies = 1..Len(replies) /\ DOMAIN replies' = 1..Len(replies)
  <2>1. lane \in Seq(Requests) /\ replies \in Seq(Results)
    BY DEF IInv, LibraryTypeOK
  <2>2. lane' \in Seq(Requests) /\ replies' \in Seq(Results)
    BY TimeoutQueues
  <2> QED
    BY <2>1, <2>2, TimeoutQueues
<1>4. ASSUME NEW r \in Underway'
      PROVE  \/ r \in Underway
             \/ r.by = None /\ r.hash \in unheard'
  <2>1. CASE r \in Entries(lane')
    <3>1. PICK i \in 1..Len(lane) : r = lane'[i]
      BY <1>3, <2>1 DEF Entries
    <3>2. lane[i] \in Underway
      BY <1>3 DEF Underway, Entries
    <3>3. /\ lane[i].hash \notin unheard' => lane'[i] = lane[i]
          /\ lane'[i] = lane[i] \/ lane'[i].by = None
          /\ lane'[i].hash = lane[i].hash
      BY TimeoutQueues
    <3> QED
      BY <3>1, <3>2, <3>3
  <2>2. CASE r \notin Entries(lane')
    <3>1. PICK i \in 1..Len(replies) : r = replies'[i].request
      BY <1>3, <1>4, <2>2 DEF Underway, Entries
    <3>2. replies[i].request \in Underway
      BY <1>3 DEF Underway, Entries
    <3>3. /\ replies[i].request.hash \notin unheard' => replies'[i] = replies[i]
          /\ replies'[i] = replies[i] \/ replies'[i].request.by = None
          /\ replies'[i].request.hash = replies[i].request.hash
      BY TimeoutQueues
    <3> QED
      BY <3>1, <3>2, <3>3
  <2> QED
    BY <2>1, <2>2
<1>5. KindsHold' /\ HeardOf'
  <2>1. ASSUME NEW r \in Underway' PROVE r.by = None => r.hash \in unheard'
    BY <1>4, TimeoutQueues DEF IInv, HeardOf
  <2>2. HeardOf'
    BY <2>1 DEF HeardOf
  <2>3. KindsHold'
    BY <1>4 DEF IInv, KindsHold
  <2> QED
    BY <2>2, <2>3
<1>6. DownIsEmpty' /\ ActedIsHalfway'
  <2>1. lane = <<>> <=> lane' = <<>>
    BY <1>2, TimeoutQueues DEF IInv, LibraryTypeOK
  <2>2. replies = <<>> => replies' = <<>>
    BY <1>2, TimeoutQueues DEF IInv, LibraryTypeOK
  <2>3. lane # <<>> => Head(lane').hash = Head(lane).hash /\ Head(lane').cmd = Head(lane).cmd
    BY <1>2, <2>1, TimeoutQueues DEF IInv, LibraryTypeOK
  <2>4. DownIsEmpty'
    BY <1>1, <2>1, <2>2 DEF IInv, DownIsEmpty
  <2> QED
    BY <1>1, <2>1, <2>3, <2>4 DEF IInv, ActedIsHalfway
<1>7. ASSUME NEW h \in Hashes \ unheard' PROVE InStep(h)'
  <2>1. InStep(h)
    BY TimeoutQueues DEF IInv
  <2>2. Busy(h)' <=> Busy(h)
    <3>1. acted => lane # <<>> /\ lane' # <<>>
      BY <1>1, <1>6 DEF IInv, ActedIsHalfway
    <3>2. acted => Head(lane').hash = Head(lane).hash
      BY <1>2, <3>1, TimeoutQueues DEF IInv, LibraryTypeOK
    <3> QED
      BY <1>1, <3>2 DEF Busy
  <2>3. ASSUME NEW n \in 0..Len(replies), NEW v, After(library, replies, n, h, v)
        PROVE  After(library', replies', n, h, v)
    <3>1. /\ replies \in Seq(Results) /\ replies' \in Seq(Results)
          /\ Len(replies') = Len(replies) /\ library' = library
      BY <1>1, TimeoutQueues DEF IInv, LibraryTypeOK, durable
    <3>2. \A i \in 1..Len(replies) : replies'[i].request.hash = replies[i].request.hash
      BY TimeoutQueues
    <3>3. \A i \in 1..Len(replies) : replies[i].request.hash = h => replies'[i] = replies[i]
      BY TimeoutQueues
    <3>4. After(library, replies', n, h, v)
      BY <2>3, <3>1, <3>2, <3>3, AfterSame
    <3> QED
      BY <3>1, <3>4
  <2>4. \A v : Will(h, v) => Will(h, v)'
    <3>1. Len(replies) \in 0..Len(replies)
      BY DEF IInv, LibraryTypeOK
    <3> QED
      BY <2>3, <3>1, TimeoutQueues DEF Will
  <2>5. \A v : Due(h, v)' => Due(h, v)
    BY <1>1, <1>3, TimeoutQueues DEF Due, Entries
  <2>6. \A n \in Nat : Adding(h, n)' <=> Adding(h, n)
    <3>1. (\E r \in Entries(lane) : r.cmd = "commit" /\ r.hash = h)
          <=> \E i \in 1..Len(lane) : lane[i].cmd = "commit" /\ lane[i].hash = h
      BY <1>3 DEF Entries
    <3>2. (\E r \in Entries(lane') : r.cmd = "commit" /\ r.hash = h)
          <=> \E i \in 1..Len(lane) : lane'[i].cmd = "commit" /\ lane'[i].hash = h
      BY <1>3 DEF Entries
    <3>3. \A i \in 1..Len(lane) : lane'[i].hash = lane[i].hash /\ lane'[i].cmd = lane[i].cmd
      BY TimeoutQueues
    <3>4. /\ Len(replies') = Len(replies) /\ Len(replies) \in Nat
          /\ \A i \in 1..Len(replies) :
                /\ replies'[i].request.hash = replies[i].request.hash
                /\ replies'[i].request.cmd = replies[i].request.cmd
      BY TimeoutQueues DEF IInv, LibraryTypeOK
    <3> SUFFICES ASSUME NEW n \in Nat PROVE Adding(h, n)' <=> Adding(h, n)
        OBVIOUS
    <3>5. (\E i \in (n + 1)..Len(replies) :
              replies[i].request.cmd = "commit" /\ replies[i].request.hash = h)
          <=> \E i \in (n + 1)..Len(replies') :
              replies'[i].request.cmd = "commit" /\ replies'[i].request.hash = h
      BY <3>4
    <3> QED
      BY <3>1, <3>2, <3>3, <3>5 DEF Adding
  <2>7. LoadedAgrees(h)' /\ DueAgrees(h)'
    BY <1>1, <2>1, <2>2, <2>4, <2>5 DEF InStep, LoadedAgrees, DueAgrees, durable
  <2>8. PausedIsRecorded(h)'
    <3> SUFFICES ASSUME NEW i \in 1..Len(replies),
                        replies'[i].request.cmd \in {"pause", "resume"},
                        replies'[i].code = "ok", replies'[i].request.hash = h
                 PROVE  \E v \in {"paused", "running"} : After(library', replies', i - 1, h, v)
        BY TimeoutQueues DEF PausedIsRecorded
    <3>1. PICK v \in {"paused", "running"} : After(library, replies, i - 1, h, v)
      BY <2>1, TimeoutQueues DEF InStep, PausedIsRecorded
    <3> QED
      BY <2>3, <3>1
  <2>9. RemovedIsOut(h)'
    BY <1>1, <2>1, <2>6, TimeoutQueues DEF InStep, RemovedIsOut, durable
  <2>10. GoneIsOut(h)'
    BY <1>1, <2>1, <2>6 DEF InStep, GoneIsOut, durable
  <2>11. MissingIsOut(h)'
    BY <1>1, <2>1, TimeoutQueues DEF InStep, MissingIsOut, durable
  <2> QED
    BY <2>7, <2>8, <2>9, <2>10, <2>11 DEF InStep
<1> QED
  BY <1>2, <1>5, <1>6, <1>7 DEF IInv

-----------------------------------------------------------------------------
(* The theorems.                                                           *)

LEMMA InitInv == LibraryInit => IInv
<1> SUFFICES ASSUME LibraryInit PROVE IInv
    OBVIOUS
<1>1. LibraryTypeOK
  <2>1. lane \in Seq(Requests) /\ replies \in Seq(Results)
    BY DEF LibraryInit
  <2>2. crashes \in 0..MaxCrash
    BY DEF LibraryInit
  <2>3. /\ library \in [Hashes -> Intents] /\ session \in [Hashes -> Intents]
        /\ todo \in [Hashes -> Intents]
    BY DEF LibraryInit, Intents
  <2> QED
    BY <2>1, <2>2, <2>3 DEF LibraryInit, LibraryTypeOK
<1>2. Underway = {} /\ Entries(lane) = {} /\ Len(replies) = 0 /\ ~acted
  BY DEF LibraryInit, Underway, Entries
<1>3. KindsHold /\ DownIsEmpty /\ ActedIsHalfway /\ HeardOf
  BY <1>2 DEF KindsHold, DownIsEmpty, ActedIsHalfway, HeardOf, LibraryInit
<1>4. ASSUME NEW h \in Hashes PROVE InStep(h)
  BY <1>2 DEF InStep, LoadedAgrees, DueAgrees, PausedIsRecorded, RemovedIsOut, GoneIsOut,
              MissingIsOut, LibraryInit
<1> QED
  BY <1>1, <1>3, <1>4 DEF IInv

LEMMA StutterInv == IInv /\ UNCHANGED libraryVars => IInv'
<1> SUFFICES ASSUME IInv, UNCHANGED libraryVars PROVE IInv'
    OBVIOUS
<1>1. /\ UNCHANGED <<library, archive, session, lane, acted, replies, todo, engine, crashes>>
      /\ UNCHANGED <<gone, unrestored, unheard>>
  BY DEF libraryVars, traffic, history
<1>2. LibraryTypeOK' /\ KindsHold' /\ DownIsEmpty' /\ ActedIsHalfway' /\ HeardOf'
  BY <1>1 DEF IInv, LibraryTypeOK, KindsHold, DownIsEmpty, ActedIsHalfway, HeardOf, Underway
<1>3. ASSUME NEW h \in Hashes \ unheard' PROVE InStep(h)'
  <2>1. InStep(h)
    BY <1>1 DEF IInv
  <2> QED
    BY <1>1, <2>1 DEF InStep, LoadedAgrees, DueAgrees, PausedIsRecorded, RemovedIsOut, GoneIsOut,
              MissingIsOut, Will, Due, Busy, Adding
<1> QED
  BY <1>2, <1>3 DEF IInv

LEMMA NextInv == IInv /\ [LibraryNext]_libraryVars => IInv'
<1> SUFFICES ASSUME IInv, [LibraryNext]_libraryVars PROVE IInv'
    OBVIOUS
<1>1. ASSUME NEW c \in Callers, NEW h \in Hashes, NEW cmd \in Commands \ {"restore"},
             Call(c, cmd, h)
      PROVE  IInv'
  BY <1>1, CallInv
<1>2. ASSUME NEW c \in Callers \cup {"sweep"}, Timeout(c) PROVE IInv'
  BY <1>2, TimeoutInv
<1>3. ASSUME NEW h \in Hashes, SweepNext(h) PROVE IInv'
  BY <1>3, SweepNextInv
<1>4. CASE UNCHANGED libraryVars
  BY <1>4, StutterInv
<1> QED
  BY <1>1, <1>2, <1>3, <1>4, EngineStepInv, HandleReplyInv, CrashInv, ReadyInv DEF LibraryNext

\* The strengthened invariant, from which the two below follow.
THEOREM LibraryInductive == LibrarySpec => []IInv
<1>1. LibraryInit => IInv
  BY InitInv
<1>2. IInv /\ [LibraryNext]_libraryVars => IInv'
  BY NextInv
<1> QED
  BY <1>1, <1>2, PTL DEF LibrarySpec

\* At rest the records of main and the sessions of the engine are the same
\* torrents with the same intents, and a removed torrent stays away, whatever
\* commands, sweeps, timeouts and exits there were (torrent-library.ts).
THEOREM RecordsStayInStep == LibrarySpec => []RecordsAgree
<1>1. IInv => RecordsAgree
  <2> SUFFICES ASSUME IInv PROVE RecordsAgree
      OBVIOUS
  <2>1. ASSUME Quiet, NEW h \in Hashes \ unheard, session[h] # "none"
        PROVE  library[h] = session[h]
    <3>1. lane = <<>> /\ replies = <<>>
      <4>1. /\ DOMAIN lane = 1..Len(lane) /\ DOMAIN replies = 1..Len(replies)
            /\ lane # <<>> => 1 \in DOMAIN lane
            /\ replies # <<>> => 1 \in DOMAIN replies
        BY DEF IInv, LibraryTypeOK
      <4>2. Entries(lane) = {} /\ Entries(replies) = {}
        BY <2>1 DEF Quiet, InFlight
      <4>3. 1 \notin DOMAIN lane /\ 1 \notin DOMAIN replies
        BY <4>2 DEF Entries
      <4> QED
        BY <4>1, <4>3
    <3>2. ~Busy(h)
      BY <3>1 DEF IInv, ActedIsHalfway, Busy
    <3>3. Will(h, session[h])
      BY <2>1, <3>2 DEF IInv, InStep, LoadedAgrees
    <3> QED
      BY <3>1, <3>3 DEF Will, After
  <2>2. RemovedStaysGone
    BY DEF RemovedStaysGone, IInv, InStep, GoneIsOut, LibraryTypeOK
  <2> QED
    BY <2>1, <2>2 DEF RecordsAgree, LoadedIsRecorded, IInv
<1> QED
  BY <1>1, LibraryInductive, PTL

\* No step drops the record of a torrent whose archived bytes exist, unless its
\* owner removes it or is adding it again (torrent-library.ts:89).
THEOREM RecordsDropWhenGone == LibrarySpec => DroppedWhenGone
<1> DEFINE Kept == \A h \in Hashes \ unheard : Recorded(h) /\ library'[h] = "none" =>
                       h \notin archive \/ Told("remove", h) \/ Told("commit", h)
<1>1. IInv /\ [LibraryNext]_libraryVars => [Kept]_libraryVars
  <2> SUFFICES ASSUME IInv, LibraryNext, NEW h \in Hashes \ unheard, Recorded(h), library'[h] = "none"
               PROVE  h \notin archive \/ Told("remove", h) \/ Told("commit", h)
      OBVIOUS
  <2>1. CASE HandleReply
    <3>0. DOMAIN replies = 1..Len(replies) /\ 1 \in 1..Len(replies) /\ Head(replies) = replies[1]
      BY <2>1 DEF IInv, LibraryTypeOK, HandleReply
    <3>1. CASE h \in unheard'
      <4>1. /\ Head(replies).request.hash = h /\ Head(replies).code = "ok"
            /\ Head(replies).request.cmd = "commit"
        BY <2>1, <3>1 DEF HandleReply
      <4> QED
        BY <3>0, <4>1 DEF Told, Entries
    <3>2. CASE h \notin unheard'
      <4>1. Changes(Head(replies), h) /\ Effect(Head(replies)) = "none"
        BY <2>1, <3>2, ReadRecords DEF Recorded
      <4>2. CASE Head(replies).request.by = "sweep"
        <5>1. Head(replies).request.cmd = "restore"
          BY <3>0, <4>2 DEF IInv, KindsHold, Underway, Entries
        <5>2. Head(replies).code = "NOT_FOUND" /\ Head(replies).request.hash = h
          BY <4>1, <4>2 DEF Changes
        <5>3. \/ h \notin archive
              \/ \E j \in 1..Len(replies) :
                    /\ replies[j].request.cmd = "commit" /\ replies[j].request.hash = h
                    /\ replies[j].code = "ok"
          BY <3>0, <5>1, <5>2 DEF IInv, InStep, MissingIsOut
        <5> QED
          BY <3>0, <5>3 DEF Told, Entries
      <4>3. CASE Head(replies).request.by # "sweep"
        <5>1. /\ Head(replies).request.cmd = "remove" /\ Head(replies).code = "ok"
              /\ Head(replies).request.hash = h
          BY <4>1, <4>3 DEF Changes, Effect
        <5> QED
          BY <3>0, <5>1 DEF Told, Entries
      <4> QED
        BY <4>2, <4>3
    <3> QED
      BY <3>1, <3>2
  <2>2. CASE ~HandleReply
    <3>1. library' = library
      BY <2>2 DEF LibraryNext, EngineStep, CommitAdds, CommitDuplicate, CommitArchives, RemoveSession,
                  RemoveArchive, RestoreMissing, RestoreDuplicate, RestoreFails, Restore,
                  SetPaused, Missing, Fails, GivenUp, Refuse, Call, Timeout, SweepNext,
                  Crash, Ready, durable
    <3> QED
      BY <3>1 DEF Recorded
  <2> QED
    BY <2>1, <2>2
<1> QED
  BY <1>1, LibraryInductive, PTL DEF LibrarySpec, DroppedWhenGone

================================================================================
