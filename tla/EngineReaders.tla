----------------------------- MODULE EngineReaders -----------------------------
(* The readers of everything that comes from outside, and what main makes of    *)
(* the engine's answers, as subjects of EngineServices beside the services: a   *)
(* property of a reader is about the input of the behaviour.                    *)
EXTENDS EngineServices, TrackerWire, TorrentMetadata, EngineApi

Readers == {"documents", "messages", "requests", "answers", "datagrams", "frames", "contacts",
            "addresses", "torrents", "magnets", "topics", "pieces", "commits", "pages",
            "scans", "summaries", "operations", "failures"}

(* ------------------------- what a reader may be given ----------------------- *)

IsAddress(address) == address \in Seq(Nat)

AreAddressed(list) == IsList(list) /\ \A x \in ToSet(list) : IsAddress(x.address)

\* The peers of an announce's answer: compact, a list of dictionaries, or neither.
IsPeerList(l) ==
    /\ l.form = "compact" => AreAddressed(l.contacts)
    /\ l.form = "list" => AreAddressed(l.entries)

\* The fields of a response, each of them absent or not.
IsAnswer(r) ==
    r = [id |-> r.id, nodes |-> r.nodes, values |-> r.values, nodes6 |-> r.nodes6,
         values6 |-> r.values6, token |-> r.token]

\* A session description: the candidates among its lines have addresses.
IsDescription(envelope) ==
    /\ IsList(envelope.lines)
    /\ \A line \in ToSet(envelope.lines) :
          line.kind = "candidate" => IsAddress(line.address)

\* A counter of the torrent client's.
IsCounter(c) == c \in Int \cup {NaN, Infinite}

IsCounters(c) ==
    /\ IsCounter(c.downloaded) /\ IsCounter(c.uploaded) /\ IsCounter(c.peers)
    /\ IsCounter(c.rate) /\ IsCounter(c.timeRemaining)

\* A torrent the manager has a summary of.
IsSession(session) ==
    /\ session.fileCount \in 1..MaxFileCount
    /\ IsFiniteSet(session.selected) /\ Cardinality(session.selected) <= session.fileCount
    /\ session.length \in 0..LargestInteger
    /\ session.state \in {"adding", "running", "paused", "removing", "removed"}

\* A torrent of the former application's state, as reading it came out.
Outcomes == {"unnamed", "unread", "untracked", "v2", "invalid", "valid"}

IsRaw(raw) ==
    /\ raw.outcome \in Outcomes
    /\ raw.outcome = "valid" => /\ raw.fileCount \in Nat \ {0}
                                /\ \A s \in raw.selections : s \in Seq(BOOLEAN)

IsRaws(raws) == IsList(raws) /\ \A raw \in ToSet(raws) : IsRaw(raw)

\* Items of a listing.  A torrent's name and a file's path passed the metadata's
\* reader (TorrentMetadata); the names of the previous application are of any
\* size, with one to three bytes a character.
AreItems(s) == IsList(s) /\ \A x \in ToSet(s) : x.bytes \in Nat

IsLegacyName(x) ==
    /\ x = [key |-> x.key, bytes |-> x.bytes, characters |-> x.characters,
            control |-> x.control, first |-> x.first]
    /\ x.characters \in Nat \ {0} /\ x.bytes \in x.characters..(3 * x.characters)
    /\ x.control \in BOOLEAN
    \* The part that is kept of a name that is cut.
    /\ x.first = [bytes |-> x.first.bytes, control |-> x.first.control]
    /\ x.first.bytes \in 0..(3 * (MaxNameBytes - 3)) /\ x.first.control \in BOOLEAN

IsListing(listing, items) ==
    /\ AreItems(items) /\ Len(items) <= MaxFileCount
    /\ \/ /\ listing = "torrents"
          /\ \A x \in ToSet(items) : x.key \in Int /\ BoundedName(x)
          /\ \A i, j \in 1..Len(items) : items[i].key = items[j].key => i = j
       \/ /\ listing = "files" /\ Ordered(items)
          /\ \A x \in ToSet(items) : BoundedPath(x)
       \/ /\ listing = "legacy"
          /\ \A x \in ToSet(items) : IsLegacyName(x)

\* The input of a reader has its type; what it says is up to whoever sent it.
IsInput(reader, i) ==
    /\ reader = "requests" => IsList(i.url.query)
    /\ reader = "answers" => \A list \in i.peers : IsPeerList(list)
    /\ reader = "datagrams" => \A r \in i.r : IsAnswer(r)
    /\ reader = "frames" => \A e \in i.offer \cup i.answer : IsDescription(e)
    /\ reader = "contacts" => AreAddressed(i)
    /\ reader = "addresses" => IsAddress(i) /\ IsIpv4(i)
    /\ reader = "torrents" => IsTorrentFile(i.root, i.info)
    /\ reader = "magnets" => AreParameters(i.parameters)
    /\ reader = "topics" => IsTopic(i)
    /\ reader = "pieces" => ArePlaced(i.files, i.geometry)
    /\ reader = "commits" => IsFiles(i.observed.files) /\ IsFiles(i.expected.files)
    /\ reader = "pages" => IsListing(i.listing, i.items) /\ i.limit \in 1..MaxPageItems
    /\ reader = "scans" => IsRaws(i)
    /\ reader = "summaries" => IsSession(i.session) /\ IsCounters(i.counters)
    /\ reader = "operations" => i.asked.command \in Commands
    /\ reader = "failures" =>
          (i.error.from = "preparation" => i.error.code \in PreparationErrorCodes)

ASSUME ReadersAssumption ==
    /\ Subjects \cap Readers = {}
    /\ \A reader \in DOMAIN Inputs : \A k \in DOMAIN Inputs[reader] :
          \A i \in Inputs[reader][k] : IsInput(reader, i)

(* ------------------------------- properties --------------------------------- *)

\* What comes from outside leads nowhere it may not: an announce asks for the
\* client itself, an answer, a datagram and a relayed description name only
\* peers within the limits and at addresses that may be reached, and those are
\* the addresses outside the special-purpose blocks.
OutsidersAreConfined ==
    /\ subject = "requests" => AsksForItself(input.request, input.url)
    /\ subject = "answers" => \A private \in BOOLEAN : BelievesWithinBounds(input, private)
    /\ subject = "datagrams" => MessageIsUsable(input)
    /\ subject = "frames" => \A private \in BOOLEAN : DescriptionIsConfined(input, private)
    /\ subject = "contacts" =>
          LET handed == SanitizeContacts(input, MaxAcceptedPeers)
          IN  /\ Len(handed) <= MaxAcceptedPeers
              /\ \A i \in 1..Len(handed) : ~SpecialPurpose(handed[i].address)
    /\ subject = "addresses" =>
          /\ IsPublicIpv4(input) <=> ~SpecialPurpose(input)
          /\ IsPrivateNetworkIpv4(input) <=> PrivateUse(input)

\* A torrent file or a magnet that is let through can be stored, reached and
\* selected from.
PreparedIsUsable ==
    /\ subject = "torrents" => MetadataIsUsable(input.root, input.info)
    /\ subject = "magnets" => MagnetCanBeStaged(input.parameters, input.allowDht)
    /\ subject = "topics" => BtihKeepsItsBits(input)
    /\ subject = "pieces" =>
          RangesAreThePieces(input.files, input.selected, input.geometry)

\* The torrent that is committed is the one that was prepared, down to the
\* pieces of every selection.
CommittedIsPrepared ==
    subject = "commits" =>
        CommitKeepsTheSelection(input.observed, input.expected, input.reservation)

\* What the engine answers main accepts and understands: its pages add up to the
\* listing and its summaries are in the contract, each with the exceptions named,
\* its refusals tell a torrent that is gone from one that failed, and an answer
\* is taken for no other command's.
AnswersAreUnderstood ==
    /\ subject = "pages" => PagesAddUp(input.listing, input.items, input.limit)
    /\ subject = "scans" => ScanOffersOnce(input)
    /\ subject = "summaries" => SummaryIsAccepted(input.session, input.counters)
    /\ subject = "operations" => AnswerNamesItsSubject(input.asked, input.other)
    /\ subject = "failures" => FailureIsTold(input.error, input.aborted)

\* Whatever the client counts, what is said of a torrent is in the contract
\* (disk-torrent.ts:319, "Values are clamped rather than trusted so a WebTorrent
\* regression cannot produce a DTO the contract rejects").
SummariesFitTheContract ==
    subject = "summaries" => SummaryAccepted(Summary(input.session, input.counters))

================================================================================
