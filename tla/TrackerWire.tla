------------------------------ MODULE TrackerWire ------------------------------
(* What a tracker is asked and what of its answer is believed.  Over HTTP       *)
(* (src/engine/tracker-http.ts): the announce URL and the reading of the answer *)
(* the decoder (NestedValues) made out, given by what its fields hold, an absent *)
(* field by the empty set.                                                      *)
EXTENDS AddressPolicy, FiniteSets

CONSTANTS
    MaxAcceptedPeers,    \* maxAcceptedPeers
    MaxCount,            \* 2,147,483,647
    MaxTrackerId,        \* MAX_TRACKER_ID_BYTES
    MinInterval, MaxInterval  \* the announce intervals' bounds

ASSUME WireAssumption ==
    /\ MaxAcceptedPeers \in Nat /\ MaxCount \in Nat
    /\ MinInterval \in Int /\ MaxInterval \in Int /\ MinInterval <= MaxInterval

(* ------------------------------- the request -------------------------------- *)

Reserved == {"compact", "downloaded", "event", "info_hash", "left", "no_peer_id",
             "numwant", "peer_id", "port", "trackerid", "uploaded"}

Always == <<"info_hash", "peer_id", "port", "uploaded", "downloaded", "left",
            "compact", "no_peer_id", "numwant">>

\* validateAnnounceInput: the fields' shapes; tracker ids by their length.
InputSound(input) ==
    /\ input.hash = 20 /\ input.peerId = 20
    /\ input.left >= 0
    /\ input.port \in Ports
    /\ \A event \in input.event : event \in {"completed", "started", "stopped"}
    /\ \A id \in input.trackerId : id \in 1..MaxTrackerId

\* The parameters the announce adds to the URL's own.
Fields(input) ==
    Always \o (IF input.event # {} THEN <<"event">> ELSE <<>>)
           \o (IF input.trackerId # {} THEN <<"trackerid">> ELSE <<>>)

Refusal(code) == [code |-> code, query |-> <<>>]

\* buildTrackerAnnounceUrl: the names of the parameters asked with, in order.
AnnounceUrl(input, url) ==
    IF ~InputSound(input) \/ ~url.parses THEN Refusal("INVALID_REQUEST")
    ELSE IF url.scheme = "http" /\ ~input.allowHttp THEN Refusal("HTTP_DISABLED")
    ELSE IF url.scheme \notin {"http", "https"} THEN Refusal("TRANSPORT_DISABLED")
    ELSE IF ~url.sound \/ (\E i \in 1..Len(url.query) : url.query[i] \in Reserved)
    THEN Refusal("INVALID_REQUEST")
    ELSE [code |-> "OK", query |-> url.query \o Fields(input)]

(* -------------------------------- the answer -------------------------------- *)

Believed(code, interval, peers) ==
    [code |-> code, interval |-> interval, peers |-> peers]

Disbelieved(code) == Believed(code, 0, <<>>)

\* normalizedAnnounceInterval.
Interval(n) == IF n < MinInterval THEN MinInterval
               ELSE IF n > MaxInterval THEN MaxInterval ELSE n

\* The peers a compact list names.
CompactPeers(list) ==
    [i \in 1..Len(list.contacts) |->
        [address |-> list.contacts[i].address, port |-> list.contacts[i].port,
         peerId |-> {}]]

\* One entry of a list of dictionaries is as the reader demands it.
EntrySound(entry) ==
    /\ entry.family \in {4, 6}
    /\ entry.port \in Ports
    /\ \A id \in entry.peerId : id # "malformed"

\* The peers a list of dictionaries names: IPv6 ones are left out.
ListedPeers(list) ==
    LET v4 == Kept(list.entries, {e \in ToSet(list.entries) : e.family = 4})
    IN  [i \in 1..Len(v4) |-> [address |-> v4[i].address, port |-> v4[i].port,
                               peerId |-> v4[i].peerId]]

\* What one of the two lists of peers leads to: a code, and the peers it names.
PeersOf(list) ==
    LET none(code) == [code |-> code, peers |-> <<>>]
    IN  CASE list.form = "compact" ->
               IF list.rest # 0 THEN none("INVALID_RESPONSE")
               ELSE IF Len(list.contacts) > MaxAcceptedPeers THEN none("PEER_LIMIT")
               ELSE IF \E i \in 1..Len(list.contacts) : list.contacts[i].port < 1
               THEN none("INVALID_RESPONSE")
               ELSE [code |-> "OK", peers |-> CompactPeers(list)]
          [] list.form = "list" ->
               IF Len(list.entries) > MaxAcceptedPeers THEN none("PEER_LIMIT")
               ELSE IF \E i \in 1..Len(list.entries) : ~EntrySound(list.entries[i])
               THEN none("INVALID_RESPONSE")
               ELSE [code |-> "OK", peers |-> ListedPeers(list)]
          [] OTHER -> none("INVALID_RESPONSE")

\* What the IPv6 list leads to: it is checked, counted and dropped.
CheckPeers6(list, current) ==
    IF list.form # "compact" \/ list.rest # 0 THEN "INVALID_RESPONSE"
    ELSE IF current + Len(list.contacts) > MaxAcceptedPeers THEN "PEER_LIMIT"
    ELSE IF \E i \in 1..Len(list.contacts) : list.contacts[i].port < 1
    THEN "INVALID_RESPONSE"
    ELSE "OK"

\* The first peer of each address and port, in order.
FirstMentions(peers) ==
    FoldLeft(LAMBDA kept, peer :
                IF \E i \in 1..Len(kept) :
                       kept[i].address = peer.address /\ kept[i].port = peer.port
                THEN kept ELSE Append(kept, peer),
             <<>>, peers)

\* The fields that hold numbers or texts are absent or as the reader demands.
FieldsSound(answer) ==
    /\ answer.interval # {} /\ answer.interval \subseteq 1..MaxCount
    /\ answer.minInterval \subseteq 1..MaxCount
    /\ answer.complete \cup answer.incomplete \subseteq 0..MaxCount
    /\ answer.warning \subseteq {"sound", "empty"}
    /\ answer.trackerId \subseteq 1..MaxTrackerId

\* parseTrackerAnnounceResponse, on what the decoder found.
ReadAnswer(answer, allowPrivate) ==
    LET none == [form |-> "compact", contacts |-> <<>>, rest |-> 0]
        only(list) == IF list = {} THEN none ELSE CHOOSE l \in list : TRUE
        read == PeersOf(only(answer.peers))
        ignored == CheckPeers6(only(answer.peers6), Len(read.peers))
        named == FirstMentions(read.peers)
    IN  IF answer.failure # {}
        THEN Disbelieved(IF answer.failure = {"sound"} THEN "TRACKER_FAILURE"
                                                       ELSE "INVALID_RESPONSE")
        ELSE IF ~FieldsSound(answer) THEN Disbelieved("INVALID_RESPONSE")
        ELSE IF read.code # "OK" THEN Disbelieved(read.code)
        ELSE IF ignored # "OK" THEN Disbelieved(ignored)
        ELSE Believed("OK", Interval(CHOOSE n \in answer.interval : TRUE),
                Kept(named, {peer \in ToSet(named) : PeerAllowed(peer, allowPrivate)}))

(* ------------------------------- properties --------------------------------- *)

\* The parameters that say who asks, for what and how are in the request once and
\* are the client's own, whatever query the tracker's URL came with; and http
\* is used only when it was allowed.
AsksForItself(input, url) ==
    LET sent == AnnounceUrl(input, url)
    IN  sent.code = "OK" =>
          /\ \A name \in Reserved \ {"event", "trackerid"} :
                \E i \in 1..Len(sent.query) :
                    /\ sent.query[i] = name /\ i > Len(url.query)
                    /\ \A j \in 1..Len(sent.query) : sent.query[j] = name => j = i
          /\ \A name \in {"event", "trackerid"} :
                Cardinality({i \in 1..Len(sent.query) : sent.query[i] = name}) <= 1
          /\ url.scheme = "http" => input.allowHttp

\* The peers an answer names, in either form: by address and port.
Named(answer) ==
    UNION {IF list.form = "compact"
           THEN {<<list.contacts[i].address, list.contacts[i].port>> : i \in 1..Len(list.contacts)}
           ELSE IF list.form = "list"
           THEN {<<list.entries[i].address, list.entries[i].port>> : i \in 1..Len(list.entries)}
           ELSE {} : list \in answer.peers}

\* A believed answer leads to no more peers than the limit, none twice, none
\* off limits, none that is the client itself and none the tracker did not name;
\* and the next announce is neither a flood nor never.
BelievesWithinBounds(answer, allowPrivate) ==
    LET read == ReadAnswer(answer, allowPrivate)
        peers == read.peers
    IN  IF read.code = "OK"
        THEN /\ answer.failure = {}
             /\ read.interval \in MinInterval..MaxInterval
             /\ Len(peers) <= MaxAcceptedPeers
             /\ \A i, j \in 1..Len(peers) :
                    <<peers[i].address, peers[i].port>> = <<peers[j].address, peers[j].port>>
                        => i = j
             /\ \A i \in 1..Len(peers) :
                    /\ <<peers[i].address, peers[i].port>> \in Named(answer)
                    /\ SpecialPurpose(peers[i].address) =>
                           allowPrivate /\ PrivateUse(peers[i].address)
                    /\ LocalPeerId \notin peers[i].peerId
        ELSE peers = <<>>

(* ---------------------------- WebSocket trackers ---------------------------- *)

(* The frames a WebSocket tracker sends and the session descriptions they carry *)
(* (src/engine/wss-message.ts).  A parsed frame is given by the keys it has and *)
(* what they hold, an absent key by the empty set; a description is a sequence  *)
(* of lines, a line what the filters look at: its kind, whether it is short     *)
(* enough, and the address of a candidate.                                      *)

CONSTANTS
    MaxKeys,        \* maxKeys
    MaxSdpLines,    \* maxSdpLines
    MaxCandidates   \* maxCandidates

ASSUME FramesAssumption == MaxSdpLines \in Nat /\ MaxCandidates \in Nat

Recognized == {"action", "answer", "complete", "failure reason", "incomplete",
               "info_hash", "interval", "min interval", "offer", "offer_id",
               "offers", "peer_id", "to_peer_id", "tracker id", "warning message"}

\* A binary identity is given by whether it is twenty bytes.
BinaryIdentity(value) == value = {TRUE}

\* validateSdp: one data channel and nothing else, within the limits.
SdpSound(lines) ==
    /\ Len(lines) <= MaxSdpLines
    /\ \A i \in 1..Len(lines) : lines[i].short /\ lines[i].kind # "media"
    /\ Cardinality({i \in 1..Len(lines) : lines[i].kind = "application"}) = 1
    /\ Cardinality({i \in 1..Len(lines) : lines[i].kind = "candidate"}) <= MaxCandidates

\* parseSessionDescription.
EnvelopeSound(envelope, kind) ==
    envelope.plain /\ envelope.type = kind /\ SdpSound(envelope.lines)

CandidateAllowed(line, allowPrivate) ==
    \/ IsPublicIpv4(line.address)
    \/ allowPrivate /\ IsPrivateNetworkIpv4(line.address)

KeepsLine(line, allowPrivate) ==
    /\ line.kind # "remote-candidates"
    /\ line.kind = "candidate" => CandidateAllowed(line, allowPrivate)

\* filterIceCandidates: the lines that stay, or none when no candidate did.
FilterIce(lines, allowPrivate) ==
    LET kept == Kept(lines, {line \in ToSet(lines) : KeepsLine(line, allowPrivate)})
    IN  IF \E i \in 1..Len(kept) : kept[i].kind = "candidate" THEN kept ELSE <<>>

Refuses == [kind |-> "refused", lines |-> <<>>]

\* parseWssMessage, then the filter every description passes before it is used.
ReadFrame(frame, allowPrivate) ==
    LET kind == IF frame.offer # {} THEN "offer" ELSE "answer"
        envelope == CHOOSE e \in frame.offer \cup frame.answer :
                        frame.offer # {} => e \in frame.offer
    IN  IF \/ ~frame.object
           \/ Cardinality(frame.keys) > MaxKeys
           \/ ~(frame.keys \subseteq Recognized)
           \/ ~(frame.action \subseteq {"announce"})
           \/ ~BinaryIdentity(frame.hash)
        THEN Refuses
        ELSE IF frame.offer \cup frame.answer # {}
        THEN IF /\ BinaryIdentity(frame.offerId) /\ BinaryIdentity(frame.peerId)
                /\ EnvelopeSound(envelope, kind)
             THEN [kind |-> kind, lines |-> FilterIce(envelope.lines, allowPrivate)]
             ELSE Refuses
        ELSE IF frame.counts /\ frame.texts THEN [kind |-> "announce", lines |-> <<>>]
        ELSE Refuses

(* ------------------------------- properties --------------------------------- *)

\* Whatever a tracker relays, the description that reaches the peer connection
\* opens the one data channel and no media, names only candidates the engine
\* may reach and at least one, tells nothing about the remote's choice, and
\* would pass the same checks again unchanged.
DescriptionIsConfined(frame, allowPrivate) ==
    LET read == ReadFrame(frame, allowPrivate)
        kinds == {read.lines[i].kind : i \in 1..Len(read.lines)}
    IN  read.lines # <<>> =>
          /\ read.kind \in {"offer", "answer"}
          /\ SdpSound(read.lines)
          /\ FilterIce(read.lines, allowPrivate) = read.lines
          /\ {"application", "candidate"} \subseteq kinds
          /\ {"media", "remote-candidates"} \cap kinds = {}
          /\ \A i \in 1..Len(read.lines) :
                /\ read.lines[i].kind = "candidate"
                /\ SpecialPurpose(read.lines[i].address)
                => allowPrivate /\ PrivateUse(read.lines[i].address)

===============================================================================
