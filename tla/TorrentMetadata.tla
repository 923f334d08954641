---------------------------- MODULE TorrentMetadata ----------------------------
(* What a torrent file or a magnet link must be to be prepared                  *)
(* (src/engine/torrent-metadata.ts), and the comparison a prepared torrent      *)
(* passes before it is committed (src/engine/metadata-commit-barrier.ts), and the *)
(* pieces a selection of its files needs (src/engine/piece-selection.ts).  A    *)
(* decoded dictionary is a record, an absent key the empty set; a path segment  *)
(* is a model value; a URL is what the policy looks at.  Refusals no property   *)
(* tells apart are one code, REFUSED.                                           *)
EXTENDS Lists, FiniteSets

CONSTANTS
    SafeSegments,     \* the segments validatePathSegment lets through
    Nfc,              \* the composed form of each segment
    Identity,         \* pathIdentity of each segment: its form on a disk that
                      \* keeps neither case nor composition apart
    MaxPathSegments,  \* pathSegments
    MaxFiles,         \* files
    MaxTiers,         \* trackerTiers
    MaxPerTier,       \* trackersPerTier
    MaxTrackers,      \* trackerCount
    MaxSeeds,         \* webSeedCount
    MaxPieceLength,   \* pieceLength
    MaxPieces,        \* pieceCount
    MaxTerms,         \* selectionTerms
    MaxIndexes,       \* selectionIndexes
    MaxParameters     \* magnetParameters

Only(field) == CHOOSE x \in field : TRUE

(* --------------------------- pieces of a selection -------------------------- *)

Ceil(n, d) == (n + d - 1) \div d

\* assertGeometry.
GeometrySound(geometry) ==
    /\ geometry.pieceLength >= 1
    /\ geometry.totalLength >= 0
    /\ geometry.pieceCount = Ceil(geometry.totalLength, geometry.pieceLength)

\* The pieces from a file's first byte to its last.
RangeOf(file, geometry) ==
    [start |-> file.offset \div geometry.pieceLength,
     end |-> (file.offset + file.length - 1) \div geometry.pieceLength]

\* Ranges in the order of their starts, joined where they touch or overlap.
Merge(ranges) ==
    FoldLeft(LAMBDA merged, range :
        IF merged # <<>> /\ range.start <= Last(merged).end + 1
        THEN [merged EXCEPT ![Len(merged)].end = IF range.end > @ THEN range.end ELSE @]
        ELSE Append(merged, range),
        <<>>, ranges)

Invalid == <<[start |-> -1, end |-> -1]>>

\* desiredPieceRanges: the ranges, or Invalid when the code throws.
DesiredPieceRanges(files, selected, geometry) ==
    LET indexes == {files[i].index : i \in 1..Len(files)}
        wanted == Kept(files, {f \in ToSet(files) : f.index \in selected /\ f.length > 0})
        ranges == [i \in 1..Len(wanted) |-> RangeOf(wanted[i], geometry)]
    IN  IF /\ GeometrySound(geometry)
           /\ selected \subseteq indexes
           /\ \A i \in 1..Len(wanted) :
                 /\ wanted[i].offset >= 0
                 /\ wanted[i].offset + wanted[i].length <= geometry.totalLength
        THEN Merge(Ranked(ranges, [r \in ToSet(ranges) |-> r.start]))
        ELSE Invalid

\* pieceRangesEqual.
SameRanges(left, right) ==
    /\ Len(left) = Len(right)
    /\ \A i \in 1..Len(left) : left[i].start = right[i].start /\ left[i].end = right[i].end

(* ------------------------------- the manifest ------------------------------- *)

\* Two spellings of one text agree, and one of them is there.
Agree(regular, utf8) ==
    /\ regular \cup utf8 # {}
    /\ \A r \in regular, u \in utf8 :
          Len(r) = Len(u) /\ \A i \in 1..Len(r) : Nfc[r[i]] = Nfc[u[i]]

\* The spelling that counts when both are there.
Preferred(regular, utf8) == IF utf8 # {} THEN Only(utf8) ELSE Only(regular)

PathSound(path) ==
    /\ Len(path) \in 1..MaxPathSegments
    /\ \A i \in 1..Len(path) : path[i] \in SafeSegments

PathIdentity(path) == [i \in 1..Len(path) |-> Identity[path[i]]]

\* The directories a file is in.
Above(id) == {SubSeq(id, 1, k) : k \in 1..(Len(id) - 1)}

\* Mutant: a directory seen before is not remembered.
PlacedAmongFiles(tree, path) ==
    LET id == PathIdentity(path)
    IN  [sound |-> tree.sound /\ id \notin tree.files /\ Above(id) \cap tree.files = {},
         files |-> tree.files \cup {id},
         directories |-> {}]

\* The files and directories seen so far, and whether each had its own place.
Placed(tree, path) ==
    LET id == PathIdentity(path)
    IN  [sound |-> /\ tree.sound
                   /\ id \notin tree.files \cup tree.directories
                   /\ Above(id) \cap tree.files = {},
         files |-> tree.files \cup {id},
         directories |-> tree.directories \cup Above(id)]

Tree(files) ==
    FoldLeft(LAMBDA tree, file : Placed(tree, file.path),
             [sound |-> TRUE, files |-> {}, directories |-> {}], files)

\* extractManifest: the files with their paths, or none when it throws.
Manifest(info) ==
    LET name == Preferred(info.name, info.nameUtf8)
        raw == Only(info.files)
        files == IF info.files = {}
                 THEN <<[length |-> Only(info.length), path |-> name]>>
                 ELSE [i \in 1..Len(raw) |->
                         [length |-> raw[i].length,
                          path |-> name \o Preferred(raw[i].path, raw[i].pathUtf8)]]
    IN  IF /\ Agree(info.name, info.nameUtf8)
           /\ (info.files = {}) # (info.length = {})
           /\ \A list \in info.files :
                 /\ Len(list) \in 1..MaxFiles
                 /\ \A i \in 1..Len(list) : Agree(list[i].path, list[i].pathUtf8)
           /\ \A i \in 1..Len(files) :
                 files[i].length >= 0 /\ PathSound(files[i].path)
           /\ Tree(files).sound
        THEN files
        ELSE <<>>

(* ------------------------- trackers and web seeds --------------------------- *)

\* rawTrackerTiers: the tiers as they are written, and whether they may be.
RawTiers(root) ==
    IF root.tiers = {} \/ root.tiers = {<<>>}
    THEN IF root.announce = {} THEN <<>> ELSE <<<<Only(root.announce)>>>>
    ELSE Only(root.tiers)

TiersSound(tiers) ==
    /\ Len(tiers) <= MaxTiers
    /\ \A i \in 1..Len(tiers) : Len(tiers[i]) \in 1..MaxPerTier
    /\ FoldLeft(LAMBDA n, tier : n + Len(tier), 0, tiers) <= MaxTrackers

Announceable(url) == url.scheme \in {"https", "wss"}

KnownTracker(url) == url.sound /\ url.scheme \in {"http", "https", "wss"}

\* The trackers of a tier the policy knows and that are not in the tiers already.
NewTrackers(all, tier) ==
    Firsts(Kept(tier, {url \in ToSet(tier) :
                         KnownTracker(url) /\ \A i \in 1..Len(all) : url \notin ToSet(all[i])}))

\* validateTrackerTiers: each tracker once, in the first tier that names it, and
\* no tier that is empty.
ValidTiers(tiers) ==
    FoldLeft(LAMBDA all, tier :
                LET added == NewTrackers(all, tier)
                IN  IF added = <<>> THEN all ELSE Append(all, added),
             <<>>, tiers)

\* validateWebSeeds: the sound ones, once each.
ValidSeeds(urls) ==
    Firsts(Kept(urls, {url \in ToSet(urls) : url.sound /\ url.scheme \in {"http", "https"}}))

(* -------------------------------- the torrent ------------------------------- *)

TotalLength(files) == FoldLeft(LAMBDA n, file : n + file.length, 0, files)

\* The files with their indexes and the offsets they begin at.
Laid(files) ==
    [i \in 1..Len(files) |->
        [index |-> i - 1, length |-> files[i].length, path |-> files[i].path,
         offset |-> TotalLength(SubSeq(files, 1, i - 1))]]

Rejects(code) ==
    [code |-> code, files |-> <<>>, tiers |-> <<>>, seeds |-> <<>>, private |-> FALSE,
     length |-> 0, pieceCount |-> 0, pieceLength |-> 1]

\* A private torrent that could never reach a peer.
NeedsTracker(info, tiers) ==
    /\ info.private = {1}
    /\ \A i \in 1..Len(tiers) : \A url \in ToSet(tiers[i]) : ~Announceable(url)

\* validateTorrentMetadata, on a document the scanner has passed and the parser
\* reads as the code does.
Validated(root, info) ==
    LET files == Manifest(info)
        length == TotalLength(files)
        tiers == ValidTiers(RawTiers(root))
    IN  IF \/ root.v2
           \/ ~TiersSound(RawTiers(root))
           \/ Len(root.seeds) > MaxSeeds
           \/ ~(info.private \subseteq {0, 1})
           \/ files = <<>>
           \/ info.pieceLength \notin 1..MaxPieceLength
           \/ info.pieces # Ceil(length, info.pieceLength)
           \/ info.pieces > MaxPieces
        THEN Rejects("REFUSED")
        ELSE IF NeedsTracker(info, tiers) THEN Rejects("PRIVATE_TRACKER_REQUIRED")
        ELSE [code |-> "OK", files |-> Laid(files), tiers |-> tiers,
              seeds |-> ValidSeeds(root.seeds), private |-> info.private = {1},
              length |-> length, pieceCount |-> info.pieces,
              pieceLength |-> info.pieceLength]

(* --------------------------------- magnets ---------------------------------- *)

\* A 5-bit digit goes behind the bits that are left, and the first eight of them
\* are a byte.
TakesDigit(s, digit) ==
    LET accumulator == s.accumulator * 32 + digit
        bits == s.bits + 5
    IN  IF bits >= 8
        THEN [bytes |-> Append(s.bytes, accumulator \div 2^(bits - 8)),
              bits |-> bits - 8, accumulator |-> accumulator % 2^(bits - 8)]
        ELSE [bytes |-> s.bytes, bits |-> bits, accumulator |-> accumulator]

\* normalizedBtih.
Base32Bytes(digits) ==
    FoldLeft(TakesDigit, [bytes |-> <<>>, bits |-> 0, accumulator |-> 0], digits).bytes

\* The files of the ranges, one range after the other.
NamedFiles(terms) ==
    FoldLeft(LAMBDA named, term :
                named \o [i \in 1..(term[2] - term[1] + 1) |-> term[1] + i - 1],
             <<>>, terms)

\* parseSelectionExpression: the files of the ranges, each where it is first
\* named, or {} when the code throws.
Selected(terms) ==
    LET sizes == FoldLeft(LAMBDA n, t : n + t[2] - t[1] + 1, 0, terms)
    IN  IF /\ Len(terms) \in 1..MaxTerms
           /\ \A i \in 1..Len(terms) : 0 <= terms[i][1] /\ terms[i][1] <= terms[i][2]
                                       /\ terms[i][2] < MaxFiles
           /\ sizes <= MaxIndexes
        THEN {Firsts(NamedFiles(terms))}
        ELSE {}

\* The values of a magnet's parameters of one key.
ValuesOf(parameters, key) ==
    LET these == Kept(parameters, {p \in ToSet(parameters) : p.key = key})
    IN  [i \in 1..Len(these) |-> these[i].value]

NoMagnet(code) ==
    [code |-> code, hash |-> "none", trackers |-> <<>>, seeds |-> <<>>,
     selection |-> <<>>, dht |-> FALSE, xsRemoved |-> FALSE]

UsesDht(trackers, tiers) == trackers = <<>>

\* prepareMagnet: the exact topic, the trackers it may be staged with, and what
\* of the rest is kept.  A topic is given by its form and the hash it spells.
PrepareMagnet(parameters, allowDht) ==
    LET topics == ValuesOf(parameters, "xt")
        selections == ValuesOf(parameters, "so")
        tiers == ValidTiers(<<ValuesOf(parameters, "tr")>>)
        flat == IF tiers = <<>> THEN <<>> ELSE tiers[1]
        trackers == Kept(flat, {url \in ToSet(flat) : Announceable(url)})
        dht == UsesDht(trackers, tiers)
        seeds == ValidSeeds(ValuesOf(parameters, "ws"))
    IN  IF \/ Len(parameters) > MaxParameters
           \/ Len(topics) # 1
           \/ topics[1].form \notin {"hex", "base32"}
           \/ Len(selections) > 1
           \/ Len(selections) = 1 /\ Selected(selections[1]) = {}
           \/ Len(flat) > MaxTrackers
           \/ Len(seeds) > MaxSeeds
        THEN NoMagnet("REFUSED")
        ELSE IF dht /\ ~allowDht THEN NoMagnet("DHT_CONSENT_REQUIRED")
        ELSE [code |-> "OK", hash |-> topics[1].hash, trackers |-> trackers,
              seeds |-> seeds,
              selection |-> IF selections = <<>> THEN <<>> ELSE Only(Selected(selections[1])),
              dht |-> dht,
              xsRemoved |-> \E i \in 1..Len(parameters) :
                                parameters[i].key \in {"xs", "x.pe"}]

(* -------------------------------- the barrier ------------------------------- *)

\* Mutant: the barrier does not look at the files' lengths.
SameFilesByPath(observed, expected) ==
    /\ Len(observed) = Len(expected)
    /\ \A i \in 1..Len(expected) : observed[i].path = expected[i].path

SameFiles(observed, expected) ==
    /\ Len(observed) = Len(expected)
    /\ \A i \in 1..Len(expected) :
          observed[i].path = expected[i].path /\ observed[i].length = expected[i].length

\* runMetadataCommitBarrier: the torrent the client holds is the prepared one.
BarrierPasses(observed, expected, reservation) ==
    /\ reservation.faults = 0
    /\ reservation.hash = expected.hash
    /\ reservation.fileCount = Len(expected.files)
    /\ observed.readable
    /\ observed.hash = expected.hash
    /\ observed.info = expected.info
    /\ observed.name = expected.name
    /\ observed.private = expected.private
    /\ observed.pieceLength = expected.pieceLength
    /\ observed.length = expected.length
    /\ SameFiles(observed.files, expected.files)

(* ------------------------- what a reader may be given ----------------------- *)

\* Files as the client and the preparation describe them.
IsFiles(files) ==
    IsList(files) /\ \A f \in ToSet(files) : f = [path |-> f.path, length |-> f.length]

\* Files of a torrent, wherever they begin.
ArePlaced(files, geometry) ==
    /\ IsList(files)
    /\ \A f \in ToSet(files) : f.offset \in Int /\ f.length \in Nat
    /\ geometry.pieceLength \in Int /\ geometry.totalLength \in Int

\* A torrent file, decoded: its lists are lists and its numbers are numbers.
IsTorrentFile(root, info) ==
    /\ \A tiers \in root.tiers : IsList(tiers) /\ \A tier \in ToSet(tiers) : IsList(tier)
    /\ \A path \in info.name \cup info.nameUtf8 : IsList(path)
    /\ info.length \subseteq Int
    /\ \A files \in info.files :
          /\ IsList(files)
          /\ \A f \in ToSet(files) :
                f.length \in Int /\ \A path \in f.path \cup f.pathUtf8 : IsList(path)

\* The parameters of a magnet: a selection is a list of ranges.
AreParameters(parameters) ==
    /\ IsList(parameters)
    /\ \A p \in ToSet(parameters) :
          p.key = "so" => /\ IsList(p.value)
                          /\ \A t \in ToSet(p.value) : t[1] \in Nat /\ t[2] \in Nat

\* Digits that fill their bytes, as the 32 of a topic do.
IsTopic(digits) == digits \in Seq(0..31) /\ Len(digits) % 8 = 0

(* ------------------------------- properties --------------------------------- *)

\* A torrent that is let through can be stored and reached: no file is where
\* another file or a directory must be on a disk that ignores case, the files
\* lie end to end and fill the pieces, every selection of them has its ranges,
\* each tracker is in one tier and in it once, and a private torrent has a tracker
\* to announce to.
MetadataIsUsable(root, info) ==
    LET torrent == Validated(root, info)
        files == torrent.files
        geometry == [pieceLength |-> torrent.pieceLength, pieceCount |-> torrent.pieceCount,
                     totalLength |-> torrent.length]
        tiers == torrent.tiers
    IN  torrent.code = "OK" =>
          /\ \A i, j \in 1..Len(files) :
                i # j => ~IsPrefix(PathIdentity(files[i].path), PathIdentity(files[j].path))
          /\ files[1].offset = 0
          /\ \A i \in 1..(Len(files) - 1) :
                files[i + 1].offset = files[i].offset + files[i].length
          /\ \A s \in SUBSET {files[i].index : i \in 1..Len(files)} :
                DesiredPieceRanges(files, s, geometry) # Invalid
          /\ \A i, j \in 1..Len(tiers) : \A k \in 1..Len(tiers[i]), l \in 1..Len(tiers[j]) :
                tiers[i][k] = tiers[j][l] => i = j /\ k = l
          /\ \A i \in 1..Len(tiers) : tiers[i] # <<>>
          /\ torrent.private => \E i \in 1..Len(tiers) : \E url \in ToSet(tiers[i]) : Announceable(url)

\* A magnet that is let through names one torrent and can be staged: the DHT is
\* used exactly when no tracker can be announced to, and then with consent, and
\* its selection is the union of its ranges without a repetition.
MagnetCanBeStaged(parameters, allowDht) ==
    LET magnet == PrepareMagnet(parameters, allowDht)
        urls == ToSet(ValuesOf(parameters, "tr"))
        terms == UNION {ToSet(t) : t \in ToSet(ValuesOf(parameters, "so"))}
    IN  magnet.code = "OK" =>
          /\ Cardinality({i \in 1..Len(parameters) : parameters[i].key = "xt"}) = 1
          /\ magnet.dht <=> \A url \in urls : ~(url.sound /\ Announceable(url))
          /\ magnet.dht => allowDht
          /\ ToSet(magnet.selection) = UNION {t[1]..t[2] : t \in terms}
          /\ Cardinality(ToSet(magnet.selection)) = Len(magnet.selection)

\* The bits of the bytes are the bits of the digits.
BtihKeepsItsBits(digits) ==
    LET bytes == Base32Bytes(digits)
        bitOf(value, width, k) == (value \div 2^(width - 1 - k)) % 2
    IN  /\ 8 * Len(bytes) = 5 * Len(digits)
        /\ \A k \in 0..(8 * Len(bytes) - 1) :
              bitOf(bytes[(k \div 8) + 1], 8, k % 8) = bitOf(digits[(k \div 5) + 1], 5, k % 5)

\* What was chosen of a preparation means the same pieces of the torrent that is
\* committed in its name, whichever files are chosen.
CommitKeepsTheSelection(observed, expected, reservation) ==
    LET geometry(t) == [pieceLength |-> t.pieceLength, totalLength |-> t.length,
                        pieceCount |-> Ceil(t.length, t.pieceLength)]
    IN  BarrierPasses(observed, expected, reservation) =>
          \A s \in SUBSET (0..(reservation.fileCount - 1)) :
              DesiredPieceRanges(Laid(observed.files), s, geometry(observed))
                = DesiredPieceRanges(Laid(expected.files), s, geometry(expected))

\* The ranges hold exactly the pieces with a byte of a selected file, each once,
\* in order and with a piece between any two; so two selections that need the
\* same pieces are the same to the client.
RangesAreThePieces(files, selected, geometry) ==
    LET ranges == DesiredPieceRanges(files, selected, geometry)
        pieces == UNION {ranges[i].start..ranges[i].end : i \in 1..Len(ranges)}
        bytes == UNION {files[i].offset..(files[i].offset + files[i].length - 1) :
                            i \in {j \in 1..Len(files) : files[j].index \in selected}}
        others == {s \in SUBSET {files[i].index : i \in 1..Len(files)} :
                     LET r == DesiredPieceRanges(files, s, geometry)
                     IN  UNION {r[i].start..r[i].end : i \in 1..Len(r)} = pieces}
    IN  ranges # Invalid =>
          /\ pieces = {b \div geometry.pieceLength : b \in bytes}
          /\ pieces \subseteq 0..(geometry.pieceCount - 1)
          /\ \A i \in 1..(Len(ranges) - 1) : ranges[i].end + 1 < ranges[i + 1].start
          /\ \A s \in others :
                SameRanges(DesiredPieceRanges(files, s, geometry), ranges)

===============================================================================
