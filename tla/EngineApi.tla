------------------------------- MODULE EngineApi -------------------------------
(* What main and the engine may say to each other (src/shared/engine-api.ts,    *)
(* payload-budget.ts) and what the engine says: pages of its listings, summaries *)
(* of its torrents, and refusals for whatever went wrong inside.  The numbers    *)
(* are the code's own.  A text is its size and whether it holds a control        *)
(* character, an optional value is a set of at most one, and a counter of the    *)
(* torrent client is whole, NaN or infinite.                                     *)
EXTENDS Lists, FiniteSets, FiniteSetsExt

CONSTANTS
    Ids,            \* the strings that are v4 UUIDs
    InfoHashes,     \* the strings of 40 lowercase hexadecimal digits
    NaN, Infinite,  \* what a counter may be instead of a number
    LargestInteger  \* Number.MAX_SAFE_INTEGER, which TLC's numbers do not reach

MaxPageItems == 64
MaxPageNameBytes == 16384
MaxPagePathBytes == 40960
MaxNameBytes == 255
MaxPathBytes == 4096
MaxFileCount == 100000
MaxPeerCount == 10000
MaxChanges == 250
MaxTierCount == 64
MaxTrackerBytes == 32768
MaxParents == 63

\* What is neither NaN nor infinite is a number.
ASSUME NumbersAssumption ==
    /\ LargestInteger \in Int /\ MaxPeerCount <= LargestInteger
    /\ NaN \notin Int /\ Infinite \notin Int /\ NaN # Infinite

Bytes(items) == FoldLeft(LAMBDA bytes, item : bytes + item.bytes, 0, items)

(* --------------------------------- commands --------------------------------- *)

BoundedName(text) == text.bytes \in 1..MaxNameBytes /\ ~text.control

BoundedPath(path) ==
    path.bytes \in 1..MaxPathBytes /\ ~path.control

\* A path is rooted or not, and a sequence of segments.
DotSegments == {"", ".", ".."}

AbsolutePath(path) ==
    BoundedPath(path) /\ path.rooted /\ DotSegments \cap ToSet(path.segments) = {}

RelativePath(path) ==
    /\ BoundedPath(path) /\ ~path.rooted /\ ~path.backslash
    /\ DotSegments \cap ToSet(path.segments) = {}

\* A url that parses and carries neither credentials nor a fragment is sound.
EndpointAccepted(url, schemes) ==
    url.bytes \in 1..2048 /\ url.sound /\ url.scheme \in schemes

TiersAccepted(tiers) ==
    LET endpoints == FlattenSeq(tiers)
    IN  /\ Len(tiers) <= MaxTierCount
        /\ \A i \in 1..Len(tiers) : Len(tiers[i]) \in 1..MaxTierCount
        /\ \A url \in ToSet(endpoints) : EndpointAccepted(url, {"http", "https", "wss"})
        /\ Len(endpoints) <= MaxTierCount
        /\ Bytes(endpoints) <= MaxTrackerBytes
        /\ Cardinality(ToSet(endpoints)) = Len(endpoints)

\* A source that is http needs its consent.
SourceAccepted(source) ==
    \/ source.kind = "local-torrent" /\ AbsolutePath(source.path)
    \/ /\ source.kind = "remote-torrent"
       /\ EndpointAccepted(source.url, {"http", "https"})
       /\ source.allowHttp \/ source.url.scheme # "http"
    \/ source.kind = "magnet" /\ source.bytes \in 1..65536
    \/ source.kind = "info-hash" /\ source.infoHash \in InfoHashes

ChangesAccepted(changes) ==
    /\ Len(changes) \in 1..MaxChanges
    /\ \A i \in 1..Len(changes) : changes[i] \in 0..(MaxFileCount - 1)
    /\ Cardinality(ToSet(changes)) = Len(changes)

\* The chooser's grant: the file, and the directories it was chosen through.
GrantAccepted(grant) ==
    /\ AbsolutePath(grant.path)
    /\ Len(grant.parents) <= MaxParents
    /\ \A i \in 1..Len(grant.parents) : AbsolutePath(grant.parents[i])

Commands ==
    {"open-preparation", "start-acquisition", "get-acquisition", "get-preparation-files",
     "update-preparation-selection", "commit-preparation", "discard-preparation",
     "restore-torrent", "list-torrents", "list-legacy-imports", "import-legacy-torrent",
     "get-torrent-files", "set-torrent-selection", "pause-torrent", "resume-torrent",
     "remove-torrent", "create-torrent", "export-torrent", "open-media", "heartbeat-media",
     "close-media", "open-audio-metadata", "open-subtitles", "open-external-subtitle"}

\* What each command must carry.
RequiredFields(command) ==
    CASE command \in {"open-preparation", "start-acquisition"} -> {"source"}
      [] command = "get-acquisition" -> {"acquisitionId"}
      [] command \in {"get-preparation-files", "discard-preparation"} -> {"preparationId"}
      [] command = "update-preparation-selection" -> {"preparationId", "changes"}
      [] command = "commit-preparation" -> {"preparationId", "destinationRoot"}
      [] command = "restore-torrent" -> {"infoHash", "destinationRoot", "paused"}
      [] command = "list-torrents" -> {}
      [] command = "list-legacy-imports" -> {"legacyRoot"}
      [] command = "import-legacy-torrent" -> {"destinationRoot", "infoHash", "legacyRoot"}
      [] command \in {"get-torrent-files", "pause-torrent", "resume-torrent",
                      "open-subtitles"} -> {"infoHash"}
      [] command = "set-torrent-selection" -> {"infoHash", "changes"}
      [] command = "remove-torrent" -> {"infoHash", "deleteData"}
      [] command = "create-torrent" ->
           {"operationId", "sourcePath", "destinationRoot", "private", "announceTiers",
            "allowHttpTrackers", "allowPrivateNetwork", "filterJunkFiles"}
      [] command = "export-torrent" -> {"destinationPath", "infoHash"}
      [] command \in {"open-media", "open-audio-metadata"} -> {"infoHash", "fileIndex"}
      [] command = "open-external-subtitle" -> {"infoHash", "mediaFileIndex", "path"}
      [] command \in {"heartbeat-media", "close-media"} -> {"leaseId"}

OptionalFields(command) ==
    CASE command \in {"get-preparation-files", "list-torrents", "list-legacy-imports",
                      "get-torrent-files"} -> {"cursor", "limit"}
      [] command = "create-torrent" -> {"name", "comment"}
      [] command = "open-external-subtitle" -> {"grant"}
      [] OTHER -> {}

FieldAccepted(field, value) ==
    CASE field \in {"acquisitionId", "preparationId", "operationId", "leaseId"} -> value \in Ids
      [] field = "infoHash" -> value \in InfoHashes
      [] field \in {"destinationRoot", "destinationPath", "legacyRoot", "sourcePath",
                    "path"} -> AbsolutePath(value)
      [] field \in {"fileIndex", "mediaFileIndex"} -> value \in 0..(MaxFileCount - 1)
      [] field = "cursor" -> value \in Nat
      [] field = "limit" -> value \in 1..MaxPageItems
      [] field = "changes" -> ChangesAccepted(value)
      [] field = "source" -> SourceAccepted(value)
      [] field = "announceTiers" -> TiersAccepted(value)
      [] field = "grant" -> GrantAccepted(value)
      [] field = "name" -> BoundedName(value)
      [] field = "comment" -> value.bytes <= MaxPathBytes
      [] field = "deleteData" -> value = FALSE
      [] OTHER -> value \in BOOLEAN

\* A private torrent names a tracker, and an http tracker needs its consent.
CreationAccepted(payload) ==
    LET urls == ToSet(FlattenSeq(payload.announceTiers))
    IN  /\ payload.private => urls # {}
        /\ payload.allowHttpTrackers \/ \A url \in urls : url.scheme # "http"

CommandAccepted(operation) ==
    LET given == DOMAIN operation.payload
        required == RequiredFields(operation.command)
    IN  /\ required \subseteq given
        /\ given \subseteq required \cup OptionalFields(operation.command)
        /\ \A field \in given : FieldAccepted(field, operation.payload[field])
        /\ operation.command = "start-acquisition" =>
              operation.payload.source.kind \in {"magnet", "info-hash"}
        /\ operation.command = "create-torrent" => CreationAccepted(operation.payload)

(* ---------------------------------- answers --------------------------------- *)

\* What an answer must repeat of the command it answers.
Echoed(command) ==
    CASE command \in {"open-preparation", "list-torrents", "list-legacy-imports",
                      "start-acquisition", "get-acquisition"} -> {}
      [] command \in {"get-preparation-files", "update-preparation-selection",
                      "commit-preparation", "discard-preparation"} -> {"preparationId"}
      [] command = "create-torrent" -> {"operationId"}
      [] command \in {"open-media", "open-audio-metadata"} -> {"infoHash", "fileIndex"}
      [] command = "open-external-subtitle" -> {"infoHash", "mediaFileIndex"}
      [] command \in {"heartbeat-media", "close-media"} -> {"leaseId"}
      [] OTHER -> {"infoHash"}

\* engineResultMatchesOperation.
Matches(result, operation) ==
    /\ result.command = operation.command
    /\ result.ok => \A field \in Echoed(operation.command) :
                       result.value[field] = operation.payload[field]

(* ----------------------------------- pages ---------------------------------- *)

EmptyPage == [count |-> 0, bytes |-> 0, full |-> FALSE]

\* A page after one item more: it takes at least one, then as many as the caller
\* and the page's bytes allow.
Filled(page, item, limit, budget) ==
    IF page.full \/ page.count = limit
       \/ (page.count > 0 /\ page.bytes + item.bytes > budget)
    THEN [page EXCEPT !.full = TRUE]
    ELSE [count |-> page.count + 1, bytes |-> page.bytes + item.bytes, full |-> FALSE]

\* How many items from cursor on make a page.
Taken(items, cursor, limit, budget) ==
    LET last == FoldLeft(LAMBDA page, item : Filled(page, item, limit, budget),
                         EmptyPage, SubSeq(items, cursor + 1, Len(items)))
    IN  last.count

PageFrom(items, cursor, limit, budget) ==
    LET start == Min({cursor, Len(items)})
        end == start + Taken(items, start, limit, budget)
    IN  [items |-> SubSeq(items, start + 1, end), total |-> Len(items),
         next |-> IF end < Len(items) THEN {end} ELSE {}]

\* TorrentManager.list: in the order of their info hashes.
TorrentPage(torrents, cursor, limit) ==
    PageFrom(Ranked(torrents, [t \in ToSet(torrents) |-> t.key]), cursor, limit, MaxPageNameBytes)

\* TorrentManager.files and PreparationStore.pageFiles.
FilePage(files, cursor, limit) == PageFrom(files, cursor, limit, MaxPagePathBytes)

\* A name of the previous application's configuration, of which only the first
\* characters and three dots are kept where it has too many.
EntryName(name) ==
    IF name.characters <= MaxNameBytes THEN name
    ELSE [name EXCEPT !.characters = MaxNameBytes, !.bytes = name.first.bytes + 3,
                      !.control = name.first.control]

LegacyPage(entries, cursor, limit) ==
    PageFrom([i \in 1..Len(entries) |-> EntryName(entries[i])], cursor, limit, MaxPageNameBytes)

\* One torrent of the previous application, read after those already seen: what
\* its torrent file turned out to be is its outcome.
LegacyEntry(raw, seen) ==
    LET skipped(reason) == [kind |-> "skipped", reason |-> reason]
        wellFormed == raw.selections # {} /\
            \A s \in raw.selections : Len(s) = raw.fileCount /\ \E i \in 1..Len(s) : s[i]
    IN  CASE raw.outcome = "unnamed" -> skipped("INVALID_ENTRY")
          [] raw.outcome = "unread" -> skipped("TORRENT_FILE_MISSING")
          [] raw.outcome = "untracked" -> skipped("PRIVATE_WITHOUT_TRACKER")
          [] raw.outcome = "v2" -> skipped("UNSUPPORTED_FORMAT")
          [] raw.outcome = "invalid" -> skipped("INVALID_METADATA")
          [] raw.outcome = "valid" /\ raw.hash \in seen -> skipped("DUPLICATE")
          [] raw.outcome = "valid" /\ raw.hash \notin seen ->
               [kind |-> "importable", hash |-> raw.hash, fileCount |-> raw.fileCount,
                selected |-> IF wellFormed
                             THEN LET s == CHOOSE s \in raw.selections : TRUE
                                  IN  {i \in 1..Len(s) : s[i]}
                             ELSE 1..raw.fileCount]

\* The scan after one torrent more.
Scanned(scan, raw) ==
    LET entry == LegacyEntry(raw, scan.seen)
    IN  [entries |-> Append(scan.entries, entry),
         seen |-> scan.seen \cup (IF entry.kind = "importable" THEN {entry.hash} ELSE {})]

\* LegacyImporter.scan.
LegacyScan(raws) ==
    LET scan == FoldLeft(Scanned, [entries |-> <<>>, seen |-> {}], raws)
    IN  scan.entries

\* LegacyImportService.take: the cached scan without the entry that was taken.
TakenOut(entries, hash) ==
    [i \in 1..Len(entries) |->
        IF entries[i].kind = "importable" /\ entries[i].hash = hash
        THEN [kind |-> "skipped", reason |-> "DUPLICATE"] ELSE entries[i]]

\* The bytes of a page's names or paths.
PageBudget(listing) ==
    IF listing = "files" THEN MaxPagePathBytes ELSE MaxPageNameBytes

PageFits(page, budget) ==
    /\ Len(page.items) <= MaxPageItems
    /\ Bytes(page.items) <= budget
    /\ Len(page.items) <= page.total /\ page.total <= MaxFileCount
    /\ \A next \in page.next : next <= page.total

\* A file's path was put together from segments that can only be relative.
ItemAccepted(listing, item) ==
    IF listing = "files" THEN BoundedPath(item) ELSE BoundedName(item)

Ordered(items) == \A i \in 2..Len(items) : items[i - 1].key < items[i].key

\* The schemas of the pages; legacy entries come in no order.
PageAccepted(listing, page) ==
    /\ PageFits(page, PageBudget(listing))
    /\ \A item \in ToSet(page.items) : ItemAccepted(listing, item)
    /\ listing # "legacy" => Ordered(page.items)

\* collectFilePages: the items a reader has gathered when it reaches the end.
Collected(pages) ==
    LET walk[cursor \in DOMAIN pages] ==
            LET one == pages[cursor]
            IN  IF one.items = <<>> \/ \A next \in one.next : next <= cursor
                THEN one.items
                ELSE one.items \o walk[CHOOSE next \in one.next : TRUE]
    IN  walk[0]

(* --------------------------------- summaries -------------------------------- *)

Finite(counter) == counter \notin {NaN, Infinite}

\* Mutant: a counter that is no number stays none.
ClampNumbers(counter, low, high) ==
    IF ~Finite(counter) THEN counter ELSE Min({Max({counter, low}), high})

Clamp(counter, low, high) ==
    IF ~Finite(counter) THEN low ELSE Min({Max({counter, low}), high})

ClampRate(rate) == IF Finite(rate) /\ rate > 0 THEN rate ELSE 0

\* JavaScript's own Math.max(counter, 0): neither NaN nor Infinity is removed.
AtLeastZero(counter) == IF Finite(counter) THEN Max({counter, 0}) ELSE counter

\* Math.min(counter, high), which does not remove NaN.
NoMoreThan(counter, high) ==
    CASE counter = NaN -> NaN
      [] counter = Infinite -> high
      [] OTHER -> Min({counter, high})

SummaryState(state, done) ==
    CASE state = "adding" -> "checking"
      [] state = "paused" -> "paused"
      [] state \in {"removing", "removed"} -> "stopped"
      [] state = "running" -> IF done THEN "seeding" ELSE "downloading"

\* DiskTorrentSession.stats and TorrentManager.#summary.
Summary(session, counters) ==
    LET downloaded == Clamp(counters.downloaded, 0, session.length)
        remaining == counters.timeRemaining
    IN  [fileCount |-> session.fileCount, selectedFileCount |-> Cardinality(session.selected),
         length |-> session.length, downloaded |-> downloaded,
         progress |-> IF session.length = 0 THEN <<1, 1>> ELSE <<downloaded, session.length>>,
         downloadSpeed |-> ClampRate(counters.rate), uploadSpeed |-> ClampRate(counters.rate),
         uploaded |-> AtLeastZero(counters.uploaded),
         peerCount |-> NoMoreThan(AtLeastZero(counters.peers), MaxPeerCount),
         timeRemainingMs |-> IF Finite(remaining) /\ remaining >= 0
                             THEN {Min({remaining, LargestInteger})} ELSE {},
         state |-> SummaryState(session.state, counters.done)]

Counted(counter) == Finite(counter) /\ counter \in 0..LargestInteger

SummaryAccepted(summary) ==
    /\ summary.fileCount \in 1..MaxFileCount
    /\ summary.selectedFileCount \in 0..summary.fileCount
    /\ Counted(summary.length)
    /\ Counted(summary.downloaded) /\ summary.downloaded <= summary.length
    /\ summary.progress[1] <= summary.progress[2]
    /\ Counted(summary.uploaded)
    /\ Finite(summary.downloadSpeed) /\ Finite(summary.uploadSpeed)
    /\ Counted(summary.peerCount) /\ summary.peerCount <= MaxPeerCount
    /\ \A left \in summary.timeRemainingMs : Counted(left)
    /\ summary.state \in {"checking", "downloading", "error", "paused", "seeding", "stopped"}

(* --------------------------------- refusals --------------------------------- *)

\* PUBLIC_ERRORS: the code and whether trying again may help.
PublicError(code, retryable) == [code |-> code, retryable |-> retryable]

\* TorrentPreparationServiceErrorCode.
PreparationErrorCodes ==
    {"ABORTED", "ALREADY_EXISTS", "CAPACITY_EXCEEDED", "DHT_CONSENT_REQUIRED",
     "INPUT_INVALID", "INTERNAL", "LOCAL_TORRENT_UNAVAILABLE", "METADATA_UNAVAILABLE",
     "PRIVATE_DHT_METADATA", "REMOTE_CONCURRENCY_LIMIT", "REMOTE_TORRENT_UNAVAILABLE",
     "UNSUPPORTED"}

\* #mapFailure: what is told of an error, by the part that raised it.
Failure(error, aborted) ==
    LET from == error.from
        code == error.code
    IN IF aborted \/ code = "ABORTED" THEN PublicError("ABORTED", FALSE)
       ELSE
       CASE from = "unavailable" -> PublicError("ENGINE_NOT_READY", TRUE)
         [] from = "archive" -> PublicError("NOT_FOUND", FALSE)
         [] from = "preparation" ->
              (CASE code = "ALREADY_EXISTS" -> PublicError("ALREADY_EXISTS", FALSE)
                 [] code \in {"CAPACITY_EXCEEDED", "REMOTE_CONCURRENCY_LIMIT"} ->
                      PublicError("STATE_CONFLICT", TRUE)
                 [] code \in {"DHT_CONSENT_REQUIRED", "METADATA_UNAVAILABLE"} -> PublicError(code, TRUE)
                 [] code = "LOCAL_TORRENT_UNAVAILABLE" -> PublicError("PATH_NOT_AUTHORIZED", FALSE)
                 [] code = "REMOTE_TORRENT_UNAVAILABLE" -> PublicError("NOT_FOUND", TRUE)
                 [] OTHER -> PublicError(code, FALSE))
         [] from = "legacy" ->
              PublicError(IF code = "ROOT_NOT_AUTHORIZED" THEN "PATH_NOT_AUTHORIZED"
                   ELSE "INPUT_INVALID", FALSE)
         [] from = "media" ->
              (CASE code = "CAPACITY_EXCEEDED" -> PublicError("STATE_CONFLICT", TRUE)
                 [] code = "NOT_FOUND" -> PublicError("NOT_FOUND", FALSE)
                 [] OTHER -> PublicError("ENGINE_NOT_READY", TRUE))
         [] from = "subtitle" ->
              PublicError(IF code = "UNAVAILABLE" THEN "PATH_NOT_AUTHORIZED" ELSE "INPUT_INVALID", FALSE)
         [] from = "creation" ->
              PublicError(IF code = "SOURCE_NOT_AUTHORIZED" THEN "PATH_NOT_AUTHORIZED"
                   ELSE IF code = "CREATION_FAILED" THEN "INTERNAL" ELSE "INPUT_INVALID", FALSE)
         [] from = "disk" ->
              (CASE code = "COMMIT_REJECTED" -> PublicError("INPUT_INVALID", FALSE)
                 [] code = "READY_TIMEOUT" -> PublicError("TIMEOUT", TRUE)
                 [] code = "STATE_CONFLICT" -> PublicError("STATE_CONFLICT", FALSE)
                 [] OTHER -> PublicError("INTERNAL", FALSE))
         [] from \in {"manager", "registry", "store"} ->
              (CASE code = "CAPACITY_EXCEEDED" -> PublicError("STATE_CONFLICT", TRUE)
                 [] code = "DUPLICATE_INFO_HASH" -> PublicError("ALREADY_EXISTS", FALSE)
                 [] code \in {"NOT_FOUND", "EXPIRED"} -> PublicError("NOT_FOUND", FALSE)
                 [] code = "STATE_CONFLICT" -> PublicError("STATE_CONFLICT", FALSE)
                 [] code = "INVALID_WARNING" -> PublicError("INTERNAL", FALSE)
                 [] OTHER -> PublicError("INPUT_INVALID", FALSE))
         [] OTHER -> PublicError("INTERNAL", FALSE)

\* engineCommandErrorSchema.
ErrorCodes ==
    {"ABORTED", "ALREADY_EXISTS", "DHT_CONSENT_REQUIRED", "ENGINE_NOT_READY", "INPUT_INVALID",
     "INTERNAL", "METADATA_UNAVAILABLE", "NOT_FOUND", "PATH_NOT_AUTHORIZED",
     "PRIVATE_DHT_METADATA", "STATE_CONFLICT", "TIMEOUT", "UNSUPPORTED"}

\* How a restore is refused: at once where its archived bytes cannot be read or
\* are another torrent's, and by what went wrong otherwise.
RestoreRefusal(bytes, error, aborted) ==
    IF bytes \in {"unread", "another's"} THEN PublicError("NOT_FOUND", FALSE)
    ELSE Failure(error, aborted)

\* The errors that adding a torrent anew may meet, as a restore does.
RaisedByAdd ==
    {[from |-> "unavailable", code |-> "none"]}
    \cup [from : {"disk"}, code : {"COMMIT_REJECTED", "READY_TIMEOUT", "STATE_CONFLICT", "ADD_FAILED",
                              "DESTROYED", "TORRENT_ERROR"}]
    \cup [from : {"manager"}, code : {"CAPACITY_EXCEEDED", "INPUT_INVALID", "STATE_CONFLICT"}]
    \cup [from : {"registry"}, code : {"CAPACITY_EXCEEDED", "DUPLICATE_INFO_HASH",
                                       "INVALID_INPUT", "STATE_CONFLICT"}]
    \cup [from : {"metadata"}, code : {"INVALID_METADATA", "PRIVATE_TRACKER_REQUIRED"}]

(* -------------------------------- properties -------------------------------- *)

\* Reading page after page gathers every item once, in order, and every page on
\* the way is one main accepts (engine-client.ts collectFilePages, "A whole file
\* manifest, not just its first page"), but for one that carries a name of the
\* previous application with a control character or with characters of several
\* bytes: those were counted as characters, and the schema counts bytes.
PagesAddUp(listing, items, limit) ==
    LET page(cursor) == CASE listing = "torrents" -> TorrentPage(items, cursor, limit)
                          [] listing = "files" -> FilePage(items, cursor, limit)
                          [] listing = "legacy" -> LegacyPage(items, cursor, limit)
        gathered == Collected([cursor \in 0..Len(items) |-> page(cursor)])
    IN  /\ \A cursor \in 0..(Len(items) + 1) :
              \/ PageAccepted(listing, page(cursor))
              \/ /\ listing = "legacy"
                 /\ PageFits(page(cursor), PageBudget(listing))
                 /\ \E item \in ToSet(page(cursor).items) :
                       item.control \/ item.bytes > item.characters
        /\ Len(gathered) = Len(items)
        /\ {item.key : item \in ToSet(gathered)} = {item.key : item \in ToSet(items)}
        /\ listing # "legacy" => Ordered(gathered)

\* Whatever the client counts, what is said of a torrent is accepted exactly when
\* its uploads are a number in range and its peers are one: these two counters
\* the session does not make so.
SummaryIsAccepted(session, counters) ==
    SummaryAccepted(Summary(session, counters))
        <=> Counted(AtLeastZero(counters.uploaded)) /\ counters.peers # NaN

\* The ids a command is about.
IdsOf(operation) ==
    {<<field, operation.payload[field]>> :
        field \in DOMAIN operation.payload \cap
                  {"preparationId", "operationId", "leaseId", "infoHash", "fileIndex",
                   "mediaFileIndex"}}

\* The answer to one command is the answer to another only if both are about the
\* same thing, the acquisition that is asked about left out: its answers do not
\* say which one they are of (engine-api.ts engineResultMatchesOperation).
AnswerNamesItsSubject(a, b) ==
    LET answer == [ok |-> TRUE, command |-> a.command,
                   value |-> [field \in Echoed(a.command) |-> a.payload[field]]]
    IN  CommandAccepted(a) /\ CommandAccepted(b) /\ Matches(answer, b)
        => IdsOf(a) = IdsOf(b)

\* Every error becomes one main knows, and a restore is refused with the one that
\* makes main forget the torrent exactly when the archived bytes could not be had,
\* whatever else it meets (torrent-library.ts restore, "A torrent whose archived
\* bytes are gone is dropped").
FailureIsTold(error, aborted) ==
    /\ Failure(error, aborted).code \in ErrorCodes
    /\ error \in RaisedByAdd =>
          \A bytes \in {"unread", "another's", "sound"} :
              RestoreRefusal(bytes, error, aborted).code = "NOT_FOUND" <=> bytes # "sound"

\* A scan of the previous application offers each torrent once, with some of its
\* files, and one that was taken is not offered again (legacy-import-service.ts
\* take, "Consuming it keeps a repeated command from adding the same torrent
\* twice").
ScanOffersOnce(raws) ==
    LET entries == LegacyScan(raws)
        offered(list) == {i \in 1..Len(list) : list[i].kind = "importable"}
        valid == {raws[i].hash : i \in {j \in 1..Len(raws) : raws[j].outcome = "valid"}}
    IN  /\ Len(entries) = Len(raws)
        /\ {entries[i].hash : i \in offered(entries)} = valid
        /\ Cardinality(offered(entries)) = Cardinality(valid)
        /\ \A i \in offered(entries) :
              entries[i].selected # {} /\ entries[i].selected \subseteq 1..entries[i].fileCount
        /\ \A hash \in valid :
              LET left == TakenOut(entries, hash)
              IN  {left[i].hash : i \in offered(left)} = valid \ {hash}

===============================================================================
