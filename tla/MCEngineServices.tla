---------------------------- MODULE MCEngineServices ----------------------------
(* A small instance of EngineServices: leases of two torrents; three holders of *)
(* peers of which one is an acquisition; three torrents to search for with two  *)
(* places, one of them acquired as well; two tiers of trackers of each kind;    *)
(* two torrents whose peers are signaled; two fetches; three sources of         *)
(* datagrams; and for each reader the inputs around its limits.                 *)
EXTENDS EngineReaders, NestedValues, TLC

CONSTANTS g1, g2, g3, s1

FirstIsAcquired == (g1 :> "a" @@ g2 :> "b" @@ g3 :> "c" @@ s1 :> "a")

\* One session may stop and start again while its first call is under way.
FirstOverlaps == (g1 :> 2 @@ g2 :> 1 @@ g3 :> 1 @@ s1 :> 1)

TwoAndOne == ("tier:0" :> <<"a1", "a2">> @@ "tier:1" :> <<"b1">>)

EveryTierFirst == <<"w1", "w3", "w2", "w4">>

TwoTiers == ("w1" :> 0 @@ "w2" :> 0 @@ "w3" :> 1 @@ "w4" :> 1)

TwoOfTheFirst == ("e1" :> "t1" @@ "e2" :> "t1" @@ "e3" :> "t2")

(* -------------------------------- the fetches ------------------------------- *)

SomeUrls == {[scheme |-> "https", host |-> "name", sound |-> TRUE],
             [scheme |-> "http", host |-> "literal", sound |-> TRUE],
             [scheme |-> "https", host |-> "literal", sound |-> FALSE]}

LiteralHosts == ("literal" :> <<10, 0, 0, 1>>)

SomeAnswers == {<<>>, <<<<1, 1, 1, 1>>>>,
                <<<<192, 168, 0, 9>>, <<127, 0, 0, 1>>>>}

(* ------------------------------- the documents ------------------------------ *)

Tokens == {Minus, Zero, Zero + 1, Zero + 2, Colon, 97, Dictionary, End, Integer, List}

\* The document, and what one lost, changed or added byte makes of it.
Edits(doc) ==
    UNION {{doc},
           {ReplaceAt(doc, i, c) : i \in 1..Len(doc), c \in Tokens},
           {RemoveAt(doc, i) : i \in 1..Len(doc)},
           {InsertAt(doc, i, c) : i \in 1..(Len(doc) + 1), c \in Tokens}}

InfoIsI == <<105>>

\* d1:ai1e1:id1:a0:ee and d1:ide1:lli-1eleee
Documents ==
    <<Edits(<<100, 49, 58, 97, 105, 49, 101, 49, 58, 105, 100, 49, 58, 97, 48, 58, 101, 101>>),
      Edits(<<100, 49, 58, 105, 100, 101, 49, 58, 108, 108, 105, 45, 49, 101, 108, 101,
                101, 101>>)>>

(* -------------------------- trackers and the DHT ---------------------------- *)

UpTo(n, S) == UNION {[1..k -> S] : k \in 0..n}

Requests ==
    [request : [hash : {20, 19}, peerId : {20}, left : {0, -1}, port : {0, 1},
                event : {{}, {"started"}, {"odd"}}, trackerId : {{}, {1}, {3}},
                allowHttp : BOOLEAN],
     url : [scheme : {"http", "https", "wss"}, parses : BOOLEAN, sound : BOOLEAN,
            query : {<<>>, <<"x">>, <<"x", "info_hash">>, <<"event">>}]]

Public == <<1, 1, 1, 1>>

Contacts == [address : {Public, <<10, 0, 0, 1>>}, port : {1}]
            \cup [address : {Public}, port : {0, 2}]
            \cup [address : {<<127, 0, 0, 1>>}, port : {1}]

Entries == [address : {Public}, family : {4}, port : {1},
            peerId : {{}, {"me"}, {"you"}, {"malformed"}}]
           \cup [address : {Public, <<192, 168, 1, 1>>}, family : {0, 4, 6}, port : {0, 1},
                 peerId : {{}}]

SoundAnswer == [failure |-> {}, interval |-> {5}, minInterval |-> {}, complete |-> {},
                incomplete |-> {}, warning |-> {}, trackerId |-> {}, peers |-> {}, peers6 |-> {}]

PeerLists ==
    UNION {[form : {"compact"}, contacts : UpTo(3, Contacts), rest : {0, 1}],
           [form : {"list"}, entries : UpTo(2, Entries)],
           {[form |-> "other"]}}

PeerLists6 == [form : {"compact"}, rest : {0, 1},
               contacts : UpTo(2, [address : {<<6>>}, port : {0, 1}])]
              \cup {[form |-> "other"]}

Answers ==
    <<{[SoundAnswer EXCEPT !.peers = {list}] : list \in PeerLists},
      {[SoundAnswer EXCEPT !.peers = {list}, !.peers6 = {list6}] :
           list \in [form : {"compact"}, contacts : UpTo(2, Contacts), rest : {0}],
           list6 \in PeerLists6},
      [failure : {{}, {"sound"}, {"unsound"}}, interval : {{}, {0}, {1}, {9}},
         minInterval : {{}, {0}, {1}}, complete : {{}, {0}, {-1}}, incomplete : {{}, {5}},
         warning : {{}, {"empty"}, {"unsound"}}, trackerId : {{}, {0}, {1}, {3}},
         peers : {{}}, peers6 : {{}}]>>

Message == [t |-> {1}, y |-> {"q"}, q |-> {}, a |-> {}, r |-> {}, e |-> {}]

Datagrams ==
    <<{[Message EXCEPT !.t = t, !.y = y] :
       t \in {{}, {0}, {1}, {3}}, y \in {{}, {"q"}, {"r"}, {"e"}, {"x"}}},
      {[Message EXCEPT !.q = q, !.a = {a}] :
           q \in {{}, {"ping"}, {"find_node"}, {"get_peers"}, {"announce_peer"}, {"get"}},
           a \in [id : {{}, {20}, {19}}, target : {{20}, {}}, hash : {{20}, {}},
                  token : {{}, {1}, {3}}, port : {{}, {0}, {1}}]},
      {[Message EXCEPT !.y = {"r"}, !.r = {r}] :
           r \in [id : {{}, {20}}, nodes : {{}, {26}, {27}}, values : {{}, {<<6>>}, {<<6, 18>>}},
                  nodes6 : {{}, {38}, {26}}, values6 : {{}, {<<18>>}, {<<6>>}},
                  token : {{}, {1}, {3}}]},
      {[Message EXCEPT !.y = {"e"}, !.e = {e}] :
           e \in [items : {1, 2}, number : BOOLEAN, text : {0, 2, 3}]}>>

(* --------------------------------- the frames ------------------------------- *)

Line(kind, address) == [kind |-> kind, short |-> TRUE, address |-> address]

Lines == {Line("application", <<>>), Line("media", <<>>), Line("remote-candidates", <<>>),
          Line("candidate", Public), Line("candidate", <<172, 16, 0, 1>>),
          Line("candidate", <<6>>), [Line("text", <<>>) EXCEPT !.short = FALSE]}

Envelopes ==
    UNION {[plain : {TRUE}, type : {"offer"}, lines : UpTo(4, Lines)],
           [plain : BOOLEAN, type : {"offer", "answer"},
                       lines : {<<Line("application", <<>>), Line("candidate", Public)>>}]}

Frame == [object |-> TRUE, keys |-> {"info_hash"}, action |-> {}, hash |-> {TRUE},
          offer |-> {}, answer |-> {}, offerId |-> {TRUE}, peerId |-> {TRUE},
          counts |-> TRUE, texts |-> TRUE]

Frames ==
    <<{[Frame EXCEPT !.offer = {envelope}] : envelope \in Envelopes},
      [object : BOOLEAN, keys : {{"info_hash"}, {"info_hash", "action", "offer"}, {"odd"}},
         action : {{}, {"announce"}, {"scrape"}}, hash : {{}, {TRUE}, {FALSE}},
         offer : {{}} \cup {{e} : e \in [plain : {TRUE}, type : {"offer"},
             lines : {<<Line("application", <<>>), Line("candidate", Public)>>}]},
         answer : {{}} \cup {{e} : e \in [plain : {TRUE}, type : {"answer"},
             lines : {<<Line("candidate", Public), Line("application", <<>>)>>}]},
         offerId : {{}, {TRUE}}, peerId : {{FALSE}, {TRUE}}, counts : BOOLEAN, texts : BOOLEAN]>>

\* The octets around the ends of the special-purpose blocks.
Addresses ==
    {<<a, b, c, 255>> :
        a \in {0, 1, 9, 10, 11, 99, 100, 101, 126, 127, 128, 169, 170, 172, 173, 191, 192, 193,
               198, 199, 203, 204, 223, 224, 239, 240, 255},
        b \in {0, 1, 15, 16, 17, 18, 19, 20, 31, 32, 51, 63, 64, 127, 128, 168, 169, 254, 255},
        c \in {0, 1, 2, 3, 100, 113, 255}}

(* -------------------------------- the metadata ------------------------------ *)

Safe == {"name", "a", "A", "e1", "e2", "b"}

\* e1 and e2 are one letter composed and decomposed.
Composed == [s \in Safe \cup {".."} |-> IF s = "e2" THEN "e1" ELSE s]

OnDisk == [s \in Safe \cup {".."} |-> IF s = "A" THEN "a" ELSE IF s = "e1" THEN "e2" ELSE s]

Url(scheme, name) == [scheme |-> scheme, name |-> name, sound |-> TRUE]

TrackerUrls == {Url("https", "x"), Url("http", "x"), Url("wss", "x"),
                [Url("https", "y") EXCEPT !.sound = FALSE], Url("udp", "x")}

Root == [v2 |-> FALSE, announce |-> {}, tiers |-> {}, seeds |-> <<>>]

File(length, path) == [length |-> length, path |-> {path}, pathUtf8 |-> {}]

OneFile == <<File(3, <<"a">>)>>

\* An info dictionary whose pieces are as many as its files need, and some more.
Info(files, private, more) ==
    [name |-> {<<"name">>}, nameUtf8 |-> {}, files |-> {files}, length |-> {},
     private |-> private, pieceLength |-> 2, pieces |-> Ceil(TotalLength(files), 2) + more]

Paths == {<<"a">>, <<"A">>, <<"b">>, <<"a", "b">>, <<"A", "e1">>, <<"a", "e2">>, <<"..">>,
          <<"a", "b", "a">>}

Torrents ==
    <<{[root |-> Root, info |-> Info([i \in DOMAIN f |-> File(f[i][1], f[i][2])], {}, 0)] :
          f \in UpTo(3, {0, 3} \X Paths)},
      {[root |-> [Root EXCEPT !.announce = {Url("wss", "z")}, !.tiers = {tiers},
                              !.seeds = <<Url("http", "x"), Url("udp", "x"), Url("http", "x")>>],
        info |-> Info(OneFile, private, 0)] :
          tiers \in UpTo(2, UpTo(2, TrackerUrls)), private \in {{}, {1}}},
      {[root |-> [Root EXCEPT !.v2 = v2, !.announce = announce],
        info |-> [Info(OneFile, private, more) EXCEPT
                     !.nameUtf8 = utf8, !.length = length, !.files = files]] :
          v2 \in BOOLEAN, announce \in {{}, {Url("http", "x")}}, more \in {0, 1},
          length \in {{}, {3}}, utf8 \in {{}, {<<"name">>}, {<<"b">>}},
          files \in {{}, {OneFile}, {<<[File(3, <<"e1">>) EXCEPT !.pathUtf8 = {<<"e2">>}]>>}},
          private \in {{}, {0}, {1}, {2}}}>>

Parameters ==
    [key : {"xt"}, value : [form : {"hex", "base32", "other"}, hash : {"h"}]]
    \cup [key : {"tr", "ws"}, value : TrackerUrls]
    \cup [key : {"xs"}, value : {Url("https", "x")}]
    \cup [key : {"so"}, value : {<<<<0, 0>>>>, <<<<0, 1>>, <<1, 1>>>>, <<<<1, 0>>>>}]

Magnets == [parameters : UpTo(3, Parameters), allowDht : BOOLEAN]

\* Eight digits, at most two of them not zero.
Topics == {[[k \in 1..8 |-> 0] EXCEPT ![i] = x, ![j] = y] :
              i, j \in 1..8, x, y \in {1, 16, 21, 31}}

Pieces ==
    UNION {[files : {Laid([i \in DOMAIN lengths |-> [length |-> lengths[i], path |-> <<"a">>]])},
            selected : SUBSET (0..(Len(lengths) - 1)),
            geometry : {[pieceLength |-> p, totalLength |-> n,
                         pieceCount |-> Ceil(n, p)] :
                            p \in {1, 2, 4},
                            n \in {FoldLeft(LAMBDA m, l : m + l, 0, lengths)}}] :
           lengths \in UpTo(3, {0, 1, 3})}

\* What the client or the preparation says of a torrent of two files.
Observed(lengths, hash, info) ==
    [readable |-> TRUE, hash |-> hash, info |-> info, name |-> "name", private |-> FALSE,
     pieceLength |-> 2, length |-> 4,
     files |-> [i \in 1..2 |-> [path |-> <<i>>, length |-> lengths[i]]]]

Lengths == {<<1, 3>>, <<3, 1>>, <<2, 2>>}

Commits ==
    {[observed |-> [Observed(lengths, hash, info) EXCEPT !.readable = readable],
      expected |-> Observed(prepared, "h", "i"),
      reservation |-> [faults |-> faults, hash |-> reserved, fileCount |-> count]] :
        lengths \in Lengths, prepared \in Lengths, hash \in {"h", "g"}, info \in {"i", "j"},
        readable \in BOOLEAN, faults \in {0, 1}, reserved \in {"h", "g"}, count \in {1, 2}}

(* ------------------------------- the contract ------------------------------- *)

Item(key, bytes) == [key |-> key, bytes |-> bytes, control |-> FALSE]

\* Listings of n items of one size, the second of which may be of another.
Listings(counts, sizes) ==
    {[i \in 1..n |-> Item(i, IF i = 2 THEN other ELSE size)] :
        n \in counts, size \in sizes, other \in sizes}

Pages ==
    <<[listing : {"files"}, items : Listings({0, 1, 2, 11}, {1, 4095, 4096}), limit : {1, 64}],
      [listing : {"files"}, items : Listings({66}, {1, 640, 641}), limit : {64}],
      {[listing |-> "torrents", items |-> Reverse(items), limit |-> 64] :
           items \in Listings({0, 1, 2, 66}, {1, 255})},
      {[listing |-> "legacy", limit |-> 64,
        items |-> [i \in 1..n |->
            [key |-> i, characters |-> length, bytes |-> width * length, control |-> odd,
             first |-> [bytes |-> width * 252, control |-> odd /\ i = 2]]]] :
           n \in {0, 1, 66}, length \in {1, 255, 256, 20000}, width \in {1, 3},
           odd \in BOOLEAN}>>

Scans ==
    <<UpTo(3, [outcome : {"valid"}, hash : {"h", "k"}, fileCount : {2},
               selections : {{}, {<<TRUE>>}, {<<FALSE, TRUE>>}, {<<FALSE, FALSE>>}}]
              \cup [outcome : {"unnamed", "unread", "untracked", "v2", "invalid"}])>>

Counters == {NaN, Infinite, -1, 0, 3, LargestInteger}

Summaries ==
    <<{[session |-> [fileCount |-> 2, selected |-> selected, length |-> length, state |-> state],
        counters |-> [downloaded |-> downloaded, uploaded |-> uploaded, peers |-> peers,
                      rate |-> rate, timeRemaining |-> rate, done |-> done]] :
           selected \in {{}, {0, 1}}, length \in {0, 3}, done \in BOOLEAN,
           state \in {"adding", "running", "paused", "removing"},
           downloaded \in Counters, uploaded \in Counters, peers \in Counters,
           rate \in {NaN, Infinite, 3}}>>

APath == [bytes |-> 9, control |-> FALSE, rooted |-> TRUE, backslash |-> FALSE,
          segments |-> <<"a", "b">>]

Paths3 == {APath, [APath EXCEPT !.rooted = FALSE], [APath EXCEPT !.segments = <<"a", "">>]}

HttpUrl == [scheme |-> "http", sound |-> TRUE, bytes |-> 20]

Operations ==
    UNION {
      [command : {"get-acquisition"}, payload : [acquisitionId : {"u", "v"}]],
      [command : {"get-preparation-files"},
       payload : [preparationId : {"u", "v", "?"}, cursor : {0}, limit : {64, 65}]],
      [command : {"discard-preparation"}, payload : [preparationId : {"u", "v"}]],
      [command : {"update-preparation-selection"},
       payload : [preparationId : {"u", "v"}, changes : {<<0>>, <<0, 0>>, <<>>}]],
      [command : {"commit-preparation"},
       payload : [preparationId : {"u", "v"}, destinationRoot : Paths3]],
      [command : {"restore-torrent"},
       payload : [infoHash : {"h", "k"}, destinationRoot : {APath}, paused : BOOLEAN]],
      [command : {"pause-torrent", "resume-torrent", "open-subtitles"},
       payload : [infoHash : {"h", "k", "?"}]],
      [command : {"remove-torrent"}, payload : [infoHash : {"h", "k"}, deleteData : BOOLEAN]],
      [command : {"open-media", "open-audio-metadata"},
       payload : [infoHash : {"h", "k"}, fileIndex : {0, 1, 100000}]],
      [command : {"open-external-subtitle"},
       payload : [infoHash : {"h", "k"}, mediaFileIndex : {0, 1}, path : {APath}]],
      [command : {"heartbeat-media", "close-media"}, payload : [leaseId : {"u", "v"}]],
      [command : {"create-torrent"},
       payload : [operationId : {"u", "v"}, sourcePath : {APath}, destinationRoot : {APath},
                  private : BOOLEAN, announceTiers : {<<>>, <<<<HttpUrl>>>>},
                  allowHttpTrackers : BOOLEAN, allowPrivateNetwork : {FALSE},
                  filterJunkFiles : {TRUE}]]}

Errors ==
    RaisedByAdd
    \cup [from : {"preparation"}, code : PreparationErrorCodes]
    \cup [from : {"unavailable", "unknown"}, code : {"none"}]
    \cup [from : {"legacy"}, code : {"ROOT_NOT_AUTHORIZED", "STATE_UNREADABLE"}]
    \cup [from : {"media"}, code : {"CAPACITY_EXCEEDED", "CLOSED", "NOT_FOUND", "START_FAILED"}]
    \cup [from : {"subtitle"}, code : {"UNAVAILABLE", "INVALID"}]
    \cup [from : {"creation"}, code : {"INPUT_INVALID", "TRACKER_REJECTED",
                                       "SOURCE_NOT_AUTHORIZED", "CREATION_FAILED"}]
    \cup [from : {"archive"}, code : {"INVALID_INPUT", "IO_FAILED"}]
    \cup [from : {"store"}, code : {"DUPLICATE_INFO_HASH", "CAPACITY_EXCEEDED", "EXPIRED",
                                    "NOT_FOUND", "INVALID_PAGE", "INVALID_SELECTION",
                                    "STATE_CONFLICT", "INVALID_WARNING"}]

\* The widest answers and commands the schemas let through.
Messages ==
    {ResultMessage("list-torrents", PageValue(64, SummaryValue(255))),
     ResultMessage("get-torrent-files", PageValue(64, FileValue(640))),
     ResultMessage("get-preparation-files", PageValue(10, FileValue(4096))),
     ExecuteMessage("set-torrent-selection", Object([infoHash |-> Hash,
         changes |-> Listed(250, Object([index |-> Numeral, selected |-> Truth]))])),
     ExecuteMessage("create-torrent", Object([operationId |-> Id, sourcePath |-> Leaf(4096),
         destinationRoot |-> Leaf(4096), name |-> Leaf(255), comment |-> Leaf(4096),
         private |-> Truth, announceTiers |-> Listed(64, Listed(1, Leaf(512))),
         allowHttpTrackers |-> Truth, allowPrivateNetwork |-> Truth,
         filterJunkFiles |-> Truth])),
     ExecuteMessage("open-preparation", Object([source |-> Object([kind |-> Leaf(6),
         magnet |-> Leaf(65536), allowDhtExposure |-> Truth, allowPrivateNetwork |-> Truth])]))}

Contract ==
    [pages |-> Pages, scans |-> Scans, summaries |-> Summaries,
     operations |-> <<{[asked |-> a, other |-> b] : a, b \in Operations}>>,
     failures |-> <<[error : Errors, aborted : BOOLEAN]>>, messages |-> <<Messages>>]

AroundTheLimits ==
    Contract @@
    [documents |-> Documents, requests |-> <<Requests>>, answers |-> Answers,
     datagrams |-> Datagrams, frames |-> Frames, addresses |-> <<Addresses>>,
     contacts |-> <<UpTo(4, Contacts)>>, torrents |-> Torrents, magnets |-> <<Magnets>>,
     topics |-> <<Topics>>, pieces |-> <<Pieces>>, commits |-> <<Commits>>]

===============================================================================
