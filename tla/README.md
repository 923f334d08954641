# WebTorrent Desktop in TLA+

These modules model the link between the main process and the engine process,
the life of a torrent in the engine, its resume sidecar, the owner's library,
tracker chains and the acquisition of a magnet's metadata, the preparations and
the commands of the engine's runtime, the services a torrent uses (media leases,
the peer budget, the DHT, HTTP and WebSocket trackers, signaling, bounded
fetches), and the readers of whatever comes from outside. TLC checks them on
small instances. TLAPS proves, for every value of their constants, the safety
invariants of all of them, and the three refinements of abstract specifications
(section 5). Only the readers of nested documents, which recur, and what must
eventually happen stay with TLC.

Paths are relative to the repository. The program is under `src/`: `src/main/`
is the Electron main process, `src/engine/` the utility process, `src/shared/`
what they agree on. `PROJECT.json` gives, for each definition, the lines it
stands for.

## 1. Inventory

### Processes and how they talk

The main process forks one *engine*, an Electron utility process, and talks to
it over a message port with two FIFO queues. Commands (`execute`) are correlated
by request id and answered by `result`; `initialize`/`ready`, `ping`/`pong` and
`shutdown`/`stopped` control the link; `event` carries snapshots. The renderer
talks to main through the desktop IPC. In the engine one serial queue executes
commands, so of two commands only one runs at a time. What interleaves with it
are WebTorrent's events, trackers, peers, timers and, between main and engine,
deadlines and the exit of either process.

### Components

| component | state | operations | interacts with | hard behaviour | correct when |
|---|---|---|---|---|---|
| Engine supervisor `main/engine-supervisor.ts` | the held process, generation, status, restart count, pending and retired requests, eight timers, the promise of `stop()` | `start`, `execute`, `restart`, `stop`; child events `spawn`, `exit`, `error`, `message` | controller (port), library (results), window (status) | late results and pongs, refused kills, stop during handshake or restart, hung engine | one engine at a time; every caller answered once; an honest engine is not accused; `stop()` settles |
| Protocol controller, operation queue `engine/protocol-controller.ts`, `engine/operation-queue.ts` | generation, initialized, shutting down; the lane and its deadlines | `receive`, admission, execution, deadline, `emit`, shutdown | supervisor, runtime | a deadline answers while the executor still runs | a refused command never runs; commands run at most once and in order |
| Torrent registry `engine/torrent-registry.ts` | one record for each info hash, a file count | `reserve`, `commit`, `rollback`, `beginTeardown`, `release`, `admits` | sessions | counts when adds fail at different points | a hash belongs to one generation; the counts are exact |
| Disk torrent session `engine/disk-torrent.ts`, `engine/metadata-commit-barrier.ts` | state, ready promise, `#torrent`, `#activation`, selection | `add`, `pause`, `resume`, `updateSelection`, `remove`, peer gates; WebTorrent's events | registry, WebTorrent, trackers, DHT | events at every await; destroy callbacks late or missing | peers only where they belong; quiet when paused; transfers when running |
| Torrent manager `engine/torrent-manager.ts` | sessions by hash, closing | each command, `closeAll` | sessions, resume store | shutdown against a running command | every command and the shutdown settle |
| Resume store `engine/resume-store.ts` | the sidecar file and a temporary file | `describe`, `save`, `load`, `evaluate`, `remove` | manager, file system | overlapping saves, failing file operations, crashes | a good sidecar is not replaced by a bad one; no bitfield claims a missing piece |
| Torrent library, state store `main/torrent-library.ts`, `main/state-store.ts` | one record for each torrent (intent) | `record`, `forget`, `restore` | engine commands and results | results lost to timeouts, sweeps against new commands, engine exits | records and sessions agree at rest |
| Torrent archive `engine/torrent-archive.ts` | `.torrent` bytes by hash | `save`, `load`, `remove`, `export` | runtime | failures between command and archive | bytes exist as long as the record |
| Private tracker chain `engine/private-tracker-chain.ts` | active member, index, the running advance, timer | `start`, `stop`; failure of a member | WSS and HTTPS activations | failures while a member starts or an advance runs; backoff timer | one tracker at a time; never gives up |
| Staging client pool `engine/staging-client.ts` | clients, places, closed, unhealthy | `lease`, `release`, `close` | WebTorrent | late, failing or missing destroy callbacks | a place is free only when its client is gone |
| Staging tracker chain `engine/staging-tracker-chain.ts` | current attempt, closed, ready | `start`, `freeze`, `stop` | activations | freeze against retirement | one endpoint at a time, none after freeze |
| Metadata acquisition `engine/metadata-acquisition.ts`, `engine/index.ts` | slots, unhealthy; per call a lease, a torrent, discovery | `acquire`, `close` | pool, staging chain, WebTorrent, preparation service | five ways to end racing the metadata handler; bounded teardown | a slot is free only when nothing is left; every call settles |
| Engine runtime `engine/runtime.ts` | preparation store, tracked acquisitions, manager, proxy, closed | one handler for each command, `close` | controller, every component below it | acquisitions run beside the lane; deadlines, removals and the shutdown come while a handler awaits | nothing is kept that nobody can name; everything settles |
| Preparation store and service `engine/preparation-store.ts`, `engine/torrent-preparation-service.ts` | records by id and by hash, bytes retained, reservations; remote fetches | create, select, begin, roll back, consume, discard, expire; open | runtime, acquisition | commit against expiry; aborts at each stage of an open | a reservation lives as long as its add; the sums are exact |
| Peer budget, peer adapter `engine/peer-budget.ts`, `engine/peer-admission.ts`, `engine/webtorrent-peer-adapter.ts` | records and transport leases by holder | `admit`, `reserveTransport`, `release`, `forget` | sessions, staging | eviction while admitting; a peer that closes before it connects | limits over all holders, counts exact |
| Media proxy `engine/media-proxy.ts` | leases by id and by token | `open`, `heartbeat`, `close`, `revokeTorrent`, `shutdown` | runtime, HTTP requests | leases opened after an await | a lease belongs to a torrent that is loaded, and somebody can close it |
| Client lifecycle `engine/client-lifecycle.ts` | two clients, promises of start and close | `start`, `close` | WebTorrent | close during start, one of two failing | ready means both, closed means neither |
| HTTPS trackers `engine/tracker-activation.ts`, `engine/tracker-http.ts` | units, active endpoints, timers, pending stops; the gate | `start`, announce, rotate, `notifyCompleted`, `stop` | sessions, network policy | stop against an announce in flight or a full gate | announcing goes on; nobody is asked while it is told to stop; each contact gets one attempt at a stop |
| WebSocket trackers `engine/wss-activation.ts`, `engine/wss-tracker.ts`, `engine/wss-socket.ts`, `engine/wss-message.ts` | attempted urls, the live set, sockets, one announce for each endpoint | fill, retire, `stop`; announce, frames | sessions, signaling | several fills at once, failures between approval and upgrade | no place forgotten; a live endpoint is connected |
| WebRTC signaling `engine/webrtc-signaling.ts` | pending offers, leases, the engine-wide count | offers, answers, timers, `retireEndpoint`, `close` | WebSocket trackers, peer budget | timers against hand-over and close | a lease for each peer being signaled, given back once; none after close |
| DHT `engine/dht-boundary.ts`, `engine/dht-wire.ts`, `engine/index.ts` | activations by info hash, socket, queue; token buckets | `activate`, `deactivate`, cycles, `close`; `accept` | sessions, staging | a lookup and a torrent of one hash; socket failure during bootstrap | searches exactly for those who asked |
| Network policy `engine/network-policy.ts` | remote slots; one fetch's deadline and dispatcher | `fetch` and its hops | preparation service, trackers | abort and deadline at each stage, redirects | no unapproved address, no downgrade, slots follow connections |
| Readers: `torrent-metadata`, `strict-bencode`, `metadata-commit-barrier`, `piece-selection`, `dht-wire`, `wss-message`, `tracker-http`, `legacy-import`, `shared/engine-api`, `shared/payload-budget` | none | one input, one answer | everything that takes outside input | limits, encodings read differently by different readers | what passes is usable; which of the engine's answers main accepts |
| Guarded store `engine/guarded-store.ts` | handles, faults | `put`, `get`, `close` | WebTorrent | writes against close | nothing written after close |
| Not modelled: subtitles, audio metadata, creation of torrents, folder watcher, menus, players, security, preload and renderer | | | | | |

`PROJECT.json` lists every one of these with its status, and the hazards (with
lines) that the properties are for.

## 2. Modules

    CommandService            what execute() promises            (abstract)
    OneContact                what a tracker chain promises      (abstract)

    EngineChannel             processes and the two queues of each port
      EngineSupervisor        main's side
      ProtocolController      the engine's side
        EngineLink            both, fairness, properties  -> CommandService
          EngineLinkProofs

    TorrentRegistry           the records of the info hashes
      DiskTorrent             sessions over WebTorrent's torrents
        TorrentManager        commands, shutdown, properties
          TorrentManagerProofs

    ResumeStore               saves, crashes and restores of one sidecar
    TorrentLibrary            main's records, the archive, engine generations
      TorrentLibraryProofs

    PrivateTrackerChain       -> OneContact
    StagingClientPool         clients, places, closing
      StagingTrackerChain     -> OneContact (one for each acquisition)
        MetadataAcquisition   acquire() over both, shutdown, properties
          TrackerChainProofs  of both chains, the pool and the acquisition

    PreparationStore          the store as a value
      EngineRuntime           commands, acquisitions, expiry, shutdown
        EngineRuntimeProofs   of the runtime and of the resume store

    MediaLeases  PeerBudget  ClientLifecycle
    TrackerActivation  WssActivation  WebrtcSignaling
    DhtBoundary               searches and sockets, and the ingress limiter
    AddressPolicy             which addresses may be reached or named
      EgressFetch             one fetch, hop by hop
    EngineServices            extends these, one taking every step; properties
      EngineServicesProofs

    Lists                     filters and orders as folds over a list
      TrackerWire             requests, replies, frames, session descriptions
      TorrentMetadata         files, magnets, pieces, the commit barrier
        TorrentMetadataProofs
      EngineApi               the contract of main and engine
        EngineReaders         extends these and EngineServices; their properties
          EngineReadersProofs
    NestedValues              documents, what canonical bencode is, the budget
                              of a message

The indentation is EXTENDS; the arrow is refinement. `MC...` modules hold the
instances for TLC that a configuration cannot; the others are checked directly. A definition that begins with "Mutant:" is a plausible bug in
the definition below it. No specification uses it; it is there to show that a
property notices.

### The engine link

An action of `EngineSupervisor` is one callback of main: `execute`, `start`,
`restart`, `stop`, a child event, one message or one timer. `HandleResult`, say,
is everything `#onMessage` does with a result, the error paths included. The
envelope (version, sequence number, generation id) holds by construction, since
a port is FIFO and belongs to one child. `HandleInvalid` stands for every
message main refuses. `ProtocolController` has one controller for each
generation; its phases are the booleans of the class. Requests of the capability
check, duplicate ids and payload validation are left out.

`CommandService` says what a caller may assume: the command takes effect at most
once, in the order of issue; an acknowledged one has, a refused one never will;
after `TIMEOUT` or `ABORTED` it is not known. `EngineLink` implements it with
`outcome` and `runs` mapped to themselves.

### The torrents

A generation number stands for a registry record's token and generation id. An
asynchronous method is one action for each stretch between two awaits
(`pause` is `Pause`, then `PauseDone`), and the variable `lane` of
`TorrentManager` is the command that runs and the await it is at. WebTorrent's
torrent (`wt`), its peers and the tracker activation are external: each of their
events is an action with the listener that the session has attached. A destroy
callback may be late or never come; the four-second bound of `remove` is the
choice to go on without it.

### The resume store

Files are inodes behind two names (`temp`, `target`). A save awaits stat, open,
write and rename, and between any two of them another save, a download, a change
of the payload by somebody else, a failure or a crash may come. A payload is a
stamp and how much of it is good; a bitfield claims a prefix. `trouble` records
whether saves have overlapped or one has failed.

### The library

Main's records (`library`), the archived bytes (`archive`) and the engine's
sessions are three sets of facts that only replies keep in step. The lane is a
queue of commands and sweeps; a reply may be lost to a timeout (main no longer
listens) or to an exit. `unheard` remembers the torrents for which something was
really lost, `gone` those whose removal the owner was told of.

### The chains and the acquisition

Members and attempts are external objects (an HTTPS or WSS activation): they may
fail while they start, run or stop. `OneContact` is what a private torrent needs
of a chain: contact one tracker at a time, none after `stop()` or `freeze()`. What
a private member's tracker has brought (peers, pending offers) is in the chain's
variable `found` and stays after the member's stop, since `index.ts` gives those
members no retirement callback; run `left_peers` shows it.

`MetadataAcquisition` follows `acquire()`. `pc` is where it waits: for the lease
("leasing"), the metadata ("running"), `discovery.stop()` ("stopping"), the
torrent's destroy callback ("destroying"), `lease.release()` ("releasing").
Whatever ends the wait for the metadata goes through `Finishes`, which freezes
the chain in the same step. The destroy callback of a torrent or a client comes
in time, late, with an error, or not at all. `Fails` is the path of a teardown
that is not confirmed: the slot is kept. The engine's shutdown closes
acquisitions and pool in one step, and does not wait for an acquisition that the
runtime has expired. Promises resolved by one callback are resolved in that
callback's action, as no other callback runs between microtasks. Peer ids,
addresses, the DHT and the peer budget are left out; a failed DHT activation
ends the wait as the timer does.

### The runtime

`PreparationStore` is the store as a value: each operation is an operator from a
store to a store, with its guards beside it. `EngineRuntime` holds one and adds
time: a preparation or an acquisition is *due* once its lifetime is over, and is
dropped by the next operation that looks, as in the code. `phase` is where the
preparation service is with an open, `cmd` the handler in the lane and the await
it is at, `tracked` the acquisitions that can be asked about. `told` and `missed`
are ghosts: preparations that an answer named, and those of acquisitions that
nobody asked about in time.

### The services

These components share no state and answer to different callers, so
`EngineServices` composes them by a variable, `subject`, that says which of them
takes every step of a behaviour: the state spaces add up instead of multiplying.
Each module has its own variables, `...Init` and `...Next`, and can be used without
the composition.

* `MediaLeases`: the proxy's leases and the runtime commands that open, renew and
  revoke them. `OpenSlowly` is a handler that opens after awaits.
* `PeerBudget`: the budget (in the order its holders were created, which decides
  ties) and both hand-offs that use it; WebTorrent's peers are external, those that
  dial in to a committed torrent among them (`inbound`), which nobody counts.
  `swept` says that `closeAll` has emptied the manager's map, over which admission
  counts live transports; a holder released by a retired tracker goes on under the
  same key.
* `DhtBoundary`: the activations, the queue, the socket and the two session maps of
  `index.ts` that decide who may start or end one.
* `ClientLifecycle`: both clients, `start`, `close`, and the shutdown phases of
  `index.ts` around them.
* `TrackerActivation`: units and endpoints over the shared gate. `present` is what
  the trackers believe: who took an announce and no 'stopped' since. `WssActivation`: the
  loops that fill the live set, each waiting for the url it opens, with endpoints
  and sockets. `WebrtcSignaling`: every peer from its lease to its hand-over, or to
  the constructor that throws and leaves the lease behind (`leaked`).
* `EgressFetch`: resolve, approve, connect, read, close, and the next hop, with the
  abort and the deadline possible between any two; and the caller's side, which is
  answered before the connection is closed.
* `DhtBoundary` also has the ingress limiter (tokens, refills, the source table).

### The readers

A reader has no state: its behaviour is one input, so `EngineReaders` has a
subject for each, whose only state is the input, chosen from sets in
`MCEngineServices` (`AroundTheLimits`) made to lie on both sides of every limit of
the instance. A loop of the code over a list is a fold, which can be reasoned about
(`Lists` has the filters and orders they share); the three bencode readers and the
message budget, whose values nest, are recursive and stand apart in `NestedValues`.
What a reader does is compared with a definition written independently of it:
`NestedValues` says what canonical bencode is, `AddressPolicy` has the special-purpose
blocks, `TorrentMetadata` has the pieces a file touches. Texts are their sizes and
the flags the code looks at. Refusals that callers do not tell apart are one value.

`ReadersAssumption` says of which type each reader's input is, and no more than that:
a list is a list, a length a natural number, a digit has five bits. Where it says
something that the code has established before, it is the caller's own guard: a
list of pieces comes from a manifest (`ArePlaced`), a listing's names have the length
that its producer allows (bytes of a prepared torrent's, characters of the previous
application's), a selection has no more files than the torrent. TLC evaluates it for
every input of the run.

`EngineApi` has the numbers of the contract itself (pages of 64, names of 255...),
since its properties are about when the engine's clamps and cuts stay within main's
schemas, and when they do not.

## 3. Runs

Each run takes at most four minutes on two cores. Deadlock checking is off where the
modelled system may really stop: the application has quit, a private torrent was
removed, every acquisition has ended, the runtime is closed, or the bounds are used up.

| run | question | bounds, and why they are enough |
|---|---|---|
| `link` | Is there ever a caller without an engine, an honest engine accused? Is `CommandService` implemented? | two commands (order, one pending limit), two generations (commands of one meet the end of it and the start of the next, which the restart timer begins), refused kills |
| `link_restarts` | Is there ever a second engine? (`OneEngine`) | one command, three generations: only then is there room for a restart by the window's button, which competes with the timer, with an engine that does not die and with `stop()` for the next generation |
| `link_faulty` | Can an engine that breaks the protocol have a caller answered twice, a fork after `stop()`, a second settling of it? (`EndsAreFinal`) | one command, one arbitrary message at any point, two generations (the button has no part in it: after `stop()` it does nothing) |
| `link_live` | Does every starting, hanging, waiting or stopping state end? (`EngineComesBack`, `CallsSettle`) | one command, `postMessage` that throws, refused kills; two generations, of which the timer starts the second. Limbo and a hung engine may last only where a kill was refused (`KillRefused`); calls and `stop()` settle even then |
| `torrents` | Three subjects that share no state, below | see below |
| `orphaned_add` (violation) | Does a failed add always give its hash back? | one generation |
| `resume` | Is a bitfield ever false, a sidecar ever torn (`RestoresAreSound`), a selection lost? | two overlapping saves, four inodes (two names and two unlinked files still open), two payload changes, one crash, every operation may fail |
| `resume_stale` (violation) | Does the sidecar hold the last selection once all saves ended? | two saves, no failure and no crash needed |
| `left_peers` (violation) | Are a private tracker's peers gone when the next one is contacted? | two endpoints, one advance |
| `records` | Do records, archive and sessions agree at rest (`RecordsAgree`), does a generation get back what is recorded (`NothingIsLost`)? Do store, lane and acquisitions agree on every preparation (`PreparationsAccounted`), does everything settle (`RuntimeSettles`)? | the library: one torrent, two commands in flight, two exits, every fault; records of different torrents share only the limit, which is the fault "full". The runtime: three preparations, two of one torrent (a duplicate), one larger than the bytes left, one fetch and one tracked acquisition at a time, so that these three limits refuse. The limit on the number of preparations is checked the same way as the one on bytes and never refuses here |
| `services` | One property for each service and each kind of reader, below | leases of two torrents; three holders of which one is an acquisition; three torrents searched for, the first of them acquired as well, two activations queued at most; two tiers over HTTP (two endpoints and one) and two over WebSocket; three signaling peers; two fetches with one redirect; three sources of datagrams over three ticks |
| `summaries` (violation) | Is every summary of a torrent one that the contract accepts? | the counters of one session, of which one is NaN, infinite or at a limit |

The subjects of `torrents`:

| subject | properties | bounds |
|---|---|---|
| owned | `TypeOK`, `OwnsItsHash`, `OneTorrentPerHash`, `OneActivation`, `PeersBelong`, `SessionInStep`, `CommandsTakeEffect`: registry, session and manager through every command, event, late destroy and shutdown | two generations, so that an old one still dies while the new one lives; hashes equal or different; two files allowed where three would be needed, so that the limit on files refuses. The limit on the number of torrents would need a third generation; it is counted (`SessionInStep`) and never refuses here |
| staging | `TeardownIsComplete`, `AcquisitionsRunTheirCourse`: a free slot means that nothing is left, admission is closed before a destroy, one tracker is contacted at a time, every acquisition settles | two acquisitions, slots and clients as in the code, two trackers and none. A client is never refused for the number of clients: an acquisition has its slot first, and there are as many slots as clients |
| private | `PrivateTypeOK`, `ImplementsOneContact`, `KeepsTryingUntilStopped`: one tracker is contacted at a time, the chain goes on, `stop()` settles | two endpoints (the second round wraps), three slots: an active member, a retiring one and a member being built |

What the properties of `services` say:

| property | subjects | it says |
|---|---|---|
| `LeasesOwned` | media | a lease belongs to a loaded torrent, somebody can close it, none outlives the proxy |
| `PeersWithinBudget` | peers | records and reserved transports are those of the peers handed over; the limits on records hold, of all, of PEX and of acquisitions, and the acquisitions' limit on transports. The engine's limit on transports holds for the peers that admission sees: not for those that dialed in, nor, once `closeAll` has emptied the manager's map, for those that are up |
| `DhtFollowsItsTorrents` | dht | no activation outlives who asked for it; each torrent that asks is searched for or waits for the acquisition that holds the DHT, unless a full queue turned it away (`turnedAway`); a search goes on, unless its first socket threw (`stranded`); the socket is closed when nobody asks |
| `ClientsStartAndStopTogether` | clients | ready means both clients listen, unless one was lost while `start()` waited for the other (`unheard`); after close none runs unless its failure was reported |
| `AnnouncesAreKept` | announces | something is under way or due while a torrent announces; no endpoint is asked while it is being told to stop; after the stop each that was contacted has had its one attempt, and one that still counts the torrent met a full gate (`stopLost`) or was asked again after it (`askedAgain`) |
| `SocketsAccountedFor` | sockets | a free place is being filled or has no candidate; live means connected |
| `SignalingAccountedFor` | signals | the leases taken are the peers being signaled and those lost with a peer that could not be made; each of the three limits holds; none after close |
| `FetchesStayWithinPolicy` | fetches | no address off limits, no fall to plain http, slots follow connections |
| `IngressIsMetered` | ingress | over any window no more datagrams pass than one burst and the window's refill, of all sources and of one while it is remembered. The window is a ghost whose beginning is chosen at any tick |
| `NestedValuesAreSound` | documents, messages | three bencode readers against one grammar (`DocumentsMeanOneThing`); the widest command and answer fit the channel's budget (`MessagesFit`) |
| `OutsidersAreConfined` | requests, answers, datagrams, frames, contacts, addresses | what outsiders say names nobody it may not |
| `PreparedIsUsable`, `CommittedIsPrepared` | torrents, magnets, topics, pieces, commits | what passes validation can be stored and selected from, and what is committed is what was prepared |
| `AnswersAreUnderstood` | pages, scans, summaries, operations, failures | the pages of a listing are the listing, in its order; one of a torrent or of its files is always accepted, one of the previous application's unless it carries a name with a control character or characters of several bytes, which `boundedNameSchema` counts; a summary is accepted exactly when its uploads are a number in range and its peers a number; an answer belongs to one question; every failure has a code of the contract, and a restore is told NOT_FOUND exactly when its archived bytes could not be had |

The instance of the peer budget reverses two of the code's limits: with 55
transports for 256 records an eviction is unreachable in the code as configured,
and the runs should reach it. `MaxQueuedActivations` is 2 with three torrents, so that
the queue refuses. `MaxCalls` bounds the calls of one session to the DHT that are under
way at once: the first session of the run may have two (it stopped and started again
during the first), the others one.

Bounds that only limit counters: `MaxGen`, `MaxUnread`, `MaxStamp`, `MaxCrash`,
`MaxLane`, `MaxCalls`, `MaxTime`, `Files`, `Savers`, `Slots`. The limits of the code
itself are `MaxPending`, `MaxRetired`, `MaxActive`, `MaxLoaded`, `MaxEntries`,
`MaxConcurrent`, `MaxClients`, `MaxPreparations`, `Endpoints`, and those of the services
and readers. They are smaller in the runs, so that they are reached, but for
`MaxActive`, `MaxRetired`, `MaxLoaded`, `MaxConcurrent`, `MaxClients` and
`MaxPreparations`, which never refuse there: the runs keep room for two commands in
the lane, say, because their order matters more. The theorems hold for every value.

`services` is for the readers an enumeration of inputs: documents up to 18 bytes,
values nested twice, lists of three, each limit one or two.

`resume` and `resume_stale` use the symmetry of savers and of files, which no
temporal property accompanies.

### Fairness

* `link_live`: main's timers fire, the operating system delivers 'spawn' and
  'exit', a process that was killed or has called `exit()` dies. Nothing is
  assumed of a live engine: it may hang before or after any message.
* `torrents`, owned: the awaits of a running command end, since each is a timer, a file
  operation or a tracker's bounded stop; WebTorrent is assumed to do nothing.
* `records`, library: the engine executes what it has, main handles replies, the
  supervisor starts the next generation. That the sessions' commands end is what
  `EveryCommandSettles` shows.
* `torrents`, private: an await of `start()` or `stop()` of a member returns, timers
  fire. Members need not fail or succeed.
* `records`, runtime: an open that has begun, a handler and the shutdown end, each being a
  timer, a bounded fetch or a file operation. Nobody need ask about an acquisition.
* `torrents`, staging: timers bound the wait for the client, the metadata, both destroys;
  an attempt's `stop()` settles. No callback later than its timer is assumed.

## 4. What the violations say

Each is a disagreement between a comment or document of the repository and its
code, reproduced by TLC; `PROJECT.json` quotes the lines.

* `orphaned_add`: the selected empty files are created after the ready promise
  has settled. If that fails, `add()` rejects, but the record stays committed
  with its torrent loaded and no session in the map: each retry is a duplicate
  until the engine restarts.
* `resume_stale`: two selections in quick succession save on their own. The
  earlier save may end last, or take the temporary file away from the later one,
  and a restore reads the earlier selection.
* `left_peers`: `private-tracker-chain.ts:43` says that the peers and sockets of a
  member are retired with it before the next endpoint is constructed. Of the
  activations that `index.ts` makes, only those for staging have a callback for that;
  a private member has none, and the chain's members share their signaling. The next
  tracker is contacted while the torrent has the peers of the one it left.
  `ImplementsOneContact` is about trackers alone.
* `summaries`: `disk-torrent.ts:319` says that counters are clamped so that the
  contract cannot reject them; `uploaded` and `numPeers` are not protected from NaN,
  nor `uploaded` from infinity or from more than the contract's integers, and such a
  summary is refused. `SummaryIsAccepted` says exactly when.

Disagreements met while modelling, for which the project has no run of its own:

* `disk-torrent.ts:821`: the removal goes on after four seconds and releases the
  hash although WebTorrent's cleanup may still run; the comment at line 612 and
  the registry's at 86 say that it is unavailable until then. `OneTorrentPerHash`
  therefore speaks of torrents that are not being destroyed.
* `disk-torrent.ts:588`: peers are still taken while a pause waits for the
  trackers (`PeersJoinRunning` names the window).
* `resume-store.ts:215`: all saves of a torrent share one temporary name, so two
  of them can tear the sidecar, which line 212 excludes (`SidecarReadable` holds
  unless saves overlapped).
* `runtime.ts:785`: a commit writes no sidecar; a crash before the first save
  loses the selection.
* `torrent-archive.ts:86`: any failure to read the archived bytes is taken for
  their absence and the library drops the record (`DroppedWhenGone` allows it).
* `runtime.ts:809`: a restore that succeeds after main's timeout is never
  recorded.
* `index.ts:842`: if the staging pool fails to close, the media proxy, the DHT
  and the clients are not closed, though the comment above says that cleanup
  continues through a failing phase.
* `engine-supervisor.ts:608`: a heartbeat timeout forgets the ping and kills the
  engine. A pong already in the queue is then a protocol failure, and the automatic
  restart that `plan.md:450` promises does not happen (`HonestEngineTrusted` allows
  the accusation of an engine that main has signalled).
* `private-tracker-chain.ts:184`: the backoff timer compares with the wall clock.
  Set back in between, the callback returns without arming another timer, and the
  chain has given up (`KeepsTrying` excepts a clock set back).
* `wss-activation.ts:11`: "An active tier holds one socket", but an endpoint that
  fails while another loop opens a url of its tier starts a second loop, which opens
  the next url of that tier, and both go live. `SocketsAccountedFor` bounds the
  sockets of the engine, not of a tier.
* `legacy-import.ts:82`: names of legacy torrents are cut to 255 characters and may
  hold control characters, while the schema allows 255 bytes without any: one such
  entry turns the whole page into an internal error (`PagesAddUp` says that this, and
  nothing else, has a page refused).
* `peer-budget.ts:52` speaks of one bound that all torrents share. Admission counts
  live transports over the manager's map, which `closeAll` empties before its awaits
  while sessions still admit; a peer that dials in to a committed torrent is never
  counted (staging closes those, `index.ts:499`); and what a retired tracker generation
  releases is counted again under the same key (`BudgetHolds` speaks of `Seen`).
* `runtime.ts:761`: a restore answers NOT_FOUND also when the archived bytes could not
  be read for another reason (`FailureIsTold` says when it does).
* `engine-api.ts:52`: the deepest subtitle grant the schema allows exceeds the
  message budget of the channel.
* `index.ts:158`: a search refused because the DHT queue is full (`QUEUE_FULL`), or
  whose first socket cannot be constructed, is never tried again; only a cycle retries
  (`dht-boundary.ts:336`). `turnedAway` and `stranded` remember which.
* `client-lifecycle.ts:199`: a client that is lost after it listens and before the
  other does makes no difference to `start()`, which then reports ready
  (`unheard` remembers it).
* `tracker-activation.ts`: an announce that the full gate refuses still marks its
  endpoint contacted, so it never gets 'started'; a full gate at stop loses 'stopped';
  and an endpoint that was told, was asked again and is active at the end is not told
  a second time (`UntoldForAReason`).
* `wss-tracker.ts:296`: "Idle sockets are probed", but `heartbeat()` has no caller.
* `webrtc-signaling.ts:161`, `:260`: a lease is "released exactly once" (line 85), but if
  constructing the peer throws, it is never returned, and the engine-wide limit has
  one place less from then on (`leaked`).
* `dht-wire.ts`: the reader accepts string lengths with leading zeros and `i-0e`, which
  the other two readers refuse; the limiter takes the common token before it looks at
  the source, so one refused source drains what all share.
* `runtime.ts`: an acquisition that is forgotten once ready leaves its preparation
  without a name until it expires (`missed`); the shutdown does not wait for
  acquisitions that have expired; media streams that run survive the revocation of
  their lease.
* `metadata-acquisition.ts:237`: a staging torrent that WebTorrent destroyed on
  its own (any 'error') makes the teardown unconfirmable, so one bad torrent
  makes the engine unhealthy and ends it.

## 5. Proofs

The eight `...Proofs` modules prove what follows for any finite set of commands or
hashes, any limits, any number of generations, saves, endpoints, acquisitions,
preparations, peers and sources, and whatever the readers are given. They assume what the modules name in their
`ASSUME`s (finite sets, natural limits; two generations at least in the link,
because the restart is part of it), and the hypotheses in the table.

### The engine link

| theorem | statement | argument |
|---|---|---|
| `LinkTypeCorrect` | `Spec => []TypeOK` | by itself inductive; one lemma for each helper of the supervisor (what `Posted`, `Terminate`, `FailProtocol`, `Spawn`... do to the types), one for each side |
| `LinkOneEngine` | `Spec => []OneEngine` | not inductive: `Spawn` needs to know that nothing is held. `HeldInv` adds that a process not yet reported gone is the held one, and that none is held while a restart is due |
| `LinkWaitersHaveAnEngine` | `Spec => []WaitersHaveAnEngine` | `WaitersInv`: waiting and pending are the same, and nothing is pending unless a ready engine is held and not being stopped. Every step that leaves that state settles all pending ones |
| `LinkEndsAreFinal` | `Spec => EndsAreFinal` | an action property: an outcome given stands, nothing forks after `stop()`, and once `stop()` has settled it is never waited for or settled again. `StopInv`: a `stop()` that was called has cancelled the restart, so nothing that can still happen forks. `StopTimersInv`: its two timers run only until it settles. An answer is given only to a caller that waits |
| `LinkImplementsCommandService` | `Spec => ImplementsCommandService`, if `FaultyEngine = FALSE` | `ServiceInv`: commands travel (port, lane, results) in the order of their calls, each is in one of these places at most, one that is in the engine's hands is not decided, and a result on its way says what has become of the command. Then every step is one of the service's, or none |
| `LinkHonestEngineTrusted` | `Spec /\ []RoomForRetired => []HonestEngineTrusted` | `HonestInStep`: of every exchange (handshake, ping, each command, the shutdown) at most one message is on its way in either direction or in the lane, and main is prepared to hear it, or has retired it. Added to it: what an unborn generation has (nothing), that no run timer is armed without a process, and that what was asked was called |
| `HonestEngineTrustedInARun` | the same without the hypothesis, if there are at most `MaxRetired` commands | what is retired or pending is a set of commands |
| `LinkNeverWaitsInVain` | `Spec => []NeverWaitsInVain` | `WatchInv`. Whenever main starts an engine, restarts it, watches it or stops it, the engine is due to spawn or was told to die, or a timer is armed that ends the wait: the safety half of `CallsSettle` and `EngineComesBack` |

`RoomForRetired` is a hypothesis because the code has no more than 256 retired ids
(`MAX_RETIRED_REQUEST_IDS`) and evicts the oldest: the late result of an evicted one
would be a protocol failure of an honest engine.

### The torrents

| theorem | statement | argument |
|---|---|---|
| `TorrentTypeCorrect`, `TorrentOwnsItsHash`, `TorrentOnePerHash`, `TorrentOneActivation`, `TorrentPeersBelong` | invariants of the run | one inductive invariant, below |
| `TorrentManagedAreLive` | the map of sessions holds no removed session | a part of it |
| `TorrentSessionInStep` | `Spec => []SessionInStep` | the invariant with `AllSteady` (what a session's state says of its torrent and trackers, but for the awaits of pause and removal) and `Counted` (the file counter is the cardinality of the set of pairs of a loaded hash and a file) |
| `TorrentStaleNeverResumes`, `TorrentPeersJoinRunning` | `Spec => ...`, action properties | from the invariant, step by step |

The inductive invariant is `TypeOK /\ AllConsistent /\ LaneFollows /\ ManagedAreLive
/\ SweepFollows`. `AllConsistent` relates, for one generation, the session's flags to
its record, torrent, peers and activation. `LaneFollows` says how far the running
command has brought its session, which is what the second half of a split method
relies on. `SweepFollows` says that shutdown only sweeps sessions that were added.
What two generations may do at once follows from the registry holding one record for
each hash (`HashesDiffer`); each step is shown to leave the other generations as they
are (`OthersKept`).

### Resume store, library

| theorem | statement | argument |
|---|---|---|
| `RestoresSound` | `ResumeSpec => []RestoresAreSound` | `SidesSound`: every sidecar in a file or in the hands of a save is sound, that is, its bitfield claims only good pieces as long as the payload has the fingerprint it was described at. A clean save is awaited while the torrent stays loaded (`CleanIsAwaited`), and two names are two files (`NamesApart`). `ResumeInductive` is the whole |
| `SelectionSaved` | `ResumeSpec => []SelectionSavedInTurn` | `OneSave` and `SelectionUnderway`: unless saves have overlapped, the temporary file is the one save's own and holds what it wrote; unless one failed, the selection set last is in its hands or in the sidecar |
| `RecordsStayInStep` | `LibrarySpec => []RecordsAgree` | replies are still on their way, so the invariant speaks of what main *will* have recorded once it has read them (`Will`, `After`). For each torrent of which nothing was lost: what is loaded is archived and will be recorded with its intent, what is due to be loaded will be recorded, what is being removed and not added later is nowhere. `LibraryInductive` is the whole |
| `RecordsDropWhenGone` | `LibrarySpec => DroppedWhenGone` | an action property: main drops a record on NOT_FOUND of a restore, and `MissingIsOut` says that the bytes are then missing or were archived by a later commit |

### Chains and acquisition

| theorem | statement | argument |
|---|---|---|
| `ChainTypeCorrect` | `PrivateSpec => []PrivateTypeOK` | with the next one's invariant |
| `ChainContactsOne` | `PrivateSpec => ImplementsOneContact`: the chain implements `OneContact` | while the chain is open, what is being stopped belongs to the one member whose advance retires, and nothing is active meanwhile (`StoppedIsAwaited`, `OneRetires`), so the next member begins alone (`BeginsAlone`); every other step stutters, leaves or closes. What a left tracker has brought is not part of `OneContact` (section 4) |
| `ChainGoesOn` | `PrivateSpec => []AdvanceGoesOn` | a running chain contacts a tracker, leaves one, or has its timer: the safety half of `KeepsTrying` |
| `TeardownComplete` | `Spec => []TeardownIsComplete` | one acquisition's client, torrent, chain, slot and place are taken in order and given up in the opposite one (`Staged`, `Slotted`, `Pooled`, `Chained`), and a step of one leaves the others alone. `AcquisitionInductive` is the whole |
| `StagingContactsOne` | `Spec => OneTrackerAtATime`: each staging chain implements `OneContact` | step by step; an acquisition that is being torn down has frozen its chain |

### The runtime and its services

| theorem | statement | argument |
|---|---|---|
| `StoreAndLaneAgree` | `Spec => []PreparationsAccounted` | one lemma for each operator of `PreparationStore` (what it does to the index, the bytes and the reservations), then: a reservation is that of the add in the lane (`ReservedByLane`), an open under way is awaited or aborted (`OpenIsAwaited`), what is ready has a name (`ReadyIsNamed`). Sums of bytes are the cardinality of a set of pairs |
| `MediaHolds` | `Spec => []LeasesOwned` | with what the command that awaits still relies on: its torrent is playable, one that leaves has no lease left |
| `ClientsHold` | `Spec => []ClientsStartAndStopTogether` | who has listened is still listening until the start has both, or is among the `unheard` |
| `AnnouncesHold` | `Spec => []AnnouncesAreKept` | while a tier announces, its active endpoint was contacted; an endpoint that is being told to stop is the active one of a tier that rotates; who is `present` has had no attempt at a stop, or its attempt was lost, or it was asked after it |
| `SocketsHold` | `Spec => []SocketsAccountedFor` | a url not attempted has no socket, one being approved has a loop that waits for it; places are counted as the cardinality of the urls at work |
| `SignalsHold` | `Spec => []SignalingAccountedFor` | what is counted is the cardinality of the leased peers, of a torrent, of an endpoint and, with the leaked leases on top, of the engine |
| `DhtHolds` | `Spec => []DhtFollowsItsTorrents` | `SearchedFor`: an activation belongs to the session that asked, or waits for the one it displaced, or the session is among those `turnedAway`; and somebody will look at it again (a call in progress, a retry, the socket), unless it is `stranded` |
| `FetchesHold` | `Spec => []FetchesStayWithinPolicy` | each fetch is sound by itself (what its stage says of the address, the scheme, the deadline and the caller), and the slots taken are the cardinality of the fetches at work. `AllowedIsOrdinary` shows that the code's ranges of bits and the special-purpose blocks are the same addresses |
| `PeersHold` | `Spec => []PeersWithinBudget` | a holder's records name each peer once and are the peers WebTorrent was handed (`BudgetIsTrue`), those that dialed in being others; a sum over holders is the cardinality of pairs, so an eviction and the admission it allows keep each limit on records, and on the transports admission sees |
| `IngressHolds` | `Spec => []IngressIsMetered` | for the common bucket and each remembered one: what was let in since the window began and the tokens left are at most the burst and the window's refill, whenever it began, because a bucket never holds more than its burst. Sources are ordered by their last use, so the one forgotten is the oldest |

`EngineServices` gives each step to one service, so `OneServiceAtATime` reduces a
theorem to the service's own steps. None of these theorems has a hypothesis besides the
assumptions on the constants: where the code falls short, the property names the case by
a variable that remembers it, and says what holds for all others.

### The readers

Of a reader's subject the input never changes, so `InputInv` (the input is one of the
reader's `Inputs`, hence of its type by `ReadersAssumption`) is inductive, and a
theorem about a reader is one about each input of that type: trees of any depth, lists
of any length, numbers of any size.
Besides the types they assume that NaN and infinity are no integers, that the limit on
peers is a number the contract can carry (`NumbersAssumption`), and that limits are
numbers (`WireAssumption`, `FramesAssumption`).

| theorem | statement | argument |
|---|---|---|
| `OutsidersHold` | `Spec => []OutsidersAreConfined` | an announce has its nine parameters once and two optional ones behind them; what of an answer, a datagram or a description is kept is a part of what was let through, and that has ordinary addresses (`AllowedIsOrdinary`) and no more than the limit |
| `PreparedHold` | `Spec => []PreparedIsUsable` | files that could all be placed are apart from every other's directories (`PlacedFilesAreApart`), laid end to end (`LaidEndToEnd`), and every selection of them has ranges. A magnet's trackers, selection and consent follow from what its lists keep. Ranges, sorted and merged, are canonical (`MergedIsCanonical`), and canonical ranges are determined by their numbers (`CanonicalIsUnique`): so selections of the same pieces are the same to the client |
| `CommitsHold` | `Spec => []CommittedIsPrepared` | what the barrier lets through has the same files (`AnyCommitKeepsTheSelection`) |
| `AnswersHold` | `Spec => []AnswersAreUnderstood` | a page takes a run of the listing that fits, in the listing's order, and the next begins behind it, so the pages of a listing are the listing; of a summary all but two counters are within the contract whatever they were, and those two decide; no answer fits two commands; every failure that can be mapped has a code of the contract; a scan offers each hash once |

Nothing recursive can be proved about directly, so the readers' loops are folds, and
folds are reached in three steps: `FoldGoesOn` (from the definition of the library's
fold: there is a function on sets of positions that computes it), `StatesOfFold` (its
states, one for each position) and `UpTo` (what holds of the first state and of each
next one holds of the last, from the smallest number that would be an exception). Each
loop has a lemma of its own that names its states (`KeptSteps`, `MergeSteps`,
`TreeSteps`, `TierSteps`...) and one for a step.

Each strengthened invariant was first checked by TLC on the instance of its run.

### Only model-checked

* Everything temporal under fairness, which is beyond the prover: `CallsSettle`,
  `EngineComesBack`, the liveness in `CommandsTakeEffect`, `LibraryComesBack` in
  `NothingIsLost`, `KeepsTryingUntilStopped`, the settling in
  `AcquisitionsRunTheirCourse`, `RuntimeSettles`. Their safety halves are proved where
  they have one that says something: `LinkNeverWaitsInVain`, `TorrentPeersJoinRunning`
  and `TorrentStaleNeverResumes`, `RecordsDropWhenGone`, `ChainGoesOn`,
  `StagingContactsOne`.
* `NestedValuesAreSound`: readers that call themselves for the values inside a value
  are recursive operators, with which the prover loses its backend, and what they
  compute of every document needs induction over data. All else that the readers do
  is proved.
* `FailedAddGivesHashBack`, `LastSelectionSaved`, `PeersRetiredWithTheirTracker` and
  `SummariesFitTheContract` are false, as the runs show.

## 6. Plan

Built so far, by weight: the engine link; registry, session and manager; resume store
and library; chains and acquisition; the preparation store and the runtime; the
services; the readers and the contract; and the proofs of their safety.

Components are checked together where they share nothing (`services`), so that a run
still answers one kind of question; properties that need the same run and the same
argument are conjunctions of named parts.

What remains: the archive's failures apart from the library, the DHT's contacts and
queries, and of the readers those in `NestedValues`, which would have to be written as
automata over a stack to be proved about.

### Not modelled

* The guarded store, the creation of torrents, subtitles and audio metadata: paths,
  flags and bounded parsers whose outcome is the file system's.
* The WebTorrent peer adapter and WebTorrent itself: their events are external
  actions of `DiskTorrent`, `PeerBudget` and `MetadataAcquisition`.
* Of the DHT: contacts, tokens and the queries inside a cycle; a cycle ends with or
  without peers at any time. Of the media proxy: ranges, headers and the running
  streams. Of the WebSocket endpoint: the heartbeat, which nothing calls.
* Delays. A timer fires at any time after it was set, so intervals and backoffs cannot
  be too short or too long here.
* More than 256 retired request ids (`engine-supervisor.ts:783`) in a run: the engine
  answers each command it admits at its deadline and is replaced when it does not
  answer a ping, so that many are not expected; the runs keep `MaxRetired` above the
  number of commands, and `LinkHonestEngineTrusted` names the hypothesis.
* Archived bytes whose commit main never recorded (`runtime.ts:720`) stay on the disk;
  nothing reads them, so no property can tell.
* The user interface, menus, players, the folder watcher and the security checks of
  main: clients of the commands modelled here, or the operating system's edge.
