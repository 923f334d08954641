------------------------------- MODULE MediaLeases -------------------------------
(***************************************************************************)
(* The leases of the engine's loopback media proxy (engine/media-proxy.ts) *)
(* and the commands of engine/runtime.ts that open, renew and revoke them. *)
(* A lease is due once its time is over; nothing revokes it before the     *)
(* next operation looks.                                                   *)
(***************************************************************************)
EXTENDS Naturals, FiniteSets

CONSTANTS
    MediaTorrents,   \* the torrents that may be loaded
    Leases,          \* the leases that may ever be opened
    MaxLeases        \* MEDIA_PROXY_LIMITS.maxLeases

\* A lease that was never opened, and one that was revoked.
Unused == "unused"
Revoked == "revoked"

ASSUME MediaAssumption ==
    /\ MaxLeases \in Nat
    /\ {Unused, Revoked} \cap MediaTorrents = {}

VARIABLES
    proxy,       \* "down", "up" (#server is set), "closed"
    playable,    \* the torrents the manager has
    lease,       \* lease -> its torrent, while #leasesById has it
    leaseDue,    \* leases whose time is over
    named,       \* leases an answer has named (ghost)
    mediaCmd     \* the command in the lane

mediaVars == <<proxy, playable, lease, leaseDue, named, mediaCmd>>

NoMediaCmd == [kind |-> "idle"]

MediaTypeOK ==
    /\ proxy \in {"down", "up", "closed"}
    /\ playable \subseteq MediaTorrents
    /\ lease \in [Leases -> MediaTorrents \cup {Unused, Revoked}]
    /\ leaseDue \subseteq Leases /\ named \subseteq Leases
    /\ mediaCmd.kind \in {"idle", "audio", "subtitles", "leaving"}

MediaInit ==
    /\ proxy = "down" /\ playable = {}
    /\ lease = [l \in Leases |-> Unused] /\ leaseDue = {} /\ named = {}
    /\ mediaCmd = NoMediaCmd

Live == {l \in Leases : lease[l] \in MediaTorrents}

\* #expire(), which open(), heartbeat() and a request begin with.
LeftOver == [l \in Leases |-> IF l \in leaseDue /\ l \in Live THEN Revoked ELSE lease[l]]

Occupied == Live \ leaseDue

Full == Cardinality(Occupied) >= MaxLeases

\* open(), when it does not throw.
Opens(t, l) ==
    /\ proxy = "up" /\ ~Full
    /\ lease[l] = Unused
    /\ lease' = [LeftOver EXCEPT ![l] = t]

TakesMedia(command) ==
    /\ mediaCmd = NoMediaCmd /\ proxy = "up"
    /\ mediaCmd' = command

\* start(), once: the server listens before any command is taken.
ProxyStarts ==
    /\ proxy = "down" /\ proxy' = "up"
    /\ UNCHANGED <<playable, lease, leaseDue, named, mediaCmd>>

\* The manager adds a torrent.
Loads(t) ==
    /\ TakesMedia(NoMediaCmd)
    /\ playable' = playable \cup {t}
    /\ UNCHANGED <<proxy, lease, leaseDue, named>>

\* open-media, and the end of open-audio-metadata, whose artwork, if there is
\* any, has a lease.
OpenMedia(t) ==
    /\ \/ t \in playable /\ TakesMedia(NoMediaCmd)
       \/ mediaCmd = [kind |-> "audio", t |-> t] /\ mediaCmd' = NoMediaCmd
    /\ \/ \E l \in Leases : Opens(t, l) /\ named' = named \cup {l}
       \/ Full /\ lease' = LeftOver /\ UNCHANGED named
       \/ mediaCmd.kind = "audio" /\ UNCHANGED <<lease, named>>
    /\ UNCHANGED <<proxy, playable, leaseDue>>

\* open-audio-metadata reads a prefix of the file first, open-subtitles one file
\* after another.
OpenSlowly(t) ==
    /\ t \in playable
    /\ \/ TakesMedia([kind |-> "audio", t |-> t])
       \/ TakesMedia([kind |-> "subtitles", t |-> t, opened |-> {}])
    /\ UNCHANGED <<proxy, playable, lease, leaseDue, named>>

\* The catch of open-subtitles: close() of each.
ClosesOpened(opened) ==
    [l \in Leases |-> IF l \in opened THEN Revoked ELSE LeftOver[l]]

\* A file has been read and has a lease, or was the last; without room for another
\* lease the command fails.
SubtitleRead ==
    /\ mediaCmd.kind = "subtitles"
    /\ \/ \E l \in Leases :
            /\ Opens(mediaCmd.t, l)
            /\ mediaCmd' = [mediaCmd EXCEPT !.opened = @ \cup {l}]
            /\ UNCHANGED named
       \/ /\ Full
          /\ lease' = ClosesOpened(mediaCmd.opened)
          /\ mediaCmd' = NoMediaCmd /\ UNCHANGED named
       \/ /\ named' = named \cup mediaCmd.opened
          /\ mediaCmd' = NoMediaCmd /\ UNCHANGED lease
    /\ UNCHANGED <<proxy, playable, leaseDue>>

\* heartbeat-media, which comes too late for a lease that is due and starts the
\* time of any other again, and close-media.
TouchLease(l) ==
    /\ l \in named /\ TakesMedia(NoMediaCmd)
    /\ \/ lease' = LeftOver
       \/ lease' = IF l \in Live THEN [lease EXCEPT ![l] = Revoked] ELSE lease
    /\ UNCHANGED <<proxy, playable, leaseDue, named>>

\* #match: a request finds the lease of its token unless it is over.
Requested == proxy = "up" /\ lease' = LeftOver
             /\ UNCHANGED <<proxy, playable, leaseDue, named, mediaCmd>>

\* Mutant: only one of the torrent's leases is revoked.
RevokesOne(t) ==
    IF \E l \in Live : lease[l] = t
    THEN [lease EXCEPT ![CHOOSE l \in Live : lease[l] = t] = Revoked]
    ELSE lease

\* revokeTorrent()
RevokesAll(t) == [l \in Leases |-> IF lease[l] = t THEN Revoked ELSE lease[l]]

\* pause-torrent and remove-torrent revoke before they ask the manager.
Leaves(t) ==
    /\ t \in playable
    /\ TakesMedia([kind |-> "leaving", t |-> t])
    /\ lease' = RevokesAll(t)
    /\ UNCHANGED <<proxy, playable, leaseDue, named>>

\* The manager has removed the torrent; or it is paused, or the command failed.
Left ==
    /\ mediaCmd.kind = "leaving"
    /\ mediaCmd' = NoMediaCmd
    /\ playable' \in {playable, playable \ {mediaCmd.t}}
    /\ UNCHANGED <<proxy, lease, leaseDue, named>>

LeaseTimePasses ==
    /\ \E l \in Live \ leaseDue : leaseDue' = leaseDue \cup {l}
    /\ UNCHANGED <<proxy, playable, lease, named, mediaCmd>>

\* The engine's shutdown: the torrents are gone, then shutdown() revokes what is
\* left.  The lane is empty by then.
ProxyShutsDown ==
    /\ proxy # "closed" /\ proxy' = "closed"
    /\ mediaCmd = NoMediaCmd /\ playable' = {}
    /\ lease' = [l \in Leases |-> IF l \in Live THEN Revoked ELSE lease[l]]
    /\ UNCHANGED <<leaseDue, named, mediaCmd>>

MediaNext ==
    \/ \E t \in MediaTorrents : Loads(t) \/ OpenMedia(t) \/ OpenSlowly(t) \/ Leaves(t)
    \/ \E l \in Leases : TouchLease(l)
    \/ SubtitleRead \/ Left \/ Requested \/ LeaseTimePasses
    \/ ProxyStarts \/ ProxyShutsDown

-------------------------------------------------------------------------------

\* A lease belongs to a torrent the manager has, never outlives it or the proxy,
\* and is known to whoever could close it: an answer has named it, or its command
\* still may.  There are never more than the limit.
LeasesOwned ==
    /\ \A l \in Live : lease[l] \in playable
    /\ \A l \in Live :
         \/ l \in named
         \/ mediaCmd.kind = "subtitles" /\ l \in mediaCmd.opened
    /\ Cardinality(Live) <= MaxLeases
    /\ proxy = "closed" => Live = {}

===============================================================================
