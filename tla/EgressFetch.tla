------------------------------ MODULE EgressFetch ------------------------------
(* One bounded HTTP fetch of the engine (src/engine/network-policy.ts) and the  *)
(* tracker announce that waits for one (src/engine/tracker-http.ts): a hop      *)
(* resolves the host, connects to the one address it approved, reads the        *)
(* response and closes its dispatcher, and a redirect starts the next hop.  The *)
(* caller may abort, and the deadline may pass, at any point between.  A URL is *)
(* a scheme and a host; a host is a name or an address written out.  The codes  *)
(* no caller tells apart are one, REFUSED.                                      *)
EXTENDS AddressPolicy, FiniteSets

CONSTANTS
    Fetches,
    FetchUrls,      \* what a caller asks for and a response redirects to:
                    \* records of scheme, host and sound (parseNetworkUrl passes)
    Literals,       \* the hosts that are IPv4 addresses, with the address
    Ipv6Literals,   \* the hosts that are IPv6 addresses
    LocalNames,     \* the hosts isLocalHostname knows
    DnsAnswers,     \* what a lookup may say: sequences of IPv4 addresses
    AllowPrivate,   \* allowPrivateNetwork
    MaxDnsAnswers,  \* MAX_DNS_ANSWERS
    MaxRedirects,   \* maxRedirects of both profiles
    MaxBytes,       \* maxResponseBytes
    ChunkSizes,     \* the bytes one chunk may hold
    MaxRemote,      \* remote-torrent fetches at a time: 2 in the code
    GateMaximum     \* tracker announces at a time: 8 in the code

ASSUME FetchAssumption ==
    /\ IsFiniteSet(Fetches) /\ FetchUrls # {}
    /\ \A host \in DOMAIN Literals : Literals[host] \in Seq(Nat)
    /\ DnsAnswers \subseteq Seq(Seq(Nat))
    /\ AllowPrivate \in BOOLEAN
    /\ {MaxRedirects, MaxBytes, MaxRemote, GateMaximum} \subseteq Nat
    /\ ChunkSizes \subseteq Nat

VARIABLES
    fetch,        \* the fetches
    remoteActive, \* #activeRemoteTorrentFetches
    gateActive    \* TrackerHttpRequestGate's #active

fetchVars == <<fetch, remoteActive, gateActive>>

FetchStages == {"idle", "resolving", "requesting", "body", "closing", "done"}

\* A fetch before it begins.  kind is its profile, call what its caller was
\* told, hop what the running hop came to, and answer the addresses the running
\* hop's host stood for.
Idle(kind) ==
    [kind |-> kind, stage |-> "idle", url |-> CHOOSE u \in FetchUrls : TRUE,
     http |-> FALSE, redirects |-> 0, answer |-> <<>>, address |-> <<>>,
     bytes |-> 0, hop |-> "none", aborted |-> FALSE, late |-> FALSE,
     call |-> "none", secure |-> FALSE]

FetchInit ==
    /\ fetch \in {[f \in Fetches |-> Idle(k[f])] :
                     k \in [Fetches -> {"remote-torrent", "tracker-http"}]}
    /\ remoteActive = 0
    /\ gateActive = 0

Is(f, kind) == fetch[f].kind = kind

\* Whether the profile may fetch this URL.
UrlAllowed(f, url, http) ==
    url.sound /\ url.scheme \in {"https"} \cup (IF http THEN {"http"} ELSE {})

\* The code a caller's own abort answers with.
AbortCode(f) == IF Is(f, "tracker-http") THEN "ABORTED" ELSE "REQUEST_FAILED"

\* mapEgressPolicyError: what an announce tells of a failed fetch.
Told(f, code) ==
    IF ~Is(f, "tracker-http") THEN code
    ELSE CASE code \in {"ABORTED", "BODY_TOO_LARGE", "OK"} -> code
           [] code = "REQUEST_TIMEOUT" -> "TIMEOUT"
           [] OTHER -> "NETWORK_FAILED"

\* The slot is free again and the caller, if it still waits, is told.
Settle(f, code) ==
    /\ fetch' = [fetch EXCEPT
          ![f] = [Idle(@.kind) EXCEPT
                    !.stage = "done", !.aborted = fetch[f].aborted, !.late = fetch[f].late,
                    !.call = IF fetch[f].call = "waiting" THEN Told(f, code)
                                                          ELSE fetch[f].call]]
    /\ remoteActive' = remoteActive - (IF Is(f, "remote-torrent") THEN 1 ELSE 0)
    /\ gateActive' = gateActive - (IF Is(f, "tracker-http") THEN 1 ELSE 0)

\* The hop ended: its dispatcher is destroyed before anything else happens.
EndHop(f, hop) ==
    /\ fetch' = [fetch EXCEPT ![f].stage = "closing", ![f].hop = hop,
                              ![f].bytes = 0, ![f].answer = <<>>, ![f].address = <<>>]
    /\ UNCHANGED <<remoteActive, gateActive>>

NoSlot(f) ==
    IF Is(f, "remote-torrent") THEN remoteActive >= MaxRemote
                               ELSE gateActive >= GateMaximum

\* fetchRemoteTorrentBytes or announce: a slot, then the URL is validated.
Fetch(f, url, http) ==
    /\ fetch[f].stage = "idle"
    /\ IF NoSlot(f) \/ ~UrlAllowed(f, url, http)
       THEN /\ fetch' = [fetch EXCEPT
                  ![f].stage = "done",
                  ![f].call = IF NoSlot(f) THEN "CONCURRENCY_LIMIT" ELSE "INVALID"]
            /\ UNCHANGED <<remoteActive, gateActive>>
       ELSE /\ fetch' = [fetch EXCEPT ![f].stage = "resolving", ![f].url = url,
                            ![f].http = http, ![f].call = "waiting",
                            ![f].secure = url.scheme = "https"]
            /\ remoteActive' = remoteActive + (IF Is(f, "remote-torrent") THEN 1 ELSE 0)
            /\ gateActive' = gateActive + (IF Is(f, "tracker-http") THEN 1 ELSE 0)

Allowed(address) == AddressAllowed(address, AllowPrivate, FALSE)

\* Mutant: only the address that will be used is checked.
ApproveFirst(f, answer) ==
    IF Len(answer) \in 1..MaxDnsAnswers /\ Allowed(answer[1])
    THEN /\ fetch' = [fetch EXCEPT ![f].stage = "requesting", ![f].answer = answer,
                                   ![f].address = answer[1], ![f].bytes = 0]
         /\ UNCHANGED <<remoteActive, gateActive>>
    ELSE Settle(f, "REFUSED")

\* The hop's address, when every address its host stands for is allowed.
Approve(f, answer) ==
    IF /\ Len(answer) \in 1..MaxDnsAnswers
       /\ \A i \in 1..Len(answer) : Allowed(answer[i])
    THEN /\ fetch' = [fetch EXCEPT ![f].stage = "requesting", ![f].answer = answer,
                                   ![f].address = answer[1], ![f].bytes = 0]
         /\ UNCHANGED <<remoteActive, gateActive>>
    ELSE Settle(f, "REFUSED")

\* #approvedAddress up to the answer: refusals that need no lookup, a host that
\* is an address, or what DNS says this time.
Resolve(f) ==
    LET host == fetch[f].url.host
    IN  /\ fetch[f].stage = "resolving"
        /\ ~fetch[f].aborted /\ ~fetch[f].late
        /\ IF (host \in LocalNames /\ ~AllowPrivate) \/ host \in Ipv6Literals
           THEN Settle(f, "REFUSED")
           ELSE IF host \in DOMAIN Literals
           THEN Approve(f, <<Literals[host]>>)
           ELSE \/ \E answer \in DnsAnswers : Approve(f, answer)
                \/ Settle(f, "REFUSED")

\* A fetch whose caller left or whose time is up goes no further: before the
\* connection at once, with one open after its dispatcher is destroyed.
Stop(f) ==
    LET code == IF fetch[f].aborted THEN AbortCode(f) ELSE "REQUEST_TIMEOUT"
    IN  /\ fetch[f].aborted \/ fetch[f].late
        /\ \/ fetch[f].stage = "resolving" /\ Settle(f, code)
           \/ fetch[f].stage \in {"requesting", "body"} /\ EndHop(f, code)

\* The response's head arrives: over a socket to another address the hop fails.
Respond(f) ==
    /\ fetch[f].stage = "requesting"
    /\ ~fetch[f].aborted /\ ~fetch[f].late
    /\ \/ \* The socket is connected elsewhere, the status is neither 200 nor a
          \* redirect with a place to go, the body is encoded or its length is no
          \* number.
          EndHop(f, "REFUSED")
       \/ \* The length it announces is more than the limit.
          EndHop(f, "BODY_TOO_LARGE")
       \/ EndHop(f, "redirect")
       \/ /\ fetch' = [fetch EXCEPT ![f].stage = "body"]
          /\ UNCHANGED <<remoteActive, gateActive>>

\* A chunk of the body, or its end.
ReadBody(f) ==
    /\ fetch[f].stage = "body"
    /\ ~fetch[f].aborted /\ ~fetch[f].late
    /\ \/ \E n \in ChunkSizes :
             IF fetch[f].bytes + n > MaxBytes THEN EndHop(f, "BODY_TOO_LARGE")
             ELSE /\ fetch' = [fetch EXCEPT ![f].bytes = @ + n]
                  /\ UNCHANGED <<remoteActive, gateActive>>
       \/ EndHop(f, "success")
       \/ EndHop(f, "REFUSED")

\* #validateRedirect: never from https to http, and allowed like the first URL.
Redirects(f, url) ==
    /\ fetch[f].redirects < MaxRedirects
    /\ ~(fetch[f].url.scheme = "https" /\ url.scheme = "http")
    /\ UrlAllowed(f, url, fetch[f].http)

\* The dispatcher is destroyed: the next hop, or the end of the fetch.  What
\* happened meanwhile is looked at again.
Closed(f) ==
    LET hop == fetch[f].hop
    IN  /\ fetch[f].stage = "closing"
        /\ \/ /\ hop = "redirect"
              /\ \E url \in FetchUrls :
                    IF Redirects(f, url)
                    THEN /\ fetch' = [fetch EXCEPT
                               ![f].stage = "resolving", ![f].url = url,
                               ![f].redirects = @ + 1, ![f].hop = "none",
                               ![f].address = <<>>, ![f].answer = <<>>]
                         /\ UNCHANGED <<remoteActive, gateActive>>
                    ELSE Settle(f, "REFUSED")
           \/ /\ hop = "success"
              /\ Settle(f, IF fetch[f].aborted THEN AbortCode(f)
                           ELSE IF fetch[f].late THEN "REQUEST_TIMEOUT" ELSE "OK")
           \/ /\ hop \notin {"redirect", "success"}
              /\ Settle(f, hop)

Running(f) == fetch[f].stage \notin {"idle", "done"}

\* The caller aborts, or an announce's own deadline does: an announce is answered
\* at once, whatever the fetch below it still has to close.
Abort(f, code) ==
    /\ Running(f) /\ ~fetch[f].aborted
    /\ code = "TIMEOUT" => Is(f, "tracker-http")
    /\ fetch' = [fetch EXCEPT
          ![f].aborted = TRUE,
          ![f].call = IF @ = "waiting" /\ Is(f, "tracker-http") THEN code ELSE @]
    /\ UNCHANGED <<remoteActive, gateActive>>

\* The fetch's deadline passes.
DeadlinePasses(f) ==
    /\ Running(f) /\ ~fetch[f].late
    /\ fetch' = [fetch EXCEPT ![f].late = TRUE]
    /\ UNCHANGED <<remoteActive, gateActive>>

FetchNext ==
    \E f \in Fetches :
        \/ \E url \in FetchUrls, http \in BOOLEAN : Fetch(f, url, http)
        \/ Resolve(f)
        \/ Respond(f)
        \/ ReadBody(f)
        \/ Closed(f)
        \/ Stop(f)
        \/ \E code \in {"ABORTED", "TIMEOUT"} : Abort(f, code)
        \/ DeadlinePasses(f)

(* ------------------------------- properties --------------------------------- *)

FetchTypeOK ==
    /\ remoteActive \in 0..Cardinality(Fetches)
    /\ gateActive \in 0..Cardinality(Fetches)
    /\ \A f \in Fetches :
          /\ fetch[f].stage \in FetchStages
          /\ fetch[f].url \in FetchUrls
          /\ fetch[f].redirects \in 0..MaxRedirects
          /\ fetch[f].bytes \in 0..MaxBytes

\* Every connection a fetch makes, the first and those after redirects, is to an
\* address of a host none of whose addresses is off limits, and a fetch that
\* began over https never continues in the clear.
FetchStaysAllowed ==
    \A f \in Fetches :
        /\ fetch[f].stage \in {"requesting", "body"} =>
              /\ \A i \in 1..Len(fetch[f].answer) :
                    SpecialPurpose(fetch[f].answer[i]) =>
                        AllowPrivate /\ PrivateUse(fetch[f].answer[i])
              /\ \E i \in 1..Len(fetch[f].answer) :
                    fetch[f].answer[i] = fetch[f].address
        /\ Running(f) /\ fetch[f].secure => fetch[f].url.scheme = "https"

\* A slot is taken as long as a fetch may still hold a connection, even when
\* its caller was answered long ago, and no longer; and a caller that left, or
\* whose time was up, is never handed a body.
SlotsFollowConnections ==
    /\ remoteActive = Cardinality({f \in Fetches : Running(f) /\ Is(f, "remote-torrent")})
    /\ gateActive = Cardinality({f \in Fetches : Running(f) /\ Is(f, "tracker-http")})
    /\ remoteActive <= MaxRemote
    /\ gateActive <= GateMaximum
    /\ \A f \in Fetches :
          fetch[f].aborted \/ fetch[f].late => fetch[f].call # "OK"

===============================================================================
