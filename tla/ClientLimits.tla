----------------------------- MODULE ClientLimits -----------------------------
(***************************************************************************)
(* The API's limit on each client: which client a request is counted for,  *)
(* behind the proxies in front of the API (http/clientIp.ts), and the      *)
(* token bucket it takes from (http/rateLimit.ts).                         *)
(*                                                                         *)
(* Tokens are counted in parts of 1/Unit; the clock may be set back.       *)
(***************************************************************************)
EXTENDS Integers, Sequences, FiniteSets, SequencesExt

CONSTANTS
    Clients,        \* each with the addresses of a network, from which it may pick any
    Hosts,
    IpSource,       \* CLIENT_IP, which says how the API is deployed
    Unit, Rate,     \* a token; what is added per tick
    Burst,          \* burst, in tokens
    MaxKeys,        \* maxKeys
    Second,         \* ticks in a second
    Claims,         \* what a client may claim in the headers
    MaxTime, MaxSetBacks    \* bounds: the clock, how often it is set back

Sources == {"socket", "cloudflare", "heroku-cloudflare"}
LimitsAssumption ==
    /\ IpSource \in Sources
    /\ Clients \cap {"none", "cloudflare"} = {}
    /\ {Unit, Rate, Burst, MaxKeys, Second} \subseteq Nat \ {0}

VARIABLES
    now, setBacks,
    buckets,        \* the Map: [key, tokens, at], the least recently used first
    since,          \* history: who else has asked since each client's last request
    granted,        \* history: when each client's requests were allowed, while fewer than
                    \* MaxKeys others have asked since
    comeBack        \* history: the time each client was last told to come back at; -1 if allowed

vars == <<now, setBacks, buckets, since, granted, comeBack>>

Address(net, host) == [net |-> net, host |-> host]
NoHeader == Address("none", "none")
Edge == Address("cloudflare", "edge")
Router == Address("heroku", "router")

-----------------------------------------------------------------------------
(* The client of a request.                                                *)

\* What reaches the API of a request sent from an address, itself claiming others in its
\* headers: through Cloudflare, which says whom it was reached by, or past it.
Arrivals(from, claim) ==
    LET hops == [through |-> Edge, past |-> from]
    IN  {[socketIp |-> IF IpSource = "heroku-cloudflare" THEN Router ELSE hops[way],
          forwardedFor |-> IF IpSource = "heroku-cloudflare" THEN <<claim, hops[way]>> ELSE <<claim>>,
          connectingIp |-> IF way = "through" THEN from ELSE claim] :
            way \in IF IpSource = "socket" THEN {"past"} ELSE {"through", "past"}}

inRanges(hop) == hop = Edge
lastForwardedHop(forwardedFor) == Last(forwardedFor)
Hop(request) ==
    IF IpSource = "heroku-cloudflare" THEN lastForwardedHop(request.forwardedFor) ELSE request.socketIp
BelievedAlways(request) == request.connectingIp # NoHeader
Believed(request) ==
    /\ IpSource # "socket"
    /\ request.connectingIp # NoHeader
    /\ inRanges(Hop(request))
resolveClientIp(request) == IF Believed(request) THEN request.connectingIp ELSE Hop(request)
\* By the /64 of an address.
clientKeyOfHost(address) == address
clientKey(address) == address.net

-----------------------------------------------------------------------------
(* The bucket.                                                             *)

Lower(m, n) == IF m <= n THEN m ELSE n
FilledPastBurst(bucket) == bucket.tokens + (now - bucket.at) * Rate
Filled(bucket) == Lower(Burst * Unit, bucket.tokens + (now - bucket.at) * Rate)
IndexOf(key) == {i \in DOMAIN buckets : buckets[i].key = key}
EvictedNewest(bs) == IF Len(bs) >= MaxKeys THEN Front(bs) ELSE bs
Evicted(bs) == IF Len(bs) >= MaxKeys THEN Tail(bs) ELSE bs
Without(i) == RemoveAt(buckets, i)

\* take(key), up to the bucket it takes from, which becomes the most recently used.
Looked(key) ==
    IF IndexOf(key) = {}
    THEN Append(Evicted(buckets), [key |-> key, tokens |-> Burst * Unit, at |-> now])
    ELSE LET i == CHOOSE j \in IndexOf(key) : TRUE
         IN  Append(Without(i), [key |-> key, tokens |-> Filled(buckets[i]), at |-> now])

CeilDiv(m, n) == (m + n - 1) \div n
retryAfterFloored(tokens) ==
    LET seconds == (Unit - tokens) \div (Rate * Second) IN IF seconds < 1 THEN 1 ELSE seconds
retryAfterSeconds(tokens) ==
    LET seconds == CeilDiv(Unit - tokens, Rate * Second) IN IF seconds < 1 THEN 1 ELSE seconds

\* A client's request, counted under a key: allowed, or refused with Retry-After.
Take(client, key) ==
    LET looked == Looked(key)
        bucket == Last(looked)
        allowed == bucket.tokens >= Unit
    IN  /\ buckets' = Front(looked) \o <<IF allowed THEN [bucket EXCEPT !.tokens = @ - Unit] ELSE bucket>>
        /\ since' = [c \in Clients |-> IF c = client THEN {} ELSE since[c] \cup {client}]
        /\ granted' = [c \in Clients |->
                          IF c = client /\ allowed THEN Append(granted[c], now)
                          ELSE IF Cardinality(since'[c]) < MaxKeys THEN granted[c] ELSE <<>>]
        /\ comeBack' = [c \in Clients |->
                          IF c # client THEN comeBack[c]
                          ELSE IF allowed THEN -1
                          ELSE now + Second * retryAfterSeconds(bucket.tokens)]
        /\ UNCHANGED <<now, setBacks>>

Init ==
    /\ now = 0 /\ setBacks = 0
    /\ buckets = <<>>
    /\ since = [c \in Clients |-> {}]
    /\ granted = [c \in Clients |-> <<>>]
    /\ comeBack = [c \in Clients |-> -1]

\* clientRateLimit: the keys a client's requests are counted under.
KeysOf(client) ==
    {clientKey(resolveClientIp(request)) :
        request \in UNION {Arrivals(Address(client, host), claim) : host \in Hosts, claim \in Claims}}

Ask ==
    \E client \in Clients :
        \E key \in KeysOf(client) : Take(client, key)

Tick ==
    /\ now < MaxTime
    /\ now' = now + 1
    /\ UNCHANGED <<setBacks, buckets, since, granted, comeBack>>

SetBack ==
    /\ setBacks < MaxSetBacks
    /\ setBacks' = setBacks + 1
    /\ now' \in 0..(now - 1)
    /\ UNCHANGED <<buckets, since, granted, comeBack>>

Next == Ask \/ Tick \/ SetBack

Spec == Init /\ [][Next]_vars

-----------------------------------------------------------------------------
\* Whether one more request, now, is more than the burst and the rate give a client since any
\* of its requests that were allowed.
Over(c) ==
    \E i \in DOMAIN granted[c] :
        (Len(granted[c]) - i + 2) * Unit > Burst * Unit + (now - granted[c][i]) * Rate

\* "tokens are added per minute up to burst", one bucket per client (rateLimit.ts:4,
\* clientRateLimit.ts:25): a client has exactly what the burst and the rate give it, whichever
\* of its addresses it asks from, whatever it or others claim in their headers, however many
\* others ask (fewer than maxKeys of them since), and however the clock is set. Retry-After is
\* the truth: a client that was refused, and did not ask before then, is allowed. (Of a step.)
ExactlyItsRate ==
    \A c \in Clients :
        /\ Len(granted'[c]) > Len(granted[c]) => ~Over(c)
        /\ comeBack'[c] > comeBack[c] => Over(c)
        /\ comeBack[c] >= 0 /\ now >= comeBack[c] => comeBack'[c] \in {comeBack[c], -1}
=============================================================================
