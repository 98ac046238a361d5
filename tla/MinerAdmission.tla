---------------------------- MODULE MinerAdmission ----------------------------
(***************************************************************************)
(* What a request meets between the miner's socket and `forward`: the ASGI *)
(* middleware (source-IP token bucket, declared length, bounded body), the *)
(* caller allowlist, and the cohort verifier around the SDK's              *)
(* default_verify (policy, freshness, hotkey token bucket, replay cache).  *)
(*                                                                         *)
(* All of it runs on one event loop, so a handler is interrupted only at   *)
(* its awaits: `receive` and default_verify.  The network may delay, drop  *)
(* or repeat a request, and alter the copies it delivers: the headers that *)
(* the signature does not cover, or what it covers.  Time is counted in    *)
(* whole ticks; tokens are counted in units, Cost of them to a token, so   *)
(* that rates below one token per tick are whole numbers.                  *)
(***************************************************************************)
EXTENDS Integers, FiniteSets

CONSTANTS
  Conn,          \* connections the axon handles at a time
  IP,            \* source addresses
  Hotkey,        \* validator hotkeys that sign requests
  Allowed,       \* --validator-hotkey
  Uuid,          \* dendrite uuids
  Skew,          \* each hotkey's clock offset from the miner's
  Policies,      \* may a delivered request have headers outside the policy
  Paced, Pace,   \* hotkeys that leave at least Pace ticks between requests
  Sizes,         \* body sizes a client may send
  Declarations,  \* Content-Length values a client may declare
  NoLength, BadLength,   \* ... absent, or not a number
  MaxBytes,      \* MAX_REQUEST_BODY_BYTES
  MaxAge, MaxSkew,       \* MAX_REQUEST_AGE_NS, MAX_REQUEST_FUTURE_SKEW_NS
  Cost,          \* units in one token
  HttpBurst, HttpRate,   \* burst in tokens, rate in units per tick
  AuthBurst, AuthRate,
  MaxTime, MaxRequests   \* bounds: ticks, requests signed

ASSUME AdmissionAssumption ==
  /\ Allowed \subseteq Hotkey
  /\ Skew \in [Hotkey -> Int]
  /\ Policies \subseteq BOOLEAN
  /\ Paced \subseteq Hotkey /\ Pace \in Nat
  /\ Sizes \subseteq Nat
  /\ Declarations \subseteq Nat \cup {NoLength, BadLength}
  /\ NoLength \notin Nat /\ BadLength \notin Nat
  /\ {MaxBytes, MaxAge, MaxSkew, MaxTime, MaxRequests} \subseteq Nat
  /\ {Cost, HttpBurst, HttpRate, AuthBurst, AuthRate} \subseteq Nat \ {0}

Identity == [hotkey : Hotkey, uuid : Uuid, nonce : Int]

\* A request: its identity, whether its headers satisfy the fixed policy on
\* metadata, version and timeout, and whether its signature, which covers the
\* identity and the body, is one for what it says.
Request == [id : Identity, policy : BOOLEAN, genuine : BOOLEAN]

VARIABLES
  now,        \* the miner's clock
  signed,     \* requests that validators have signed and sent
  pc,         \* where each connection is
  req,        \* ... the request it carries
  size, got,  \* ... its body and how much of it has been read
  httpBucket, \* RequestAdmissionMiddleware.limiter
  authBucket, \* limiter of build_request_verifier
  accepted,   \* the replay cache: records [id, at]
  sdkSeen,    \* external: the requests in the SDK's nonce cache
  served,     \* the requests handed to `forward`, as they were delivered
  passed, admitted,   \* history: requests each limiter let through
  log,        \* history: every entry ever made in `accepted`
  refused     \* history: hotkeys refused by the hotkey bucket

connVars == <<pc, req, size, got>>
history == <<passed, admitted, log, refused>>
admVars == <<now, signed, connVars, httpBucket, authBucket, accepted, sdkSeen,
             served, history>>

NoRequest == [id |-> 0]

Bucket(burst) == [tokens : 0 .. burst * Cost, at : Nat]

\* Every variable stays in its domain; a bucket never holds more than its burst.
AdmTypeOK ==
  /\ now \in 0..MaxTime
  /\ signed \subseteq Request
  /\ pc \in [Conn -> {"idle", "reading", "parsed", "awaiting", "verified"}]
  /\ req \in [Conn -> Request \cup {NoRequest}]
  /\ size \in [Conn -> Nat] /\ got \in [Conn -> Nat]
  /\ httpBucket \in [IP -> Bucket(HttpBurst)]
  /\ authBucket \in [Hotkey -> Bucket(AuthBurst)]
  /\ accepted \subseteq [id : Identity, at : Nat]
  /\ sdkSeen \subseteq Identity
  /\ served \subseteq Request
  /\ passed \in [IP -> Nat] /\ admitted \in [Hotkey -> Nat]
  /\ log \subseteq [id : Identity, at : Nat]
  /\ refused \subseteq Hotkey

\* A key without a bucket gets a full one, which is what a bucket full from
\* the start refills to.
AdmInit ==
  /\ now = 0
  /\ signed = {}
  /\ pc = [c \in Conn |-> "idle"]
  /\ req = [c \in Conn |-> NoRequest]
  /\ size = [c \in Conn |-> 0] /\ got = [c \in Conn |-> 0]
  /\ httpBucket = [k \in IP |-> [tokens |-> HttpBurst * Cost, at |-> 0]]
  /\ authBucket = [k \in Hotkey |-> [tokens |-> AuthBurst * Cost, at |-> 0]]
  /\ accepted = {} /\ sdkSeen = {} /\ served = {}
  /\ passed = [k \in IP |-> 0] /\ admitted = [k \in Hotkey |-> 0]
  /\ log = {} /\ refused = {}

-----------------------------------------------------------------------------
\* TokenBucketLimiter.allow

Later(t) == IF now > t THEN now - t ELSE 0

\* What a bucket holds now: refilled, and never above its burst.
Filled(b, burst, rate) ==
  LET tokens == b.tokens + rate * Later(b.at)
  IN  IF tokens < burst * Cost THEN tokens ELSE burst * Cost

Allows(b, burst, rate) == Filled(b, burst, rate) >= Cost

\* mutant: updated_at keeps its first value.
ChargedStale(b, burst, rate) ==
  [tokens |-> IF Allows(b, burst, rate) THEN Filled(b, burst, rate) - Cost
                                        ELSE Filled(b, burst, rate),
   at |-> b.at]

\* The bucket that allow stores, whether or not it allows the request.
Charged(b, burst, rate) ==
  LET tokens == Filled(b, burst, rate)
  IN  [tokens |-> IF tokens >= Cost THEN tokens - Cost ELSE tokens, at |-> now]

-----------------------------------------------------------------------------
\* The clients and the network

AdvanceClock ==
  /\ now < MaxTime
  /\ now' = now + 1
  /\ UNCHANGED <<signed, connVars, httpBucket, authBucket, accepted, sdkSeen,
                 served, history>>

\* External: a validator signs a request with its own clock as the nonce; the
\* headers of the policy are not signed, and Connect picks them.  A hotkey in
\* Paced leaves Pace ticks between two requests.
Sign(h, u) ==
  LET id == [hotkey |-> h, uuid |-> u, nonce |-> now + Skew[h]]
  IN  /\ Cardinality(signed) < MaxRequests
      /\ \A r \in signed : r.id # id
      /\ h \in Paced => \A r \in signed : r.id.hotkey = h => id.nonce >= r.id.nonce + Pace
      /\ signed' = signed \cup {[id |-> id, policy |-> TRUE, genuine |-> TRUE]}
      /\ UNCHANGED <<now, connVars, httpBucket, authBucket, accepted, sdkSeen,
                     served, history>>

Idle(c) ==
  /\ pc' = [pc EXCEPT ![c] = "idle"]
  /\ req' = [req EXCEPT ![c] = NoRequest]
  /\ size' = [size EXCEPT ![c] = 0] /\ got' = [got EXCEPT ![c] = 0]

-----------------------------------------------------------------------------
\* RequestAdmissionMiddleware.__call__

\* 429, 400 and 413 before any of the body is read.
HeadersAdmit(b, declared) ==
  /\ Allows(b, HttpBurst, HttpRate)
  /\ declared # BadLength
  /\ declared # NoLength => declared <= MaxBytes

\* A copy of a sent request arrives from address k, altered or not.
Connect(c, k, r, policy, genuine, declared, n) ==
  /\ pc[c] = "idle"
  /\ httpBucket' = [httpBucket EXCEPT ![k] = Charged(@, HttpBurst, HttpRate)]
  /\ passed' = [passed EXCEPT ![k] = IF Allows(httpBucket[k], HttpBurst, HttpRate)
                                     THEN @ + 1 ELSE @]
  /\ \/ /\ HeadersAdmit(httpBucket[k], declared)
        /\ pc' = [pc EXCEPT ![c] = "reading"]
        /\ req' = [req EXCEPT ![c] = [r EXCEPT !.policy = policy,
                                                 !.genuine = @ /\ genuine]]
        /\ size' = [size EXCEPT ![c] = n]
        /\ UNCHANGED got
     \/ ~HeadersAdmit(httpBucket[k], declared) /\ UNCHANGED connVars
  /\ UNCHANGED <<now, signed, authBucket, accepted, sdkSeen, served, admitted, log, refused>>

\* mutant: the cap is applied to each chunk and not to the body.
ChunkCapped(c, chunk) ==
  /\ pc[c] = "reading"
  /\ got[c] + chunk <= size[c]
  /\ chunk = 0 => got[c] = size[c]
  /\ chunk <= MaxBytes
  /\ got' = [got EXCEPT ![c] = @ + chunk]
  /\ pc' = [pc EXCEPT ![c] = IF got[c] + chunk = size[c] THEN "parsed" ELSE "reading"]
  /\ UNCHANGED <<req, size, now, signed, httpBucket, authBucket, accepted, sdkSeen,
                 served, history>>

\* One http.request message; the last one has more_body false.
ReceiveChunk(c, chunk) ==
  LET total == got[c] + chunk
  IN  /\ pc[c] = "reading"
      /\ total <= size[c]
      /\ chunk = 0 => total = size[c]
      /\ \/ total > MaxBytes /\ Idle(c)
         \/ /\ total <= MaxBytes
            /\ got' = [got EXCEPT ![c] = total]
            /\ pc' = [pc EXCEPT ![c] = IF total = size[c] THEN "parsed" ELSE "reading"]
            /\ UNCHANGED <<req, size>>
      /\ UNCHANGED <<now, signed, httpBucket, authBucket, accepted, sdkSeen, served, history>>

\* http.disconnect while the body is being read.
Disconnect(c) ==
  /\ pc[c] = "reading"
  /\ Idle(c)
  /\ UNCHANGED <<now, signed, httpBucket, authBucket, accepted, sdkSeen, served, history>>

-----------------------------------------------------------------------------
\* validator_blacklist, which the SDK calls first, then verify of
\* build_request_verifier

Authorized(r) == r.id.hotkey \in Allowed

Age(id) == now - id.nonce

\* A nonce within the fixed window.
Fresh(id) == Age(id) <= MaxAge /\ Age(id) >= -MaxSkew

\* What needs no signature: the caller, metadata, version, timeout, freshness.
Passes(r) == Authorized(r) /\ r.policy /\ Fresh(r.id)

\* mutant: the hotkey's bucket is charged before the signature is checked.
ChargeUnverified(c) ==
  /\ pc[c] = "parsed"
  /\ Passes(req[c])
  /\ pc' = [pc EXCEPT ![c] = "awaiting"]
  /\ authBucket' = [authBucket EXCEPT ![req[c].id.hotkey] = Charged(@, AuthBurst, AuthRate)]
  /\ UNCHANGED <<req, size, got, now, signed, httpBucket, accepted, sdkSeen, served, history>>

\* The allowlist, then verify up to its await.
VerifyPolicy(c) ==
  /\ pc[c] = "parsed"
  /\ \/ /\ Passes(req[c])
        /\ pc' = [pc EXCEPT ![c] = "awaiting"]
        /\ UNCHANGED <<req, size, got>>
     \/ ~Passes(req[c]) /\ Idle(c)
  /\ UNCHANGED <<now, signed, httpBucket, authBucket, accepted, sdkSeen, served, history>>

\* mutants: no nonce cache; no signature check.
SignatureOnly(r) == r.genuine
NonceOnly(r) ==
  \A i \in sdkSeen : i.hotkey = r.id.hotkey /\ i.uuid = r.id.uuid => i.nonce < r.id.nonce

\* External: what default_verify accepts, a genuine signature and a nonce
\* above every earlier one of that hotkey and uuid.
SdkAccepts(r) ==
  /\ r.genuine
  /\ \A i \in sdkSeen : i.hotkey = r.id.hotkey /\ i.uuid = r.id.uuid => i.nonce < r.id.nonce

\* default_verify raises, as it must for what SdkAccepts excludes and as it
\* may for reasons of its own.
SdkRejects(c) ==
  /\ pc[c] = "awaiting"
  /\ Idle(c)
  /\ UNCHANGED <<now, signed, httpBucket, authBucket, accepted, sdkSeen, served, history>>

\* mutants: an entry is evicted one tick early; no entry is evicted.
EvictEarly == {e \in accepted : ~(e.at <= now - MaxAge)}
EvictNothing == accepted

\* The entries of the replay cache that survive the eviction.
Retained == {e \in accepted : ~(e.at < now - MaxAge)}

Replayed(id) == \E e \in Retained : e.id = id

\* default_verify returned: the hotkey's bucket, then the replay cache.
VerifyAdmit(c) ==
  LET id == req[c].id
      h == id.hotkey
      allow == Allows(authBucket[h], AuthBurst, AuthRate)
  IN  /\ pc[c] = "awaiting"
      /\ SdkAccepts(req[c])
      /\ sdkSeen' = sdkSeen \cup {id}
      /\ authBucket' = [authBucket EXCEPT ![h] = Charged(@, AuthBurst, AuthRate)]
      /\ \/ /\ ~allow
            /\ refused' = refused \cup {h}
            /\ Idle(c)
            /\ UNCHANGED <<accepted, log, admitted>>
         \/ /\ allow
            /\ admitted' = [admitted EXCEPT ![h] = @ + 1]
            /\ \/ /\ Replayed(id)
                  /\ accepted' = Retained
                  /\ Idle(c)
                  /\ UNCHANGED log
               \/ /\ ~Replayed(id)
                  /\ accepted' = Retained \cup {[id |-> id, at |-> now]}
                  /\ log' = log \cup {[id |-> id, at |-> now]}
                  /\ pc' = [pc EXCEPT ![c] = "verified"]
                  /\ UNCHANGED <<req, size, got>>
            /\ UNCHANGED refused
      /\ UNCHANGED <<now, signed, httpBucket, served, passed>>

\* attach: what verify lets through reaches forward.
Forward(c) ==
  /\ pc[c] = "verified"
  /\ served' = served \cup {req[c]}
  /\ Idle(c)
  /\ UNCHANGED <<now, signed, httpBucket, authBucket, accepted, sdkSeen, history>>

Handle(c) ==
  \/ \E k \in IP, r \in signed, policy \in Policies, genuine \in BOOLEAN,
        d \in Declarations, n \in Sizes : Connect(c, k, r, policy, genuine, d, n)
  \/ \E chunk \in 0 .. size[c] : ReceiveChunk(c, chunk)
  \/ Disconnect(c)
  \/ VerifyPolicy(c)
  \/ SdkRejects(c)
  \/ VerifyAdmit(c)
  \/ Forward(c)

AdmNext ==
  \/ AdvanceClock
  \/ \E h \in Hotkey, u \in Uuid : Sign(h, u)
  \/ \E c \in Conn : Handle(c)

AdmSpec == AdmInit /\ [][AdmNext]_admVars

-----------------------------------------------------------------------------
\* Properties

\* However requests bunch and however long a key was idle, a bucket lets no
\* more through than its burst and what its rate has granted since the start:
\* the limits of allow hold over every history, for addresses and for hotkeys.
RateBound ==
  /\ \A k \in IP : passed[k] * Cost <= HttpBurst * Cost + HttpRate * now
  /\ \A h \in Hotkey : admitted[h] * Cost <= AuthBurst * Cost + AuthRate * now

\* The replay cache is bounded by the rate limit in front of it: verify keeps,
\* for one hotkey, no more entries than the bucket can grant in one window.
CacheBounded ==
  \A h \in Hotkey :
    Cardinality({e \in accepted : e.id.hotkey = h}) * Cost <= AuthBurst * Cost + AuthRate * MaxAge

\* The eviction never forgets too early: a request whose nonce was not ahead of
\* the miner's clock is in the replay cache for as long as it counts as fresh.
ReplayCovered ==
  \A e \in log : e.id.nonce <= e.at /\ Fresh(e.id) => \E a \in accepted : a.id = e.id

\* A request passes verify at most once, however often and over however many
\* connections it is delivered, nonces ahead of the miner's clock included.
AcceptOnce ==
  [][\A c \in Conn : pc[c] = "awaiting" /\ pc'[c] = "verified"
                       => \A e \in log : e.id # req[c].id]_admVars

\* A delivered request says what a validator signed, its unsigned headers apart.
AsSigned(q) == \E r \in signed : q = [r EXCEPT !.policy = q.policy]

\* What reaches forward is, as it was delivered, what a configured validator
\* signed, and within the policy: neither an altered copy nor one with headers
\* that were changed to get past the policy does.
ServedIsAuthentic ==
  \A q \in served : q.id.hotkey \in Allowed /\ AsSigned(q) /\ q.policy

\* Copies of a validator's requests, altered or not, and other validators'
\* requests do not use up its tokens: a hotkey that paces itself is never
\* refused by verify's bucket.
PacedNeverRefused == refused \cap Paced = {}

\* The SDK parses a body only when all of it has arrived within the cap.
WholeBody ==
  \A c \in Conn : pc[c] \in {"parsed", "awaiting", "verified"}
                    => got[c] = size[c] /\ size[c] <= MaxBytes

=============================================================================
