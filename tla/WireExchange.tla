----------------------------- MODULE WireExchange -----------------------------
(***************************************************************************)
(* One question and one answer: query_miners on the validators, `forward`  *)
(* and sign_response on the miners, and verify_response_signature on what  *)
(* comes back.  Requests carry a fresh request_id; an interrupted epoch is *)
(* queried again under the same epoch id, and several validators query the *)
(* same miners.  The network may lose or delay a response, deliver it to   *)
(* another query, or change a field of it; a miner outside Honest answers  *)
(* with anything its own key can sign.                                     *)
(*                                                                         *)
(* Cryptography is symbolic: a digest is the list it digests, a signature  *)
(* is its key and its message.  A request_id is the number of the query.   *)
(***************************************************************************)
EXTENDS Naturals, Sequences

CONSTANTS
  Validator, Miner,
  Honest,        \* miners that run miner_cli.py
  Package,       \* submissions
  Bytes,         \* size of each package in a canonical payload
  TaskLists,     \* what load_tasks may find when a request arrives
  ServeQuota,    \* --quota of the miners
  Quotas,        \* quotas a validator may ask for
  MaxResponse,   \* MAX_RESPONSE_BYTES
  Envelope,      \* bytes of a response besides its payload
  Overhead,      \* RESPONSE_ENVELOPE_OVERHEAD_BYTES
  MaxQuery, MaxEpoch,    \* bounds: queries in a behaviour, epoch ids
  OtherVersion,  \* any protocol version but dolores-wire-v1
  None           \* no signature, no response

ASSUME WireAssumption ==
  /\ Honest \subseteq Miner
  /\ Bytes \in [Package -> Nat]
  /\ TaskLists \subseteq Seq(Package)
  /\ ServeQuota \in 1..4
  /\ Quotas \subseteq Nat
  /\ {MaxResponse, Envelope, Overhead, MaxQuery, MaxEpoch} \subseteq Nat
  /\ Envelope <= Overhead
  /\ None \notin Miner

Query == 1..MaxQuery

VARIABLES
  queries,   \* queries made so far, in order: [validator, epoch, quota]
  responses, \* responses the honest miners have signed, kept by the network
  outcome    \* the WireMiner of each query and endpoint

wireVars == <<queries, responses, outcome>>

\* A WireMiner: its terminal_status ("ok" when there is none), its payloads and,
\* as history, the signature it was accepted under.
WireMiner(status, payloads, signature) ==
  [status |-> status, payloads |-> payloads, signature |-> signature]

Terminal(status) == WireMiner(status, <<>>, None)

WireInit ==
  /\ queries = <<>>
  /\ responses = {}
  /\ outcome = [q \in Query |-> [m \in Miner |-> Terminal("pending")]]

-----------------------------------------------------------------------------
\* Lists of packages

Take(list, n) == SubSeq(list, 1, IF n < Len(list) THEN n ELSE Len(list))

\* response_payload_size, as the sum over the list.
PayloadSize(list) ==
  LET sum[i \in 0 .. Len(list)] == IF i = 0 THEN 0 ELSE sum[i - 1] + Bytes[list[i]]
  IN  sum[Len(list)]

\* The longest prefix that fits: packages are popped from the end while the
\* payload is too large.
Fitting(list) ==
  LET fits == {n \in 0 .. Len(list) :
                 \A k \in n + 1 .. Len(list) : PayloadSize(Take(list, k)) > MaxResponse}
  IN  Take(list, CHOOSE n \in fits : \A k \in fits : n <= k)

-----------------------------------------------------------------------------
\* The miner

Version == "dolores-wire-v1"

\* submissions_digest: a fixed-size value that no other list has.
Digest(list) == [sha256 |-> list]

\* _response_message.  The request's nonce stands for its uuid too.
Message(version, request, nonce, validator, miner, epoch, quota, digest) ==
  [version |-> version, request |-> request, nonce |-> nonce, validator |-> validator,
   miner |-> miner, epoch |-> epoch, quota |-> quota, digest |-> digest]

\* mutant: the quota that was served is signed instead of the one asked for.
ServedQuotaMessage(m, q, digest) ==
  Message(Version, q, q, queries[q].validator, m, queries[q].epoch,
          IF queries[q].quota < ServeQuota THEN queries[q].quota ELSE ServeQuota, digest)

\* ... for the answer of m to query q, whose nonce belongs to the query.
ResponseMessage(m, q, digest) ==
  Message(Version, q, q, queries[q].validator, m, queries[q].epoch, queries[q].quota, digest)

Sign(key, message) == [key |-> key, message |-> message]

Signature ==
  [key : Miner,
   message : [version : {Version, OtherVersion}, request : Query, nonce : Query,
              validator : Validator, miner : Miner, epoch : 1..MaxEpoch, quota : Quotas,
              digest : [sha256 : Seq(Package)]]]

ASSUME NoneAssumption == None \notin Signature

\* sign_response: what the response says, the list, and the signature.
SignResponse(m, q, list) ==
  LET message == ResponseMessage(m, q, Digest(list))
  IN  [says |-> message, submissions |-> list, signature |-> Sign(m, message)]

\* forward: the first packages of the task directories, no more than either
\* quota, cut to the response bound and signed.  It may run long after the
\* validator has stopped waiting.
Forward(m, q, tasks) ==
  LET quota == IF queries[q].quota < ServeQuota THEN queries[q].quota ELSE ServeQuota
  IN  /\ q \in DOMAIN queries
      /\ \A r \in responses : r.signature.key = m => r.says.request # q
      /\ responses' = responses \cup {SignResponse(m, q, Fitting(Take(tasks, quota)))}
      /\ UNCHANGED <<queries, outcome>>

-----------------------------------------------------------------------------
\* The network

AnyList == TaskLists \cup {Take(t, n) : t \in TaskLists, n \in 0..2}

\* One field of a response changed, or its signature removed.
FieldAltered(r) ==
  {r, [r EXCEPT !.signature = None], [r EXCEPT !.says.version = OtherVersion]}
    \cup {[r EXCEPT !.says.request = q, !.says.nonce = q] : q \in Query}
    \cup {[r EXCEPT !.says.validator = v] : v \in Validator}
    \cup {[r EXCEPT !.says.miner = m] : m \in Miner}
    \cup {[r EXCEPT !.says.epoch = e] : e \in 1..MaxEpoch}
    \cup {[r EXCEPT !.says.quota = n] : n \in Quotas}

\* The list of a response changed, with or without its digest.
ListAltered(r) ==
  {[r EXCEPT !.submissions = l] : l \in AnyList}
    \cup {[r EXCEPT !.submissions = l, !.says.digest = Digest(l)] : l \in AnyList}

\* What a miner outside Honest may answer to query q: any claim that differs
\* from the right one in at most one field, under its own signature.
Dishonest(m, q) ==
  UNION {{[a EXCEPT !.signature = Sign(m, a.says)] : a \in FieldAltered(SignResponse(m, q, l))} :
           l \in AnyList}

Altered == UNION {FieldAltered(r) \cup ListAltered(r) : r \in responses}

Deliverable(m, q) == IF m \in Honest THEN Altered ELSE Altered \cup Dishonest(m, q)

-----------------------------------------------------------------------------
\* The validator

\* mutants: the digest is believed instead of recomputed; the request id is not
\* compared with the one that was sent.
DigestBelieved(m, q, r) ==
  /\ r.says.version = Version /\ r.says.request = q
  /\ r.says.epoch = queries[q].epoch /\ r.says.quota = queries[q].quota
  /\ r.says.validator = queries[q].validator /\ r.says.miner = m
  /\ r.signature = Sign(m, r.says)
RequestIdIgnored(m, q, r) ==
  /\ r.says.version = Version
  /\ r.says.epoch = queries[q].epoch /\ r.says.quota = queries[q].quota
  /\ r.says.validator = queries[q].validator /\ r.says.miner = m
  /\ r.says.digest = Digest(r.submissions)
  /\ r.signature = Sign(m, r.says)

\* verify_response_signature against the endpoint m of query q.
Authentic(m, q, r) ==
  /\ r.says.version = Version
  /\ r.says.request = q
  /\ r.says.epoch = queries[q].epoch
  /\ r.says.quota = queries[q].quota
  /\ r.says.validator = queries[q].validator
  /\ r.says.miner = m
  /\ r.says.digest = Digest(r.submissions)
  /\ r.signature # None
  /\ r.signature = Sign(m, Message(r.says.version, r.says.request, r.says.nonce,
                                   r.says.validator, r.says.miner, r.says.epoch,
                                   r.says.quota, Digest(r.submissions)))

\* _bounded_response_json: the transport cap, before anything is decoded.
TransportFits(r) == PayloadSize(r.submissions) + Envelope <= MaxResponse + Overhead

\* wire_miner_from_response
FromResponse(m, q, r) ==
  IF ~TransportFits(r) THEN Terminal("unreachable")
  ELSE IF ~Authentic(m, q, r) THEN Terminal("invalid")
  ELSE IF PayloadSize(r.submissions) > MaxResponse THEN Terminal("invalid")
  ELSE WireMiner("ok", Take(r.submissions, queries[q].quota), r.signature)

\* A validator waits for one query at a time; a query it makes after it was
\* interrupted replaces the one before.
Open(q) ==
  /\ q \in DOMAIN queries
  /\ \A p \in DOMAIN queries : p > q => queries[p].validator # queries[q].validator

\* query_miners: a fresh request_id, for a new epoch or again for the last one.
QueryMiners(v, epoch, quota) ==
  /\ Len(queries) < MaxQuery
  /\ \A q \in DOMAIN queries : queries[q].validator = v => queries[q].epoch <= epoch
  /\ queries' = Append(queries, [validator |-> v, epoch |-> epoch, quota |-> quota])
  /\ UNCHANGED <<responses, outcome>>

Receive(m, q, r) ==
  /\ Open(q)
  /\ outcome[q][m].status = "pending"
  /\ outcome' = [outcome EXCEPT ![q][m] = FromResponse(m, q, r)]
  /\ UNCHANGED <<queries, responses>>

\* A timeout, an error answer, or an exception of the whole query.
NoAnswer(m, q) ==
  /\ Open(q)
  /\ outcome[q][m].status = "pending"
  /\ outcome' = [outcome EXCEPT ![q][m] = Terminal("unreachable")]
  /\ UNCHANGED <<queries, responses>>

WireNext ==
  \/ \E v \in Validator, e \in 1..MaxEpoch, n \in Quotas : QueryMiners(v, e, n)
  \/ \E m \in Honest, q \in DOMAIN queries, t \in TaskLists : Forward(m, q, t)
  \/ \E q \in DOMAIN queries, m \in Miner : \E r \in Deliverable(m, q) : Receive(m, q, r)
  \/ \E q \in DOMAIN queries, m \in Miner : NoAnswer(m, q)

WireSpec == WireInit /\ [][WireNext]_wireVars

-----------------------------------------------------------------------------
\* Properties

\* The signed fields have their types and the outcomes their statuses.
WireTypeOK ==
  /\ queries \in Seq([validator : Validator, epoch : 1..MaxEpoch, quota : Quotas])
  /\ \A r \in responses : r.says.request \in DOMAIN queries /\ r.signature.key \in Honest
  /\ \A q \in Query, m \in Miner :
       /\ outcome[q][m].status \in {"pending", "ok", "unreachable", "invalid"}
       /\ outcome[q][m].payloads \in Seq(Package)
       /\ outcome[q][m].status # "ok" => outcome[q][m] = Terminal(outcome[q][m].status)

\* Nothing an honest miner did not answer to this very request is scored for
\* it: packages taken from an honest endpoint are the ones it signed for that
\* query, whatever the network changed, mixed up or kept from earlier.
PayloadsAreAnswers ==
  \A q \in Query, m \in Honest :
    outcome[q][m].status = "ok" =>
      \E r \in responses :
        /\ r.signature.key = m /\ r.says.request = q
        /\ outcome[q][m].payloads = Take(r.submissions, queries[q].quota)

\* One signature counts once: a response is not accepted again by the retry of
\* an interrupted epoch, by another validator or for another endpoint.
CountedOnce ==
  \A p, q \in Query, m, n \in Miner :
    /\ outcome[p][m].status = "ok" /\ outcome[q][n].status = "ok"
    /\ outcome[p][m].signature = outcome[q][n].signature
    => p = q /\ m = n

\* The two ends agree: the answer of an honest miner to its query, when it
\* arrives as sent, is never turned into a terminal status and loses no package.
HonestAnswerCounts ==
  \A r \in responses :
    FromResponse(r.signature.key, r.says.request, r)
      = WireMiner("ok", r.submissions, r.signature)

=============================================================================
