------------------------- MODULE MinerAdmissionProofs -------------------------
(***************************************************************************)
(* The safety of MinerAdmission for every set of connections, addresses    *)
(* and hotkeys, every clock offset, burst, rate and window.                *)
(***************************************************************************)
EXTENDS MinerAdmission, FiniteSetTheorems, TLAPS

-----------------------------------------------------------------------------
\* The inductive invariant

\* A busy connection carries a request, and a genuine one was signed; from the
\* await on its sender is allowed and it satisfies the policy, and past
\* default_verify it is genuine.
ReqInv ==
  \A c \in Conn : pc[c] # "idle" =>
    /\ req[c] \in Request
    /\ req[c].genuine => AsSigned(req[c])
    /\ pc[c] \in {"awaiting", "verified"} => Authorized(req[c]) /\ req[c].policy
    /\ pc[c] = "verified" => req[c].genuine

\* A body is read up to the cap and handed on only when it is complete.
BodyInv ==
  /\ \A c \in Conn : got[c] <= size[c] /\ got[c] <= MaxBytes
  /\ \A c \in Conn : pc[c] = "idle" => got[c] = 0
  /\ WholeBody

\* What the two limiters have granted and what their buckets hold never exceed
\* the burst and what the rate has yielded up to updated_at.
HttpRateInv ==
  \A k \in IP :
    /\ httpBucket[k].at <= now
    /\ passed[k] * Cost + httpBucket[k].tokens
         <= HttpBurst * Cost + HttpRate * httpBucket[k].at

AuthRateInv ==
  \A h \in Hotkey :
    /\ authBucket[h].at <= now
    /\ admitted[h] * Cost + authBucket[h].tokens
         <= AuthBurst * Cost + AuthRate * authBucket[h].at

\* What holds whether or not the miner is restarted in between.
AdmCore ==
  /\ AdmTypeOK
  /\ ReqInv
  /\ BodyInv
  /\ HttpRateInv
  /\ AuthRateInv
  /\ ServedIsAuthentic

\* Entries leave the replay cache only when they are older than the window, and
\* the SDK has seen every request that was ever entered.
LogInv ==
  /\ \A e \in log : ~(e.at < now - MaxAge) => e \in accepted
  /\ \A e \in log : e.id \in sdkSeen

Span(s, t) == IF s <= t THEN t - s ELSE 0

\* The entries of one hotkey that were made at time s or later.
Since(h, s) == {e \in accepted : e.id.hotkey = h /\ e.at >= s}

\* Every entry was paid for with a token: those made since s and the tokens that
\* are left come from the burst and from what the rate has yielded since s.
WindowInv ==
  /\ IsFiniteSet(accepted)
  /\ \A e \in accepted : e.at <= authBucket[e.id.hotkey].at
  /\ \A h \in Hotkey, s \in Nat :
       Cardinality(Since(h, s)) * Cost + authBucket[h].tokens
         <= AuthBurst * Cost + AuthRate * Span(s, authBucket[h].at)

AdmInd ==
  /\ AdmCore
  /\ LogInv
  /\ WindowInv
  /\ CacheBounded

-----------------------------------------------------------------------------
\* Arithmetic of the bucket

LEMMA NatProduct == \A a, b \in Nat : a * b \in Nat
  OBVIOUS

LEMMA OneMore == \A n, c \in Nat : (n + 1) * c = n * c + c
  OBVIOUS

LEMMA Split == \A r, s, t \in Nat : s <= t => r * s + r * (t - s) = r * t
  <1>1. SUFFICES ASSUME NEW r \in Nat, NEW s \in Nat, NEW t \in Nat, s <= t
                 PROVE  r * s + r * (t - s) = r * t
    OBVIOUS
  <1>2. r * (t - s) = r * t - r * s
    OBVIOUS
  <1>3. r * s \in Int /\ r * t \in Int
    OBVIOUS
  <1>4. QED
    BY <1>2, <1>3

LEMMA Monotone == \A r, s, t \in Nat : s <= t => r * s <= r * t
  <1>1. SUFFICES ASSUME NEW r \in Nat, NEW s \in Nat, NEW t \in Nat, s <= t
                 PROVE  r * s <= r * t
    OBVIOUS
  <1>2. r * s + r * (t - s) = r * t
    BY <1>1, Split
  <1>3. t - s \in Nat
    BY <1>1
  <1>4. r * (t - s) \in Nat /\ r * s \in Nat /\ r * t \in Nat
    BY <1>3, NatProduct
  <1>5. QED
    BY <1>2, <1>4

\* One call of allow: the stored bucket is again a bucket, and the account of
\* grants and tokens is kept up to now.
LEMMA BucketStep ==
  ASSUME NEW burst \in Nat \ {0}, NEW rate \in Nat \ {0}, NEW n \in Nat,
         NEW b \in Bucket(burst), now \in Nat, b.at <= now,
         n * Cost + b.tokens <= burst * Cost + rate * b.at
  PROVE  /\ Charged(b, burst, rate) \in Bucket(burst)
         /\ Charged(b, burst, rate).at = now
         /\ (IF Allows(b, burst, rate) THEN n + 1 ELSE n) * Cost
              + Charged(b, burst, rate).tokens <= burst * Cost + rate * now
  <1>1. Cost \in Nat
    BY AdmissionAssumption
  <1> DEFINE cap == burst * Cost
             yield == rate * Later(b.at)
             filled == Filled(b, burst, rate)
  <1>2. cap \in Nat
    BY <1>1, NatProduct
  <1>3. b.tokens \in Nat /\ b.tokens <= cap /\ b.at \in Nat
    BY <1>2 DEF Bucket
  <1>4. Later(b.at) = now - b.at /\ Later(b.at) \in Nat
    BY <1>3 DEF Later
  <1>5. yield \in Nat
    BY <1>4, NatProduct
  <1>6. rate * b.at + yield = rate * now /\ rate * b.at \in Nat /\ rate * now \in Nat
    <2>1. rate * b.at + rate * (now - b.at) = rate * now
      BY <1>3, Split
    <2>2. yield = rate * (now - b.at)
      BY <1>4
    <2>3. rate * b.at \in Nat /\ rate * now \in Nat
      BY <1>3, NatProduct
    <2>4. QED
      BY <2>1, <2>2, <2>3
  <1>7. filled = IF b.tokens + yield < cap THEN b.tokens + yield ELSE cap
    BY DEF Filled
  <1>8. filled \in Nat /\ filled <= cap /\ filled <= b.tokens + yield
    <2> HIDE DEF cap, yield, filled
    <2>1. QED
      BY <1>2, <1>3, <1>5, <1>7
  <1>9. n * Cost \in Nat /\ (n + 1) * Cost = n * Cost + Cost
    BY <1>1, NatProduct, OneMore
  <1>10. n * Cost + filled <= cap + rate * now
    <2> HIDE DEF cap, yield, filled
    <2>1. n * Cost + b.tokens <= cap + rate * b.at
      BY DEF cap
    <2>2. QED
      BY <2>1, <1>2, <1>3, <1>5, <1>6, <1>8, <1>9
  <1>11. Charged(b, burst, rate)
           = [tokens |-> IF filled >= Cost THEN filled - Cost ELSE filled, at |-> now]
    BY DEF Charged
  <1>12. Allows(b, burst, rate) <=> filled >= Cost
    BY DEF Allows
  <1>13. CASE filled >= Cost
    <2> HIDE DEF cap, yield, filled
    <2>1. Charged(b, burst, rate) = [tokens |-> filled - Cost, at |-> now]
      BY <1>11, <1>13
    <2>2. filled - Cost \in 0 .. cap
      BY <1>1, <1>2, <1>8, <1>13
    <2>3. (n + 1) * Cost + (filled - Cost) <= cap + rate * now
      BY <1>1, <1>2, <1>6, <1>8, <1>9, <1>10
    <2>4. QED
      BY <2>1, <2>2, <2>3, <1>12, <1>13 DEF Bucket, cap
  <1>14. CASE ~(filled >= Cost)
    <2> HIDE DEF cap, yield, filled
    <2>1. Charged(b, burst, rate) = [tokens |-> filled, at |-> now]
      BY <1>11, <1>14
    <2>2. filled \in 0 .. cap
      BY <1>2, <1>8
    <2>3. QED
      BY <2>1, <2>2, <1>10, <1>12, <1>14 DEF Bucket, cap
  <1>15. QED
    BY <1>13, <1>14

-----------------------------------------------------------------------------
\* Initialisation and the steps of one connection

LEMMA AdmInitInd == AdmInit => AdmCore
  <1> SUFFICES ASSUME AdmInit PROVE AdmCore
    OBVIOUS
  <1>1. /\ MaxTime \in Nat /\ MaxBytes \in Nat /\ Cost \in Nat
        /\ HttpBurst \in Nat /\ AuthBurst \in Nat /\ HttpRate \in Nat /\ AuthRate \in Nat
    BY AdmissionAssumption
  <1>2. HttpBurst * Cost \in Nat /\ AuthBurst * Cost \in Nat
    BY <1>1, NatProduct
  <1>3. AdmTypeOK
    BY <1>1, <1>2 DEF AdmInit, AdmTypeOK, Bucket
  <1>4. ReqInv /\ BodyInv
    BY <1>1 DEF AdmInit, ReqInv, BodyInv, WholeBody
  <1>5. HttpRateInv
    BY <1>1, <1>2 DEF AdmInit, HttpRateInv
  <1>6. AuthRateInv
    BY <1>1, <1>2 DEF AdmInit, AuthRateInv
  <1>7. ServedIsAuthentic
    BY DEF AdmInit, ServedIsAuthentic
  <1>8. QED
    BY <1>3, <1>4, <1>5, <1>6, <1>7 DEF AdmCore

ConnTypeOK ==
  /\ pc \in [Conn -> {"idle", "reading", "parsed", "awaiting", "verified"}]
  /\ req \in [Conn -> Request \cup {NoRequest}]
  /\ size \in [Conn -> Nat] /\ got \in [Conn -> Nat]

\* A refused or finished request leaves its connection empty and the others as
\* they were.
LEMMA IdleStep ==
  ASSUME NEW c \in Conn, ConnTypeOK, ReqInv, BodyInv, Idle(c), signed' = signed
  PROVE  ConnTypeOK' /\ ReqInv' /\ BodyInv'
  <1>1. MaxBytes \in Nat
    BY AdmissionAssumption
  <1>2. ConnTypeOK'
    BY DEF ConnTypeOK, Idle
  <1>3. ReqInv'
    BY DEF ConnTypeOK, ReqInv, AsSigned, Authorized, Idle
  <1>4. BodyInv'
    BY <1>1 DEF ConnTypeOK, BodyInv, WholeBody, Idle
  <1>5. QED
    BY <1>2, <1>3, <1>4

\* The invariant's parts that a step leaves alone when it leaves the variables
\* they speak of alone.
LEMMA Untouched ==
  ASSUME AdmCore
  PROVE  /\ UNCHANGED <<now, httpBucket, passed>> => HttpRateInv'
         /\ UNCHANGED <<now, authBucket, admitted>> => AuthRateInv'
         /\ UNCHANGED <<signed, served>> => ServedIsAuthentic'
  BY DEF AdmCore, HttpRateInv, AuthRateInv, ServedIsAuthentic, AsSigned

LEMMA ConnTyped == AdmTypeOK => ConnTypeOK
  BY DEF AdmTypeOK, ConnTypeOK

LEMMA AdvanceClockInd ==
  ASSUME AdmCore, AdvanceClock
  PROVE  AdmCore'
  <1>1. MaxTime \in Nat
    BY AdmissionAssumption
  <1>2. now \in Nat /\ now' = now + 1 /\ now' \in 0 .. MaxTime
    BY <1>1 DEF AdmCore, AdmTypeOK, AdvanceClock
  <1>3. AdmTypeOK'
    BY <1>2 DEF AdmCore, AdmTypeOK, AdvanceClock, connVars, history
  <1>4. ReqInv' /\ BodyInv' /\ ServedIsAuthentic'
    BY DEF AdmCore, AdvanceClock, connVars, ReqInv, AsSigned, Authorized, BodyInv, WholeBody,
           ServedIsAuthentic
  <1>5. HttpRateInv'
    BY <1>2 DEF AdmCore, AdmTypeOK, Bucket, HttpRateInv, AdvanceClock, history
  <1>6. AuthRateInv'
    BY <1>2 DEF AdmCore, AdmTypeOK, Bucket, AuthRateInv, AdvanceClock, history
  <1>7. QED
    BY <1>3, <1>4, <1>5, <1>6 DEF AdmCore

LEMMA SignInd ==
  ASSUME AdmCore, NEW h \in Hotkey, NEW u \in Uuid, Sign(h, u)
  PROVE  AdmCore'
  <1> DEFINE id == [hotkey |-> h, uuid |-> u, nonce |-> now + Skew[h]]
             r == [id |-> id, policy |-> TRUE, genuine |-> TRUE]
  <1>1. now \in Int /\ Skew[h] \in Int
    BY AdmissionAssumption DEF AdmCore, AdmTypeOK
  <1>2. id \in Identity
    BY <1>1 DEF Identity
  <1>3. r \in Request
    <2> HIDE DEF id
    <2>1. QED
      BY <1>1, <1>2 DEF Request
  <1>4. signed' = signed \cup {r}
    BY DEF Sign
  <1> HIDE DEF r
  <1>5. AdmTypeOK'
    BY <1>3, <1>4 DEF AdmCore, AdmTypeOK, Sign, connVars, history
  <1>6. ReqInv' /\ BodyInv' /\ ServedIsAuthentic'
    BY <1>4 DEF AdmCore, Sign, connVars, ReqInv, AsSigned, Authorized, BodyInv, WholeBody,
           ServedIsAuthentic
  <1>7. HttpRateInv' /\ AuthRateInv'
    BY Untouched DEF Sign, history
  <1>8. QED
    BY <1>5, <1>6, <1>7 DEF AdmCore

\* The steps that only drop a connection's request.
LEMMA DropInd ==
  ASSUME AdmCore, NEW c \in Conn, Idle(c),
         UNCHANGED <<now, signed, httpBucket, authBucket, accepted, sdkSeen, served, history>>
  PROVE  AdmCore'
  <1>1. ConnTypeOK' /\ ReqInv' /\ BodyInv'
    BY IdleStep, ConnTyped DEF AdmCore
  <1>2. AdmTypeOK'
    BY <1>1 DEF AdmCore, AdmTypeOK, ConnTypeOK, history
  <1>3. HttpRateInv' /\ AuthRateInv' /\ ServedIsAuthentic'
    BY Untouched DEF history
  <1>4. QED
    BY <1>1, <1>2, <1>3 DEF AdmCore

LEMMA DisconnectInd == ASSUME AdmCore, NEW c \in Conn, Disconnect(c) PROVE AdmCore'
  BY DropInd DEF Disconnect

LEMMA SdkRejectsInd == ASSUME AdmCore, NEW c \in Conn, SdkRejects(c) PROVE AdmCore'
  BY DropInd DEF SdkRejects

LEMMA ReceiveChunkInd ==
  ASSUME AdmCore, NEW c \in Conn, NEW chunk \in 0 .. size[c], ReceiveChunk(c, chunk)
  PROVE  AdmCore'
  <1> DEFINE total == got[c] + chunk
  <1>1. UNCHANGED <<now, signed, httpBucket, authBucket, accepted, sdkSeen, served, history>>
    BY DEF ReceiveChunk
  <1>2. CASE total > MaxBytes /\ Idle(c)
    BY <1>1, <1>2, DropInd
  <1>3. CASE /\ total <= MaxBytes
             /\ got' = [got EXCEPT ![c] = total]
             /\ pc' = [pc EXCEPT ![c] = IF total = size[c] THEN "parsed" ELSE "reading"]
             /\ UNCHANGED <<req, size>>
    <2>1. ConnTypeOK /\ total \in Nat /\ total <= size[c] /\ pc[c] = "reading"
      BY ConnTyped DEF AdmCore, ConnTypeOK, ReceiveChunk
    <2> HIDE DEF total
    <2>2. ConnTypeOK'
      BY <1>3, <2>1 DEF ConnTypeOK
    <2>3. AdmTypeOK'
      BY <1>1, <2>2 DEF AdmCore, AdmTypeOK, ConnTypeOK, history
    <2>4. ReqInv'
      BY <1>1, <1>3, <2>1 DEF AdmCore, ReqInv, AsSigned, Authorized, ConnTypeOK
    <2>5. BodyInv'
      BY <1>1, <1>3, <2>1 DEF AdmCore, BodyInv, WholeBody, ConnTypeOK
    <2>6. HttpRateInv' /\ AuthRateInv' /\ ServedIsAuthentic'
      BY <1>1, Untouched DEF history
    <2>7. QED
      BY <2>3, <2>4, <2>5, <2>6 DEF AdmCore
  <1>4. QED
    BY <1>2, <1>3 DEF ReceiveChunk

LEMMA VerifyPolicyInd ==
  ASSUME AdmCore, NEW c \in Conn, VerifyPolicy(c)
  PROVE  AdmCore'
  <1>1. UNCHANGED <<now, signed, httpBucket, authBucket, accepted, sdkSeen, served, history>>
    BY DEF VerifyPolicy
  <1>2. CASE Idle(c)
    BY <1>1, <1>2, DropInd
  <1>3. CASE /\ Authorized(req[c]) /\ req[c].policy
             /\ pc' = [pc EXCEPT ![c] = "awaiting"]
             /\ UNCHANGED <<req, size, got>>
    <2>1. ConnTypeOK /\ pc[c] = "parsed"
      BY ConnTyped DEF AdmCore, VerifyPolicy
    <2>2. AdmTypeOK'
      BY <1>1, <1>3, <2>1 DEF AdmCore, AdmTypeOK, ConnTypeOK, history
    <2>3. ReqInv'
      BY <1>1, <1>3, <2>1 DEF AdmCore, ReqInv, AsSigned, Authorized, ConnTypeOK
    <2>4. BodyInv'
      BY <1>3, <2>1 DEF AdmCore, BodyInv, WholeBody, ConnTypeOK
    <2>5. HttpRateInv' /\ AuthRateInv' /\ ServedIsAuthentic'
      BY <1>1, Untouched DEF history
    <2>6. QED
      BY <2>2, <2>3, <2>4, <2>5 DEF AdmCore
  <1>4. QED
    BY <1>2, <1>3 DEF VerifyPolicy, Passes

LEMMA ForwardInd ==
  ASSUME AdmCore, NEW c \in Conn, Forward(c)
  PROVE  AdmCore'
  <1>1. ConnTypeOK /\ pc[c] = "verified" /\ Idle(c) /\ signed' = signed
    BY ConnTyped DEF AdmCore, Forward
  <1>2. ConnTypeOK' /\ ReqInv' /\ BodyInv'
    BY <1>1, IdleStep DEF AdmCore
  <1>3. /\ req[c] \in Request /\ AsSigned(req[c]) /\ req[c].policy
        /\ req[c].id.hotkey \in Allowed
    BY <1>1 DEF AdmCore, ReqInv, Authorized
  <1>4. served' \subseteq Request
    BY <1>3 DEF AdmCore, AdmTypeOK, Forward
  <1>5. AdmTypeOK'
    BY <1>2, <1>4 DEF AdmCore, AdmTypeOK, ConnTypeOK, Forward, history
  <1>6. ServedIsAuthentic'
    BY <1>1, <1>3 DEF AdmCore, ServedIsAuthentic, AsSigned, Forward
  <1>7. HttpRateInv' /\ AuthRateInv'
    BY Untouched DEF Forward, history
  <1>8. QED
    BY <1>2, <1>5, <1>6, <1>7 DEF AdmCore

LEMMA ConnectInd ==
  ASSUME AdmCore, NEW c \in Conn, NEW k \in IP, NEW r \in signed, NEW policy \in Policies,
         NEW genuine \in BOOLEAN, NEW d \in Declarations, NEW n \in Sizes,
         Connect(c, k, r, policy, genuine, d, n)
  PROVE  AdmCore'
  <1> DEFINE copy == [r EXCEPT !.policy = policy, !.genuine = @ /\ genuine]
             after == Charged(httpBucket[k], HttpBurst, HttpRate)
             count == IF Allows(httpBucket[k], HttpBurst, HttpRate)
                      THEN passed[k] + 1 ELSE passed[k]
  <1>1. /\ HttpBurst \in Nat \ {0} /\ HttpRate \in Nat \ {0} /\ MaxBytes \in Nat /\ n \in Nat
        /\ MaxTime \in Nat
    BY AdmissionAssumption
  <1>2. /\ httpBucket[k] \in Bucket(HttpBurst) /\ passed[k] \in Nat /\ now \in Nat
        /\ httpBucket[k].at <= now
        /\ passed[k] * Cost + httpBucket[k].tokens
             <= HttpBurst * Cost + HttpRate * httpBucket[k].at
    BY <1>1 DEF AdmCore, AdmTypeOK, HttpRateInv
  <1>3. /\ after \in Bucket(HttpBurst) /\ after.at = now
        /\ count * Cost + after.tokens <= HttpBurst * Cost + HttpRate * now
    BY <1>1, <1>2, BucketStep
  <1>4. count \in Nat
    BY <1>2
  <1>5. /\ httpBucket' = [httpBucket EXCEPT ![k] = after]
        /\ passed' = [passed EXCEPT ![k] = count]
        /\ UNCHANGED <<now, signed, authBucket, accepted, sdkSeen, served, admitted, log,
                       refused>>
    BY DEF Connect
  <1> HIDE DEF after, count
  <1>6. HttpRateInv'
    <2> SUFFICES ASSUME NEW j \in IP
                 PROVE  (/\ httpBucket[j].at <= now
                         /\ passed[j] * Cost + httpBucket[j].tokens
                              <= HttpBurst * Cost + HttpRate * httpBucket[j].at)'
      BY DEF HttpRateInv
    <2>1. CASE j = k
      <3>1. httpBucket'[j] = after /\ passed'[j] = count /\ now' = now
        BY <1>5, <2>1 DEF AdmCore, AdmTypeOK
      <3>2. QED
        BY <3>1, <1>2, <1>3
    <2>2. CASE j # k
      <3>1. httpBucket'[j] = httpBucket[j] /\ passed'[j] = passed[j] /\ now' = now
        BY <1>5, <2>2 DEF AdmCore, AdmTypeOK
      <3>2. QED
        BY <3>1 DEF AdmCore, HttpRateInv
    <2>3. QED
      BY <2>1, <2>2
  <1>7. AuthRateInv' /\ ServedIsAuthentic'
    BY <1>5, Untouched
  <1>8. ConnTypeOK /\ pc[c] = "idle" /\ r \in Request
    BY ConnTyped DEF AdmCore, AdmTypeOK, Connect
  <1>9. copy \in Request /\ (copy.genuine => copy = [r EXCEPT !.policy = copy.policy])
    BY <1>8, AdmissionAssumption DEF Request
  <1>10. ConnTypeOK' /\ ReqInv' /\ BodyInv'
    <2>1. CASE UNCHANGED connVars
      BY <1>5, <1>8, <2>1 DEF AdmCore, ConnTypeOK, ReqInv, AsSigned, Authorized,
                                 BodyInv, WholeBody, connVars
    <2>2. CASE /\ pc' = [pc EXCEPT ![c] = "reading"]
               /\ req' = [req EXCEPT ![c] = copy]
               /\ size' = [size EXCEPT ![c] = n]
               /\ UNCHANGED got
      <3> HIDE DEF copy
      <3>1. ConnTypeOK'
        BY <1>1, <1>8, <1>9, <2>2 DEF ConnTypeOK
      <3>2. ReqInv'
        BY <1>5, <1>8, <1>9, <2>2 DEF AdmCore, ConnTypeOK, ReqInv, AsSigned, Authorized
      <3>3. BodyInv'
        BY <1>1, <1>8, <2>2 DEF AdmCore, ConnTypeOK, BodyInv, WholeBody
      <3>4. QED
        BY <3>1, <3>2, <3>3
    <2>3. QED
      BY <2>1, <2>2 DEF Connect
  <1>11. AdmTypeOK'
    BY <1>3, <1>4, <1>5, <1>10 DEF AdmCore, AdmTypeOK, ConnTypeOK
  <1>12. QED
    BY <1>6, <1>7, <1>10, <1>11 DEF AdmCore

LEMMA VerifyAdmitInd ==
  ASSUME AdmCore, NEW c \in Conn, VerifyAdmit(c)
  PROVE  AdmCore'
  <1> DEFINE id == req[c].id
             h == req[c].id.hotkey
             entry == [id |-> req[c].id, at |-> now]
             allow == Allows(authBucket[h], AuthBurst, AuthRate)
             after == Charged(authBucket[h], AuthBurst, AuthRate)
             count == IF allow THEN admitted[h] + 1 ELSE admitted[h]
  <1>1. AuthBurst \in Nat \ {0} /\ AuthRate \in Nat \ {0} /\ MaxTime \in Nat
    BY AdmissionAssumption
  <1>2. /\ ConnTypeOK /\ pc[c] = "awaiting" /\ req[c] \in Request
        /\ id \in Identity /\ h \in Hotkey /\ req[c].genuine
    BY ConnTyped DEF AdmCore, ReqInv, Request, Identity, VerifyAdmit, SdkAccepts
  <1>3. now \in Nat /\ entry \in [id : Identity, at : Nat]
    BY <1>1, <1>2 DEF AdmCore, AdmTypeOK
  <1>4. /\ authBucket[h] \in Bucket(AuthBurst) /\ admitted[h] \in Nat
        /\ authBucket[h].at <= now
        /\ admitted[h] * Cost + authBucket[h].tokens
             <= AuthBurst * Cost + AuthRate * authBucket[h].at
    BY <1>2 DEF AdmCore, AdmTypeOK, AuthRateInv
  <1>5. /\ after \in Bucket(AuthBurst) /\ after.at = now
        /\ count * Cost + after.tokens <= AuthBurst * Cost + AuthRate * now
    BY <1>1, <1>3, <1>4, BucketStep
  <1>6. count \in Nat
    BY <1>4
  <1>7. /\ authBucket' = [authBucket EXCEPT ![h] = after]
        /\ sdkSeen' = sdkSeen \cup {id}
        /\ UNCHANGED <<now, signed, httpBucket, served, passed>>
    BY DEF VerifyAdmit
  <1>8. admitted' = [admitted EXCEPT ![h] = count]
    <2>1. CASE allow
      BY <2>1 DEF VerifyAdmit
    <2>2. CASE ~allow
      <3>1. admitted' = admitted /\ count = admitted[h]
        BY <2>2 DEF VerifyAdmit
      <3>2. QED
        BY <3>1, <1>2 DEF AdmCore, AdmTypeOK
    <2>3. QED
      BY <2>1, <2>2
  <1>9. /\ refused' \subseteq Hotkey
        /\ \/ accepted' = accepted /\ log' = log
           \/ accepted' = Retained /\ log' = log
           \/ accepted' = Retained \cup {entry} /\ log' = log \cup {entry}
        /\ \/ Idle(c)
           \/ pc' = [pc EXCEPT ![c] = "verified"] /\ UNCHANGED <<req, size, got>>
    BY <1>2 DEF AdmCore, AdmTypeOK, VerifyAdmit
  <1> HIDE DEF after, count, allow, entry
  <1>10. AuthRateInv'
    <2> SUFFICES ASSUME NEW j \in Hotkey
                 PROVE  (/\ authBucket[j].at <= now
                         /\ admitted[j] * Cost + authBucket[j].tokens
                              <= AuthBurst * Cost + AuthRate * authBucket[j].at)'
      BY DEF AuthRateInv
    <2>1. CASE j = h
      <3>1. authBucket'[j] = after /\ admitted'[j] = count /\ now' = now
        BY <1>7, <1>8, <2>1 DEF AdmCore, AdmTypeOK
      <3>2. QED
        BY <3>1, <1>3, <1>5
    <2>2. CASE j # h
      <3>1. authBucket'[j] = authBucket[j] /\ admitted'[j] = admitted[j] /\ now' = now
        BY <1>7, <1>8, <2>2 DEF AdmCore, AdmTypeOK
      <3>2. QED
        BY <3>1 DEF AdmCore, AuthRateInv
    <2>3. QED
      BY <2>1, <2>2
  <1>12. ConnTypeOK' /\ ReqInv' /\ BodyInv'
    <2>1. CASE Idle(c)
      BY <1>2, <1>7, <2>1, IdleStep DEF AdmCore
    <2>2. CASE pc' = [pc EXCEPT ![c] = "verified"] /\ UNCHANGED <<req, size, got>>
      <3>1. ConnTypeOK'
        BY <1>2, <2>2 DEF ConnTypeOK
      <3>2. ReqInv'
        BY <1>2, <1>7, <2>2 DEF AdmCore, ConnTypeOK, ReqInv, AsSigned, Authorized
      <3>3. BodyInv'
        BY <1>2, <2>2 DEF AdmCore, ConnTypeOK, BodyInv, WholeBody
      <3>4. QED
        BY <3>1, <3>2, <3>3
    <2>3. QED
      BY <1>9, <2>1, <2>2
  <1>13. accepted' \subseteq [id : Identity, at : Nat] /\ log' \subseteq [id : Identity, at : Nat]
    BY <1>3, <1>9 DEF AdmCore, AdmTypeOK, Retained
  <1>14. AdmTypeOK'
    <2>1. sdkSeen' \subseteq Identity
      BY <1>2, <1>7 DEF AdmCore, AdmTypeOK
    <2>2. authBucket' \in [Hotkey -> Bucket(AuthBurst)] /\ admitted' \in [Hotkey -> Nat]
      BY <1>5, <1>6, <1>7, <1>8 DEF AdmCore, AdmTypeOK
    <2>3. QED
      BY <1>7, <1>9, <1>12, <1>13, <2>1, <2>2 DEF AdmCore, AdmTypeOK, ConnTypeOK
  <1>15. HttpRateInv' /\ ServedIsAuthentic'
    BY <1>7, Untouched
  <1>16. QED
    BY <1>10, <1>12, <1>14, <1>15 DEF AdmCore

-----------------------------------------------------------------------------
\* The steps of the whole

LEMMA HandleInd == ASSUME AdmCore, NEW c \in Conn, Handle(c) PROVE AdmCore'
  <1>1. CASE \E k \in IP, r \in signed, policy \in Policies, genuine \in BOOLEAN,
               d \in Declarations, n \in Sizes : Connect(c, k, r, policy, genuine, d, n)
    BY <1>1, ConnectInd
  <1>2. CASE \E chunk \in 0 .. size[c] : ReceiveChunk(c, chunk)
    BY <1>2, ReceiveChunkInd
  <1>3. CASE Disconnect(c) \/ SdkRejects(c)
    BY <1>3, DisconnectInd, SdkRejectsInd
  <1>4. CASE VerifyPolicy(c)
    BY <1>4, VerifyPolicyInd
  <1>5. CASE VerifyAdmit(c)
    BY <1>5, VerifyAdmitInd
  <1>6. CASE Forward(c)
    BY <1>6, ForwardInd
  <1>7. QED
    BY <1>1, <1>2, <1>3, <1>4, <1>5, <1>6 DEF Handle

LEMMA StutterInd == ASSUME AdmCore, UNCHANGED admVars PROVE AdmCore'
  <1>1. /\ UNCHANGED <<now, signed, pc, req, size, got>>
        /\ UNCHANGED <<httpBucket, authBucket, accepted, sdkSeen, served>>
        /\ UNCHANGED <<passed, admitted, log, refused>>
    BY DEF admVars, connVars, history
  <1>2. AdmTypeOK'
    BY <1>1 DEF AdmCore, AdmTypeOK
  <1>3. ReqInv' /\ BodyInv'
    BY <1>1 DEF AdmCore, ReqInv, AsSigned, Authorized, BodyInv, WholeBody
  <1>4. HttpRateInv' /\ AuthRateInv' /\ ServedIsAuthentic'
    BY <1>1, Untouched
  <1>5. QED
    BY <1>2, <1>3, <1>4 DEF AdmCore

LEMMA AdmCoreStep == AdmCore /\ [AdmNext]_admVars => AdmCore'
  <1> SUFFICES ASSUME AdmCore, [AdmNext]_admVars PROVE AdmCore'
    OBVIOUS
  <1>1. CASE AdvanceClock
    BY <1>1, AdvanceClockInd
  <1>2. CASE \E h \in Hotkey, u \in Uuid : Sign(h, u)
    BY <1>2, SignInd
  <1>3. CASE \E c \in Conn : Handle(c)
    BY <1>3, HandleInd
  <1>4. CASE UNCHANGED admVars
    BY <1>4, StutterInd
  <1>5. QED
    BY <1>1, <1>2, <1>3, <1>4 DEF AdmNext

\* Only the clock and the end of verify bear on the replay cache.
LEMMA StepKinds ==
  ASSUME [AdmNext]_admVars
  PROVE  \/ AdvanceClock
         \/ \E c \in Conn : VerifyAdmit(c)
         \/ UNCHANGED <<now, authBucket, accepted, sdkSeen, log>>
  <1>1. ASSUME NEW c \in Conn, Handle(c), ~VerifyAdmit(c)
        PROVE  UNCHANGED <<now, authBucket, accepted, sdkSeen, log>>
    BY <1>1 DEF Handle, Connect, ReceiveChunk, Disconnect, VerifyPolicy, SdkRejects, Forward,
                history
  <1>2. ASSUME NEW h \in Hotkey, NEW u \in Uuid, Sign(h, u)
        PROVE  UNCHANGED <<now, authBucket, accepted, sdkSeen, log>>
    BY <1>2 DEF Sign, history
  <1>3. UNCHANGED admVars => UNCHANGED <<now, authBucket, accepted, sdkSeen, log>>
    BY DEF admVars, history
  <1>4. QED
    BY <1>1, <1>2, <1>3 DEF AdmNext

\* What VerifyAdmit does to the replay cache and the bucket in front of it.
LEMMA AdmitEffect ==
  ASSUME AdmCore, NEW c \in Conn, VerifyAdmit(c)
  PROVE  LET h == req[c].id.hotkey
             entry == [id |-> req[c].id, at |-> now]
         IN  /\ req[c].id \in Identity /\ h \in Hotkey /\ now \in Nat
             /\ now' = now
             /\ sdkSeen' = sdkSeen \cup {req[c].id}
             /\ authBucket' = [authBucket EXCEPT ![h] = Charged(@, AuthBurst, AuthRate)]
             /\ \/ accepted' = accepted /\ log' = log
                \/ accepted' = Retained /\ log' = log
                \/ /\ Allows(authBucket[h], AuthBurst, AuthRate)
                   /\ accepted' = Retained \cup {entry} /\ log' = log \cup {entry}
  <1>1. MaxTime \in Nat
    BY AdmissionAssumption
  <1>2. req[c].id \in Identity /\ req[c].id.hotkey \in Hotkey /\ now \in Nat
    BY <1>1 DEF AdmCore, AdmTypeOK, ReqInv, Request, Identity, VerifyAdmit
  <1>3. QED
    BY <1>2 DEF VerifyAdmit

LEMMA LogStep == AdmCore /\ LogInv /\ [AdmNext]_admVars => LogInv'
  <1> SUFFICES ASSUME AdmCore, LogInv, [AdmNext]_admVars PROVE LogInv'
    OBVIOUS
  <1>1. MaxTime \in Nat /\ MaxAge \in Nat
    BY AdmissionAssumption
  <1>2. now \in Nat /\ \A e \in log : e.at \in Nat
    BY <1>1 DEF AdmCore, AdmTypeOK
  <1>3. CASE AdvanceClock
    <2>1. UNCHANGED <<log, accepted, sdkSeen>> /\ now' = now + 1
      BY <1>3 DEF AdvanceClock, history
    <2>2. \A e \in log : ~(e.at < now' - MaxAge) => e \in accepted
      BY <1>1, <1>2, <2>1 DEF LogInv
    <2>3. QED
      BY <2>1, <2>2 DEF LogInv
  <1>4. ASSUME NEW c \in Conn, VerifyAdmit(c) PROVE LogInv'
    <2> DEFINE entry == [id |-> req[c].id, at |-> now]
    <2>1. /\ now' = now /\ sdkSeen' = sdkSeen \cup {req[c].id}
          /\ \/ accepted' = accepted /\ log' = log
             \/ accepted' = Retained /\ log' = log
             \/ accepted' = Retained \cup {entry} /\ log' = log \cup {entry}
      BY <1>4, AdmitEffect
    <2>2. \A e \in log : ~(e.at < now - MaxAge) => e \in accepted /\ e \in Retained
      BY DEF LogInv, Retained
    <2>3. entry.id = req[c].id /\ \A e \in log : e.id \in sdkSeen
      BY DEF LogInv
    <2> HIDE DEF entry
    <2>4. \A e \in log' : ~(e.at < now - MaxAge) => e \in accepted'
      BY <2>1, <2>2
    <2>5. \A e \in log' : e.id \in sdkSeen'
      BY <2>1, <2>3
    <2>6. QED
      BY <2>1, <2>4, <2>5 DEF LogInv
  <1>5. CASE UNCHANGED <<now, authBucket, accepted, sdkSeen, log>>
    BY <1>5 DEF LogInv
  <1>6. QED
    BY <1>3, <1>4, <1>5, StepKinds

-----------------------------------------------------------------------------
\* The size of the replay cache

LEMMA FilledBounds ==
  ASSUME NEW burst \in Nat \ {0}, NEW rate \in Nat \ {0}, NEW b \in Bucket(burst),
         now \in Nat, b.at <= now
  PROVE  LET filled == Filled(b, burst, rate)
         IN  /\ filled \in Nat /\ filled <= burst * Cost
             /\ filled <= b.tokens + rate * (now - b.at)
             /\ Charged(b, burst, rate).at = now
             /\ Charged(b, burst, rate).tokens
                  = IF Allows(b, burst, rate) THEN filled - Cost ELSE filled
  <1> DEFINE cap == burst * Cost
             yield == rate * (now - b.at)
             filled == Filled(b, burst, rate)
  <1>1. Cost \in Nat /\ cap \in Nat
    BY AdmissionAssumption, NatProduct
  <1>2. b.tokens \in Nat /\ b.tokens <= cap /\ b.at \in Nat
    BY <1>1 DEF Bucket
  <1>3. now - b.at \in Nat /\ Later(b.at) = now - b.at
    BY <1>2 DEF Later
  <1>4. yield \in Nat
    BY <1>3, NatProduct
  <1>5. filled = IF b.tokens + yield < cap THEN b.tokens + yield ELSE cap
    BY <1>3 DEF Filled
  <1>6. /\ Charged(b, burst, rate).at = now
        /\ Charged(b, burst, rate).tokens = IF Allows(b, burst, rate) THEN filled - Cost ELSE filled
    BY DEF Charged, Allows
  <1> HIDE DEF cap, yield, filled
  <1>7. filled \in Nat /\ filled <= cap /\ filled <= b.tokens + yield
    BY <1>1, <1>2, <1>4, <1>5
  <1>8. QED
    BY <1>6, <1>7 DEF cap, yield, filled

\* One call of allow, as seen from time s: n entries were made since then, and
\* one more may be made now.
LEMMA SpanStep ==
  ASSUME NEW burst \in Nat \ {0}, NEW rate \in Nat \ {0}, NEW b \in Bucket(burst),
         NEW s \in Nat, NEW n \in Nat, NEW m \in Nat,
         now \in Nat, b.at <= now,
         n * Cost + b.tokens <= burst * Cost + rate * Span(s, b.at),
         b.at < s => n = 0,
         m <= n \/ (m = n + 1 /\ s <= now /\ Allows(b, burst, rate))
  PROVE  m * Cost + Charged(b, burst, rate).tokens <= burst * Cost + rate * Span(s, now)
  <1> DEFINE cap == burst * Cost
             filled == Filled(b, burst, rate)
             left == Charged(b, burst, rate).tokens
  <1>1. Cost \in Nat /\ cap \in Nat /\ b.at \in Nat /\ b.tokens \in Nat
    BY AdmissionAssumption, NatProduct DEF Bucket
  <1>2. /\ filled \in Nat /\ filled <= cap
        /\ filled <= b.tokens + rate * (now - b.at)
        /\ left = IF Allows(b, burst, rate) THEN filled - Cost ELSE filled
    BY FilledBounds
  <1>3. n * Cost \in Nat /\ m * Cost \in Nat /\ (n + 1) * Cost = n * Cost + Cost
    BY <1>1, NatProduct, OneMore
  <1>4. Span(s, now) \in Nat /\ Span(s, b.at) \in Nat
    BY <1>1 DEF Span
  <1>5. rate * Span(s, now) \in Nat /\ rate * Span(s, b.at) \in Nat
    BY <1>4, NatProduct
  <1>6. n * Cost + filled <= cap + rate * Span(s, now)
    <2>1. CASE b.at < s
      <3>1. n * Cost = 0
        BY <1>1, <2>1
      <3> HIDE DEF cap, filled
      <3>2. QED
        BY <3>1, <1>1, <1>2, <1>5
    <2>2. CASE s <= b.at
      <3>1. Span(s, b.at) = b.at - s /\ Span(s, now) = now - s
        BY <1>1, <2>2 DEF Span
      <3>2. /\ b.at - s \in Nat /\ now - s \in Nat /\ b.at - s <= now - s
            /\ (now - s) - (b.at - s) = now - b.at
        BY <1>1, <2>2
      <3>3. rate * (b.at - s) + rate * (now - b.at) = rate * (now - s)
        BY <3>2, Split
      <3>4. rate * (now - b.at) \in Nat
        BY <1>1, NatProduct
      <3>5. n * Cost + b.tokens <= cap + rate * (b.at - s)
        BY <3>1
      <3>6. rate * (b.at - s) \in Nat /\ rate * (now - s) \in Nat
        BY <1>5, <3>1
      <3>7. QED
        <4> DEFINE x == rate * (b.at - s)
                   y == rate * (now - b.at)
                   z == rate * (now - s)
                   w == n * Cost
        <4>1. /\ w \in Nat /\ x \in Nat /\ y \in Nat /\ z \in Nat
              /\ w + b.tokens <= cap + x /\ x + y = z /\ filled <= b.tokens + y
          BY <1>2, <1>3, <3>3, <3>4, <3>5, <3>6
        <4> HIDE DEF x, y, z, w, cap, filled
        <4>2. w + filled <= cap + z
          BY <4>1, <1>1, <1>2
        <4>3. QED
          BY <4>2, <3>1 DEF w, z
    <2>3. QED
      BY <1>1, <2>1, <2>2
  <1>7. CASE m <= n
    <2>1. m * Cost <= n * Cost
      <3>1. Cost * m <= Cost * n /\ Cost * m = m * Cost /\ Cost * n = n * Cost
        BY <1>1, <1>7, Monotone
      <3>2. QED
        BY <3>1
    <2>2. left <= filled /\ left \in Int
      BY <1>1, <1>2
    <2> HIDE DEF cap, filled, left
    <2>3. QED
      <3>1. m * Cost + left <= cap + rate * Span(s, now)
        BY <2>1, <2>2, <1>1, <1>2, <1>3, <1>5, <1>6
      <3>2. QED
        BY <3>1 DEF cap, left
  <1>8. CASE m = n + 1 /\ Allows(b, burst, rate)
    <2>1. left = filled - Cost /\ m * Cost = n * Cost + Cost
      BY <1>2, <1>3, <1>8
    <2> HIDE DEF cap, filled, left
    <2>2. m * Cost + left <= cap + rate * Span(s, now)
      BY <2>1, <1>1, <1>2, <1>3, <1>5, <1>6
    <2>3. QED
      BY <2>2 DEF cap, left
  <1>9. QED
    BY <1>7, <1>8

\* Since is finite with the cache.
LEMMA SinceFinite ==
  ASSUME NEW h, NEW s, IsFiniteSet(accepted)
  PROVE  IsFiniteSet(Since(h, s)) /\ Cardinality(Since(h, s)) \in Nat
  <1>1. Since(h, s) \in SUBSET accepted
    BY DEF Since
  <1>2. IsFiniteSet(Since(h, s))
    BY <1>1, FS_Subset
  <1>3. QED
    BY <1>2, FS_CardinalityType

\* After verify the cache of a hotkey holds at most the entries that were there
\* and, if allow let it through, the one that is made now.
LEMMA WindowAdmit ==
  ASSUME AdmCore, WindowInv, CacheBounded, NEW c \in Conn, VerifyAdmit(c)
  PROVE  WindowInv' /\ CacheBounded'
  <1> DEFINE h == req[c].id.hotkey
             entry == [id |-> req[c].id, at |-> now]
             after == Charged(authBucket[h], AuthBurst, AuthRate)
  <1>1. /\ Cost \in Nat /\ MaxAge \in Nat /\ MaxTime \in Nat
        /\ AuthBurst \in Nat \ {0} /\ AuthRate \in Nat \ {0}
        /\ AuthBurst * Cost \in Nat
    BY AdmissionAssumption, NatProduct
  <1>2. /\ h \in Hotkey /\ now \in Nat /\ now' = now
        /\ authBucket' = [authBucket EXCEPT ![h] = after]
        /\ entry.id.hotkey = h /\ entry.at = now
        /\ \/ accepted' \subseteq accepted
           \/ /\ Allows(authBucket[h], AuthBurst, AuthRate)
              /\ accepted' = Retained \cup {entry}
    BY AdmitEffect DEF Retained
  <1>3. \A j \in Hotkey : authBucket[j] \in Bucket(AuthBurst) /\ authBucket[j].at <= now
    BY DEF AdmCore, AdmTypeOK, AuthRateInv
  <1>4. authBucket'[h] = after /\ \A j \in Hotkey : j # h => authBucket'[j] = authBucket[j]
    BY <1>2 DEF AdmCore, AdmTypeOK
  <1>5. after.at = now
    BY <1>1, <1>2, <1>3, FilledBounds
  <1>6. accepted \subseteq [id : Identity, at : Nat]
    BY DEF AdmCore, AdmTypeOK
  <1>7. Retained \subseteq accepted
    BY DEF Retained
  <1>8. IsFiniteSet(accepted) /\ IsFiniteSet(accepted')
    <2>1. IsFiniteSet(accepted)
      BY DEF WindowInv
    <2>2. IsFiniteSet(Retained \cup {entry})
      BY <2>1, <1>7, FS_Subset, FS_AddElement
    <2>3. accepted' \subseteq accepted => IsFiniteSet(accepted')
      BY <2>1, FS_Subset
    <2>4. QED
      BY <1>2, <2>1, <2>2, <2>3
  <1> HIDE DEF entry, after
  <1>9. \A e \in accepted' : e.at <= authBucket'[e.id.hotkey].at
    <2>1. ASSUME NEW e \in accepted
          PROVE  e.at <= authBucket'[e.id.hotkey].at
      <3>1. e.at \in Nat /\ e.id.hotkey \in Hotkey /\ e.at <= authBucket[e.id.hotkey].at
        BY <1>6 DEF WindowInv, Identity
      <3>2. authBucket[e.id.hotkey].at <= now /\ authBucket[e.id.hotkey].at \in Nat
        BY <3>1, <1>3 DEF Bucket
      <3>3. QED
        BY <3>1, <3>2, <1>2, <1>4, <1>5
    <2>2. entry.at <= authBucket'[entry.id.hotkey].at
      BY <1>2, <1>4, <1>5
    <2>3. QED
      BY <2>1, <2>2, <1>2, <1>7
  <1> DEFINE after_since(j, s) == {e \in accepted' : e.id.hotkey = j /\ e.at >= s}
  <1>10. ASSUME NEW j \in Hotkey, NEW s \in Nat
         PROVE  Cardinality(after_since(j, s)) * Cost + authBucket'[j].tokens
                  <= AuthBurst * Cost + AuthRate * Span(s, authBucket'[j].at)
    <2> DEFINE n == Cardinality(Since(j, s))
               m == Cardinality(after_since(j, s))
               fits == n * Cost + authBucket[j].tokens
                         <= AuthBurst * Cost + AuthRate * Span(s, authBucket[j].at)
    <2>1. /\ n \in Nat /\ IsFiniteSet(Since(j, s))
          /\ fits
      BY <1>8, SinceFinite DEF WindowInv
    <2>2. m \in Nat
      <3>1. after_since(j, s) \in SUBSET accepted'
        OBVIOUS
      <3>2. QED
        BY <3>1, <1>8, FS_Subset, FS_CardinalityType
    <2>3. ASSUME after_since(j, s) \subseteq Since(j, s)
          PROVE  m <= n
      BY <2>3, <2>1, FS_Subset
    <2>4. ASSUME j # h
          PROVE  after_since(j, s) \subseteq Since(j, s)
      BY <2>4, <1>2, <1>7 DEF Since
    <2>5. CASE j # h
      <3>1. m <= n /\ authBucket'[j] = authBucket[j]
        BY <2>3, <2>4, <2>5, <1>4
      <3>2. authBucket[j].tokens \in Nat /\ authBucket[j].at \in Nat
        BY <1>1, <1>3 DEF Bucket
      <3>3. m * Cost <= n * Cost /\ m * Cost \in Nat /\ n * Cost \in Nat
        <4>1. Cost * m <= Cost * n /\ Cost * m = m * Cost /\ Cost * n = n * Cost
          BY <1>1, <2>1, <2>2, <3>1, Monotone
        <4>2. QED
          BY <4>1, <1>1, <2>1, <2>2, NatProduct
      <3>4. AuthRate * Span(s, authBucket[j].at) \in Nat
        BY <1>1, <3>2, NatProduct DEF Span
      <3> DEFINE x == AuthRate * Span(s, authBucket[j].at)
                 y == AuthBurst * Cost
                 p == m * Cost
                 q == n * Cost
      <3>5. /\ p <= q /\ p \in Nat /\ q \in Nat /\ x \in Nat /\ y \in Nat
            /\ q + authBucket[j].tokens <= y + x
        BY <1>1, <2>1, <3>3, <3>4
      <3> HIDE DEF x, y, p, q
      <3>6. p + authBucket[j].tokens <= y + x
        BY <3>2, <3>5
      <3>7. QED
        BY <3>1, <3>6 DEF x, y, p
    <2>6. CASE j = h
      <3>1. ASSUME ~(m <= n)
            PROVE  m = n + 1 /\ s <= now /\ Allows(authBucket[h], AuthBurst, AuthRate)
        <4>1. ~(after_since(j, s) \subseteq Since(j, s))
          BY <2>3, <3>1
        <4>2. accepted' = Retained \cup {entry} /\ Allows(authBucket[h], AuthBurst, AuthRate)
          BY <4>1, <1>2 DEF Since
        <4>3. entry.at >= s
          BY <4>1, <4>2, <1>7 DEF Since
        <4>4. after_since(j, s) \subseteq Since(j, s) \cup {entry}
          BY <4>2, <1>7 DEF Since
        <4>5. /\ IsFiniteSet(Since(j, s) \cup {entry})
              /\ Cardinality(Since(j, s) \cup {entry}) <= n + 1
          <5>1. /\ IsFiniteSet(Since(j, s) \cup {entry})
                /\ Cardinality(Since(j, s) \cup {entry})
                     = IF entry \in Since(j, s) THEN n ELSE n + 1
            BY <2>1, FS_AddElement
          <5> HIDE DEF n
          <5>2. QED
            BY <2>1, <5>1
        <4>6. m <= Cardinality(Since(j, s) \cup {entry})
          BY <4>4, <4>5, FS_Subset
        <4>7. Cardinality(Since(j, s) \cup {entry}) \in Nat
          BY <4>5, FS_CardinalityType
        <4>8. m = n + 1
          BY <2>1, <2>2, <3>1, <4>5, <4>6, <4>7
        <4>9. QED
          BY <4>2, <4>3, <4>8, <1>2
      <3>2. authBucket[h].at < s => n = 0
        <4>1. ASSUME authBucket[h].at < s
              PROVE  Since(j, s) = {}
          <5> SUFFICES ASSUME NEW e \in Since(j, s) PROVE FALSE
            OBVIOUS
          <5>1. e.at \in Nat /\ e.at <= authBucket[h].at /\ e.at >= s
            BY <2>6, <1>6 DEF Since, WindowInv
          <5>2. authBucket[h].at \in Nat
            BY <1>1, <1>2, <1>3 DEF Bucket
          <5>3. QED
            BY <4>1, <5>1, <5>2
        <4>2. QED
          BY <4>1, FS_EmptySet
      <3>3. authBucket[h] \in Bucket(AuthBurst) /\ authBucket[h].at <= now
        BY <1>2, <1>3
      <3> HIDE DEF m, n
      <3>4. m * Cost + Charged(authBucket[h], AuthBurst, AuthRate).tokens
              <= AuthBurst * Cost + AuthRate * Span(s, now)
        BY <1>1, <1>2, <2>1, <2>2, <2>6, <3>1, <3>2, <3>3, SpanStep
      <3>5. QED
        BY <3>4, <2>6, <1>4, <1>5 DEF m, after
    <2>7. QED
      BY <2>5, <2>6
  <1>11. WindowInv'
    BY <1>8, <1>9, <1>10 DEF WindowInv, Since
  <1>12. CacheBounded'
    <2> DEFINE old(j) == {e \in accepted : e.id.hotkey = j}
               new(j) == {e \in accepted' : e.id.hotkey = j}
    <2> SUFFICES ASSUME NEW j \in Hotkey
                 PROVE  Cardinality(new(j)) * Cost <= AuthBurst * Cost + AuthRate * MaxAge
      BY DEF CacheBounded
    <2>1. IsFiniteSet(old(j)) /\ IsFiniteSet(new(j))
      <3>1. old(j) \in SUBSET accepted /\ new(j) \in SUBSET accepted'
        OBVIOUS
      <3>2. QED
        BY <3>1, <1>8, FS_Subset
    <2>2. Cardinality(old(j)) \in Nat /\ Cardinality(new(j)) \in Nat
      BY <2>1, FS_CardinalityType
    <2>3. AuthRate * MaxAge \in Nat
      BY <1>1, NatProduct
    <2>4. CASE new(j) \subseteq old(j)
      <3>1. Cardinality(new(j)) <= Cardinality(old(j))
        BY <2>1, <2>4, FS_Subset
      <3>2. Cardinality(new(j)) * Cost <= Cardinality(old(j)) * Cost
        <4> HIDE DEF old, new
        <4>1. /\ Cost * Cardinality(new(j)) <= Cost * Cardinality(old(j))
              /\ Cost * Cardinality(new(j)) = Cardinality(new(j)) * Cost
              /\ Cost * Cardinality(old(j)) = Cardinality(old(j)) * Cost
          BY <1>1, <2>2, <3>1, Monotone
        <4>2. QED
          BY <4>1
      <3>3. Cardinality(old(j)) * Cost <= AuthBurst * Cost + AuthRate * MaxAge
        BY DEF CacheBounded
      <3>4. /\ Cardinality(new(j)) * Cost \in Nat /\ Cardinality(old(j)) * Cost \in Nat
        BY <1>1, <2>2, NatProduct
      <3> HIDE DEF old, new
      <3>5. QED
        BY <3>2, <3>3, <3>4, <1>1, <2>3
    <2>5. CASE ~(new(j) \subseteq old(j))
      <3>1. j = h /\ accepted' = Retained \cup {entry}
        BY <2>5, <1>2, <1>7
      <3> DEFINE s == IF MaxAge <= now THEN now - MaxAge ELSE 0
      <3>2. s \in Nat /\ Span(s, now) \in Nat /\ Span(s, now) <= MaxAge
        BY <1>1, <1>2 DEF Span
      <3>3. \A e \in accepted' : e.at >= s
        <4>1. \A e \in Retained : e.at \in Nat /\ ~(e.at < now - MaxAge)
          BY <1>6 DEF Retained
        <4>2. entry.at >= s
          BY <1>1, <1>2
        <4>3. QED
          BY <3>1, <4>1, <4>2, <1>1, <1>2
      <3>4. new(j) = after_since(j, s)
        BY <3>3
      <3>5. authBucket'[j].at = now /\ authBucket'[j].tokens \in Nat
        <4>1. after.tokens \in Nat
          <5>1. /\ authBucket[h] \in Bucket(AuthBurst) /\ authBucket[h].at <= now
                /\ Filled(authBucket[h], AuthBurst, AuthRate) \in Nat
            BY <1>1, <1>2, <1>3, FilledBounds
          <5>2. QED
            BY <5>1, <1>1 DEF after, Charged
        <4>2. QED
          BY <4>1, <3>1, <1>4, <1>5
      <3>6. Cardinality(new(j)) * Cost + authBucket'[j].tokens
              <= AuthBurst * Cost + AuthRate * Span(s, now)
        BY <3>2, <3>4, <3>5, <1>10
      <3>7. AuthRate * Span(s, now) <= AuthRate * MaxAge /\ AuthRate * Span(s, now) \in Nat
        BY <1>1, <3>2, Monotone, NatProduct
      <3>8. Cardinality(new(j)) * Cost \in Nat
        BY <1>1, <2>2, NatProduct
      <3> HIDE DEF new, s
      <3>9. QED
        BY <3>5, <3>6, <3>7, <3>8, <1>1, <2>3
    <2>6. QED
      BY <2>4, <2>5
  <1>13. QED
    BY <1>11, <1>12

LEMMA WindowStep ==
  AdmCore /\ WindowInv /\ CacheBounded /\ [AdmNext]_admVars => WindowInv' /\ CacheBounded'
  <1> SUFFICES ASSUME AdmCore, WindowInv, CacheBounded, [AdmNext]_admVars
               PROVE  WindowInv' /\ CacheBounded'
    OBVIOUS
  <1>1. ASSUME NEW c \in Conn, VerifyAdmit(c) PROVE WindowInv' /\ CacheBounded'
    BY <1>1, WindowAdmit
  <1>2. CASE UNCHANGED <<authBucket, accepted>>
    BY <1>2 DEF WindowInv, Since, CacheBounded
  <1>3. AdvanceClock => UNCHANGED <<authBucket, accepted>>
    BY DEF AdvanceClock
  <1>4. QED
    BY <1>1, <1>2, <1>3, StepKinds

-----------------------------------------------------------------------------
\* The theorems

LEMMA AdmStart == AdmInit => AdmInd
  <1> SUFFICES ASSUME AdmInit PROVE AdmInd
    OBVIOUS
  <1>1. AdmCore
    BY AdmInitInd
  <1>2. LogInv
    BY DEF AdmInit, LogInv
  <1>3. /\ Cost \in Nat /\ AuthBurst \in Nat /\ AuthRate \in Nat /\ MaxAge \in Nat
        /\ AuthBurst * Cost \in Nat /\ AuthRate * MaxAge \in Nat
    BY AdmissionAssumption, NatProduct
  <1>4. accepted = {} /\ \A h \in Hotkey : authBucket[h] = [tokens |-> AuthBurst * Cost, at |-> 0]
    BY DEF AdmInit
  <1>5. /\ IsFiniteSet(accepted)
        /\ \A h : {e \in accepted : e.id.hotkey = h} = {}
        /\ \A h, s : Since(h, s) = {}
    BY <1>4, FS_EmptySet DEF Since
  <1>6. CacheBounded
    <2> SUFFICES ASSUME NEW h \in Hotkey
                 PROVE  Cardinality({e \in accepted : e.id.hotkey = h}) * Cost
                          <= AuthBurst * Cost + AuthRate * MaxAge
      BY DEF CacheBounded
    <2>1. Cardinality({e \in accepted : e.id.hotkey = h}) = 0
      BY <1>5, FS_EmptySet
    <2>2. QED
      BY <2>1, <1>3
  <1>7. WindowInv
    <2>1. ASSUME NEW h \in Hotkey, NEW s \in Nat
          PROVE  Cardinality(Since(h, s)) * Cost + authBucket[h].tokens
                   <= AuthBurst * Cost + AuthRate * Span(s, authBucket[h].at)
      <3>1. Cardinality(Since(h, s)) = 0
        BY <1>5, FS_EmptySet
      <3>2. authBucket[h].tokens = AuthBurst * Cost /\ Span(s, authBucket[h].at) \in Nat
        BY <1>4 DEF Span
      <3>3. AuthRate * Span(s, authBucket[h].at) \in Nat
        BY <1>3, <3>2, NatProduct
      <3>4. QED
        BY <3>1, <3>2, <3>3, <1>3
    <2>2. QED
      BY <1>4, <1>5, <2>1 DEF WindowInv
  <1>8. QED
    BY <1>1, <1>2, <1>6, <1>7 DEF AdmInd

LEMMA AdmInductive == AdmSpec => []AdmInd
  <1>1. AdmInd /\ [AdmNext]_admVars => AdmInd'
    BY AdmCoreStep, LogStep, WindowStep DEF AdmInd
  <1>2. QED
    BY <1>1, AdmStart, PTL DEF AdmSpec

\* TokenBucketLimiter.allow keeps every bucket between zero and its burst, and
\* the verifier's state stays in its domain.
THEOREM AdmissionTypeCorrect == AdmSpec => []AdmTypeOK
  <1>1. AdmInd => AdmTypeOK
    BY DEF AdmInd, AdmCore
  <1>2. QED
    BY <1>1, AdmInductive, PTL

\* For every burst, rate and arrival pattern, neither limiter ever lets through
\* more than its burst and what its rate has granted.
THEOREM RateNeverExceeded == AdmSpec => []RateBound
  <1>1. AdmInd => RateBound
    <2> SUFFICES ASSUME AdmInd PROVE RateBound
      OBVIOUS
    <2>1. /\ Cost \in Nat /\ HttpBurst \in Nat /\ HttpRate \in Nat /\ AuthBurst \in Nat
          /\ AuthRate \in Nat /\ MaxTime \in Nat
      BY AdmissionAssumption
    <2>2. now \in Nat /\ HttpBurst * Cost \in Nat /\ AuthBurst * Cost \in Nat
      BY <2>1, NatProduct DEF AdmInd, AdmCore, AdmTypeOK
    <2>3. ASSUME NEW k \in IP
          PROVE  passed[k] * Cost <= HttpBurst * Cost + HttpRate * now
      <3>1. /\ httpBucket[k].at \in Nat /\ httpBucket[k].tokens \in Nat /\ passed[k] \in Nat
            /\ httpBucket[k].at <= now
            /\ passed[k] * Cost + httpBucket[k].tokens
                 <= HttpBurst * Cost + HttpRate * httpBucket[k].at
        BY <2>2 DEF AdmInd, AdmCore, AdmTypeOK, Bucket, HttpRateInv
      <3>2. HttpRate * httpBucket[k].at <= HttpRate * now
        BY <2>1, <2>2, <3>1, Monotone
      <3>3. /\ passed[k] * Cost \in Nat
            /\ HttpRate * httpBucket[k].at \in Nat /\ HttpRate * now \in Nat
        BY <2>1, <2>2, <3>1, NatProduct
      <3>4. QED
        BY <2>2, <3>1, <3>2, <3>3
    <2>4. ASSUME NEW h \in Hotkey
          PROVE  admitted[h] * Cost <= AuthBurst * Cost + AuthRate * now
      <3>1. /\ authBucket[h].at \in Nat /\ authBucket[h].tokens \in Nat /\ admitted[h] \in Nat
            /\ authBucket[h].at <= now
            /\ admitted[h] * Cost + authBucket[h].tokens
                 <= AuthBurst * Cost + AuthRate * authBucket[h].at
        BY <2>2 DEF AdmInd, AdmCore, AdmTypeOK, Bucket, AuthRateInv
      <3>2. AuthRate * authBucket[h].at <= AuthRate * now
        BY <2>1, <2>2, <3>1, Monotone
      <3>3. /\ admitted[h] * Cost \in Nat
            /\ AuthRate * authBucket[h].at \in Nat /\ AuthRate * now \in Nat
        BY <2>1, <2>2, <3>1, NatProduct
      <3>4. QED
        BY <2>2, <3>1, <3>2, <3>3
    <2>5. QED
      BY <2>3, <2>4 DEF RateBound
  <1>2. QED
    BY <1>1, AdmInductive, PTL

\* verify's eviction, which follows the time of acceptance while freshness
\* follows the nonce, never drops an entry that could still be replayed unless
\* its nonce was ahead of the miner's clock.
THEOREM ReplayAlwaysCovered == AdmSpec => []ReplayCovered
  <1>1. AdmInd => ReplayCovered
    <2> SUFFICES ASSUME AdmInd, NEW e \in log, e.id.nonce <= e.at, Fresh(e.id)
                 PROVE  \E a \in accepted : a.id = e.id
      BY DEF ReplayCovered
    <2>1. MaxAge \in Nat /\ MaxTime \in Nat
      BY AdmissionAssumption
    <2>2. e.at \in Nat /\ e.id \in Identity /\ e.id.nonce \in Int /\ now \in Nat
      BY <2>1 DEF AdmInd, AdmCore, AdmTypeOK, Identity
    <2>3. now - e.id.nonce <= MaxAge
      BY DEF Fresh, Age
    <2>4. ~(e.at < now - MaxAge)
      BY <2>1, <2>2, <2>3
    <2>5. QED
      BY <2>4 DEF AdmInd, LogInv
  <1>2. QED
    BY <1>1, AdmInductive, PTL

\* However long the miner runs, the replay cache of verify holds no more
\* entries of one hotkey than its bucket can grant in a burst and one window:
\* the eviction keeps up with every pattern of arrivals.
THEOREM CacheStaysBounded == AdmSpec => []CacheBounded
  <1>1. AdmInd => CacheBounded
    BY DEF AdmInd
  <1>2. QED
    BY <1>1, AdmInductive, PTL

\* verify and the SDK's nonce check together accept a request at most once.
THEOREM AcceptedOnce == AdmSpec => AcceptOnce
  <1> DEFINE Once == \A c \in Conn : pc[c] = "awaiting" /\ pc'[c] = "verified"
                                       => \A e \in log : e.id # req[c].id
  <1>1. AdmInd /\ [AdmNext]_admVars => [Once]_admVars
    <2> SUFFICES ASSUME AdmInd, AdmNext, NEW c \in Conn, pc[c] = "awaiting", pc'[c] = "verified",
                        NEW e \in log
                 PROVE  e.id # req[c].id
      OBVIOUS
    <2>1. ConnTypeOK
      BY ConnTyped DEF AdmInd, AdmCore
    <2>2. PICK d \in Conn : Handle(d)
      <3>1. ~AdvanceClock /\ ~\E h \in Hotkey, u \in Uuid : Sign(h, u)
        BY DEF AdvanceClock, Sign, connVars
      <3>2. QED
        BY <3>1 DEF AdmNext
    <2>3. VerifyAdmit(d)
      BY <2>1, <2>2 DEF Handle, Connect, ReceiveChunk, Disconnect, VerifyPolicy, SdkRejects,
                        Forward, Idle, ConnTypeOK, connVars
    <2>4. d = c
      BY <2>1, <2>3 DEF VerifyAdmit, Idle, ConnTypeOK
    <2>5. SdkAccepts(req[c]) /\ e.id \in sdkSeen
      BY <2>3, <2>4 DEF VerifyAdmit, AdmInd, LogInv
    <2>6. req[c].id.nonce \in Int
      BY DEF AdmInd, AdmCore, ReqInv, Request, Identity
    <2>7. QED
      BY <2>5, <2>6 DEF SdkAccepts
  <1>2. QED
    BY <1>1, AdmInductive, PTL DEF AdmSpec, AcceptOnce

\* What validator_blacklist lets through to forward was signed, as it stands,
\* by a configured validator.
THEOREM ServedAuthentic == AdmSpec => []ServedIsAuthentic
  <1>1. AdmInd => ServedIsAuthentic
    BY DEF AdmInd, AdmCore
  <1>2. QED
    BY <1>1, AdmInductive, PTL

\* RequestAdmissionMiddleware hands the SDK only whole bodies within the cap.
THEOREM BodyAlwaysWhole == AdmSpec => []WholeBody
  <1>1. AdmInd => WholeBody
    BY DEF AdmInd, AdmCore, BodyInv
  <1>2. QED
    BY <1>1, AdmInductive, PTL

-----------------------------------------------------------------------------
(***************************************************************************)
(* A validator that paces itself.  Requests may be held up by the network  *)
(* and in default_verify and then reach the bucket together, so the burst  *)
(* has to cover what a validator can sign while a nonce is good.  Grace is *)
(* how long default_verify may take beyond the window.                     *)
(***************************************************************************)

\* The bucket yields a token in the time between two requests, and the burst
\* covers the requests of one window.
PaceFits(Grace) ==
  /\ Pace # 0
  /\ Cost <= AuthRate * Pace
  /\ \A h \in Paced : 2 * Pace + Span(-(MaxAge + Grace), Skew[h]) <= AuthBurst * Pace

\* default_verify returns before the nonce is older than the window and Grace.
PromptVerify(Grace) ==
  \A c \in Conn : pc[c] = "awaiting" => Age(req[c].id) <= MaxAge + Grace

SignedBy(h) == {r.id : r \in {q \in signed : q.id.hotkey = h}}

Between(h, s, t) == {i \in SignedBy(h) : s <= i.nonce /\ i.nonce <= t}

\* The requests of h that may still ask for a token.
Owed(h, Grace) == {i \in SignedBy(h) : i \notin sdkSeen /\ Age(i) <= MaxAge + Grace}

\* Nonces are the validator's clock, and a paced one leaves Pace between them.
SpacingInv ==
  /\ IsFiniteSet(signed)
  /\ \A r \in signed : r.id.nonce <= now + Skew[r.id.hotkey]
  /\ \A h \in Paced, s \in Int, t \in Int :
       Cardinality(Between(h, s, t)) * Pace <= Span(s, t) + Pace

Held(h) == Filled(authBucket[h], AuthBurst, AuthRate)

\* The bucket of a paced hotkey holds a token for every request that may still
\* ask for one, and a further one or what has come in since a request was signed.
TokensInv(Grace) ==
  \A h \in Paced :
    LET owed == Cardinality(Owed(h, Grace)) * Cost
    IN  \/ owed + Cost <= Held(h)
        \/ \E r \in signed :
             r.id.hotkey = h /\ owed + AuthRate * (now + Skew[h] - r.id.nonce) <= Held(h)

PacedInv(Grace) ==
  /\ SpacingInv
  /\ TokensInv(Grace)
  /\ PacedNeverRefused

LEMMA SignedFinite ==
  ASSUME NEW h, IsFiniteSet(signed)
  PROVE  IsFiniteSet(SignedBy(h))
  <1> DEFINE mine == {q \in signed : q.id.hotkey = h}
  <1>1. mine \in SUBSET signed
    OBVIOUS
  <1>2. IsFiniteSet(mine)
    BY <1>1, FS_Subset
  <1>3. [r \in mine |-> r.id] \in Surjection(mine, SignedBy(h))
    BY DEF Surjection, SignedBy
  <1>4. QED
    BY <1>2, <1>3, FS_Surjection

\* What is signed is in the domain of identities.
LEMMA SignedTyped ==
  ASSUME AdmCore, NEW h
  PROVE  SignedBy(h) \subseteq {i \in Identity : i.hotkey = h}
  BY DEF AdmCore, AdmTypeOK, Request, SignedBy

LEMMA OwedFinite ==
  ASSUME NEW h, NEW Grace, IsFiniteSet(signed)
  PROVE  IsFiniteSet(Owed(h, Grace)) /\ Cardinality(Owed(h, Grace)) \in Nat
  <1>1. Owed(h, Grace) \in SUBSET SignedBy(h)
    BY DEF Owed
  <1>2. IsFiniteSet(Owed(h, Grace))
    BY <1>1, SignedFinite, FS_Subset
  <1>3. QED
    BY <1>2, FS_CardinalityType

LEMMA BetweenFinite ==
  ASSUME NEW h, NEW s, NEW t, IsFiniteSet(signed)
  PROVE  IsFiniteSet(Between(h, s, t)) /\ Cardinality(Between(h, s, t)) \in Nat
  <1>1. Between(h, s, t) \in SUBSET SignedBy(h)
    BY DEF Between
  <1>2. IsFiniteSet(Between(h, s, t))
    BY <1>1, SignedFinite, FS_Subset
  <1>3. QED
    BY <1>2, FS_CardinalityType

\* A smaller product has a smaller factor.
LEMMA FewerThan ==
  ASSUME NEW n \in Nat, NEW m \in Nat, NEW p \in Nat \ {0}, n * p + p <= m * p
  PROVE  n + 1 <= m
  <1>1. SUFFICES ASSUME m <= n PROVE FALSE
    OBVIOUS
  <1>2. p * m <= p * n
    BY <1>1, Monotone
  <1>3. m * p = p * m /\ n * p = p * n /\ p * m \in Nat /\ p * n \in Nat
    BY NatProduct
  <1>4. QED
    BY <1>2, <1>3

\* The burst covers one request more than those that may ask for a token.
LEMMA OwedBound ==
  ASSUME AdmCore, SpacingInv, NEW Grace \in Nat, PaceFits(Grace), NEW h \in Paced
  PROVE  Cardinality(Owed(h, Grace)) * Cost + Cost <= AuthBurst * Cost
  <1> DEFINE s == now - (MaxAge + Grace)
             t == now + Skew[h]
             n == Cardinality(Owed(h, Grace))
             m == Cardinality(Between(h, s, t))
  <1>1. /\ now \in Nat /\ MaxAge \in Nat /\ Pace \in Nat \ {0} /\ h \in Hotkey
        /\ Skew[h] \in Int /\ AuthBurst \in Nat /\ Cost \in Nat
    BY AdmissionAssumption DEF AdmCore, AdmTypeOK, PaceFits
  <1>2. s \in Int /\ t \in Int
    BY <1>1
  <1>3. Owed(h, Grace) \subseteq Between(h, s, t)
    <2>1. SUFFICES ASSUME NEW i \in Owed(h, Grace) PROVE i \in Between(h, s, t)
      OBVIOUS
    <2>2. i \in SignedBy(h) /\ Age(i) <= MaxAge + Grace
      BY DEF Owed
    <2>3. PICK r \in signed : r.id = i /\ r.id.hotkey = h
      BY <2>2 DEF SignedBy
    <2>4. i.nonce \in Int
      BY <2>2, SignedTyped DEF Identity
    <2>5. i.nonce <= t
      BY <2>3 DEF SpacingInv
    <2>6. s <= i.nonce
      BY <2>2, <2>4, <1>1 DEF Age
    <2>7. QED
      BY <2>2, <2>5, <2>6 DEF Between
  <1>4. n \in Nat /\ m \in Nat /\ n <= m
    <2>1. IsFiniteSet(signed)
      BY DEF SpacingInv
    <2>2. QED
      BY <2>1, <1>3, OwedFinite, BetweenFinite, FS_Subset
  <1>5. m * Pace <= Span(s, t) + Pace
    BY <1>2 DEF SpacingInv
  <1>6. Span(s, t) = Span(-(MaxAge + Grace), Skew[h]) /\ Span(s, t) \in Nat
    BY <1>1 DEF Span
  <1>7. 2 * Pace + Span(s, t) <= AuthBurst * Pace
    BY <1>6 DEF PaceFits
  <1> HIDE DEF n, m, s, t
  <1>8. n * Pace <= m * Pace
    <2>1. Pace * n <= Pace * m
      BY <1>1, <1>4, Monotone
    <2>2. n * Pace = Pace * n /\ m * Pace = Pace * m
      BY <1>1, <1>4
    <2>3. QED
      BY <2>1, <2>2
  <1>9. n + 1 <= AuthBurst
    <2>1. n * Pace \in Nat /\ m * Pace \in Nat /\ AuthBurst * Pace \in Nat
      BY <1>1, <1>4, NatProduct
    <2>2. n * Pace + Pace <= AuthBurst * Pace
      BY <1>1, <1>5, <1>6, <1>7, <1>8, <2>1
    <2>3. QED
      BY <1>1, <1>4, <2>2, FewerThan
  <1>10. Cost * (n + 1) <= Cost * AuthBurst
    BY <1>1, <1>4, <1>9, Monotone
  <1>11. (n + 1) * Cost = n * Cost + Cost /\ Cost * (n + 1) = (n + 1) * Cost
         /\ Cost * AuthBurst = AuthBurst * Cost
    BY <1>1, <1>4, OneMore
  <1>12. n * Cost + Cost <= AuthBurst * Cost
    BY <1>10, <1>11
  <1>13. QED
    BY <1>12 DEF n

\* Only the clock, Sign and the end of verify bear on a paced hotkey's tokens.
LEMMA PacedKinds ==
  ASSUME [AdmNext]_admVars
  PROVE  \/ AdvanceClock
         \/ \E h \in Hotkey, u \in Uuid : Sign(h, u)
         \/ \E c \in Conn : VerifyAdmit(c)
         \/ UNCHANGED <<now, signed, authBucket, sdkSeen, refused>>
  <1>1. ASSUME NEW c \in Conn, Handle(c), ~VerifyAdmit(c)
        PROVE  UNCHANGED <<now, signed, authBucket, sdkSeen, refused>>
    BY <1>1 DEF Handle, Connect, ReceiveChunk, Disconnect, VerifyPolicy, SdkRejects, Forward,
                history
  <1>2. UNCHANGED admVars => UNCHANGED <<now, signed, authBucket, sdkSeen, refused>>
    BY DEF admVars, history
  <1>3. QED
    BY <1>1, <1>2 DEF AdmNext

\* A request signed now comes at least Pace after the last one, so it and the
\* requests of any earlier interval are no more than the pace allows.
LEMMA SpacingSign ==
  ASSUME AdmCore, SpacingInv, Pace # 0,
         NEW h \in Hotkey, NEW u \in Uuid, Sign(h, u)
  PROVE  SpacingInv'
  <1> DEFINE n == now + Skew[h]
             id == [hotkey |-> h, uuid |-> u, nonce |-> n]
             new == [id |-> id, policy |-> TRUE, genuine |-> TRUE]
  <1>1. /\ signed' = signed \cup {new} /\ now' = now
        /\ h \in Paced => \A r \in signed : r.id.hotkey = h => n >= r.id.nonce + Pace
    BY DEF Sign
  <1>2. /\ now \in Nat /\ Pace \in Nat \ {0} /\ n \in Int
        /\ id.hotkey = h /\ id.nonce = n /\ new.id = id
    BY AdmissionAssumption DEF AdmCore, AdmTypeOK
  <1> HIDE DEF new, id, n
  <1>3. IsFiniteSet(signed) /\ IsFiniteSet(signed')
    BY <1>1, FS_AddElement DEF SpacingInv
  <1>4. \A r \in signed' : r.id.nonce <= now' + Skew[r.id.hotkey]
    BY <1>1, <1>2 DEF SpacingInv, n
  <1>5. \A j : SignedBy(j)' = IF j = h THEN SignedBy(j) \cup {id} ELSE SignedBy(j)
    BY <1>1, <1>2 DEF SignedBy
  <1>6. ASSUME NEW j \in Paced, NEW s \in Int, NEW t \in Int
        PROVE  Cardinality(Between(j, s, t)') * Pace <= Span(s, t) + Pace
    <2>1. \A a, b \in Int : Cardinality(Between(j, a, b)) * Pace <= Span(a, b) + Pace
      BY DEF SpacingInv
    <2>2. CASE j # h \/ n < s \/ t < n
      <3>1. Between(j, s, t)' = Between(j, s, t)
        BY <1>2, <1>5, <2>2 DEF Between
      <3>2. QED
        BY <2>1, <3>1
    <2>3. CASE j = h /\ s <= n /\ n <= t
      <3> DEFINE before == Between(j, s, n - Pace)
                 m == Cardinality(before)
      <3>1. \A i \in SignedBy(j) : i.nonce \in Int /\ i.nonce <= n - Pace
        <4>1. SUFFICES ASSUME NEW i \in SignedBy(j) PROVE i.nonce \in Int /\ i.nonce <= n - Pace
          OBVIOUS
        <4>2. i.nonce \in Int
          BY SignedTyped DEF Identity
        <4>3. PICK r \in signed : r.id = i /\ r.id.hotkey = j
          BY DEF SignedBy
        <4>4. QED
          BY <1>1, <1>2, <2>3, <4>2, <4>3
      <3>2. Between(j, s, t)' = before \cup {id}
        BY <1>2, <1>5, <2>3, <3>1 DEF Between
      <3>3. id \notin before
        BY <1>2 DEF Between
      <3>4. IsFiniteSet(before) /\ m \in Nat
        BY <1>3, BetweenFinite
      <3>5. Cardinality(Between(j, s, t)') = m + 1
        BY <3>2, <3>3, <3>4, FS_AddElement
      <3>6. m * Pace <= Span(s, n - Pace) + Pace
        BY <1>2, <2>1
      <3>7. (m + 1) * Pace = m * Pace + Pace /\ m * Pace \in Nat
        BY <1>2, <3>4, OneMore, NatProduct
      <3>8. CASE s <= n - Pace
        BY <1>2, <2>3, <3>5, <3>6, <3>7, <3>8 DEF Span
      <3>9. CASE n - Pace < s
        <4>1. before = {}
          BY <1>2, <3>1, <3>9 DEF Between
        <4>2. m = 0
          BY <4>1, FS_EmptySet
        <4>3. QED
          BY <1>2, <2>3, <3>5, <3>7, <4>2 DEF Span
      <3>10. QED
        BY <1>2, <3>8, <3>9
    <2>4. QED
      BY <1>2, <2>2, <2>3
  <1>7. QED
    BY <1>3, <1>4, <1>6 DEF SpacingInv, Between

LEMMA SpacingStep ==
  ASSUME AdmCore, SpacingInv, Pace # 0, [AdmNext]_admVars
  PROVE  SpacingInv'
  <1>1. CASE AdvanceClock
    <2>1. now' = now + 1 /\ signed' = signed
      BY <1>1 DEF AdvanceClock
    <2>2. now \in Nat /\ \A r \in signed : r.id.nonce \in Int /\ Skew[r.id.hotkey] \in Int
      BY AdmissionAssumption DEF AdmCore, AdmTypeOK, Request, Identity
    <2>3. \A r \in signed : r.id.nonce <= now' + Skew[r.id.hotkey]
      BY <2>1, <2>2 DEF SpacingInv
    <2>4. QED
      BY <2>1, <2>3 DEF SpacingInv, Between, SignedBy
  <1>2. CASE UNCHANGED <<now, signed>>
    BY <1>2 DEF SpacingInv, Between, SignedBy
  <1>3. ASSUME NEW c \in Conn, VerifyAdmit(c) PROVE UNCHANGED <<now, signed>>
    BY <1>3 DEF VerifyAdmit
  <1>4. QED
    BY <1>1, <1>2, <1>3, SpacingSign, PacedKinds

\* Fewer requests need no more tokens.
LEMMA FewerOwed ==
  ASSUME NEW S, NEW T, IsFiniteSet(S), T \subseteq S
  PROVE  /\ IsFiniteSet(T)
         /\ Cardinality(S) * Cost \in Nat /\ Cardinality(T) * Cost \in Nat
         /\ Cardinality(T) * Cost <= Cardinality(S) * Cost
  <1> DEFINE m == Cardinality(S)
             n == Cardinality(T)
  <1>1. IsFiniteSet(T) /\ n <= m
    BY FS_Subset
  <1>2. n \in Nat /\ m \in Nat /\ Cost \in Nat
    BY <1>1, FS_CardinalityType, AdmissionAssumption
  <1> HIDE DEF m, n
  <1>3. Cost * n <= Cost * m
    BY <1>1, <1>2, Monotone
  <1>4. n * Cost = Cost * n /\ m * Cost = Cost * m /\ n * Cost \in Nat /\ m * Cost \in Nat
    BY <1>2, NatProduct
  <1>5. QED
    BY <1>1, <1>3, <1>4 DEF m, n

LEMMA HeldTyped ==
  ASSUME AdmCore, NEW h \in Hotkey
  PROVE  /\ authBucket[h] \in Bucket(AuthBurst) /\ authBucket[h].at <= now /\ now \in Nat
         /\ AuthBurst \in Nat \ {0} /\ AuthRate \in Nat \ {0} /\ Cost \in Nat \ {0}
         /\ Held(h) \in Nat
  <1>1. /\ AuthBurst \in Nat \ {0} /\ AuthRate \in Nat \ {0} /\ Cost \in Nat \ {0}
        /\ MaxTime \in Nat
    BY AdmissionAssumption
  <1>2. /\ authBucket[h] \in Bucket(AuthBurst) /\ authBucket[h].at <= now /\ now \in Nat
    BY <1>1 DEF AdmCore, AdmTypeOK, AuthRateInv
  <1>3. QED
    BY <1>1, <1>2, FilledBounds DEF Held

\* In one tick a bucket gains its rate, or is full.
LEMMA HeldTick ==
  ASSUME AdmCore, AdvanceClock, NEW h \in Hotkey
  PROVE  Held(h)' \in Nat /\ (Held(h)' = AuthBurst * Cost \/ Held(h) + AuthRate <= Held(h)')
  <1> DEFINE b == authBucket[h]
             cap == AuthBurst * Cost
             d == now - b.at
             x == AuthRate * d
             y == AuthRate * (d + 1)
  <1>1. /\ b \in Bucket(AuthBurst) /\ b.at <= now /\ now \in Nat
        /\ AuthBurst \in Nat /\ AuthRate \in Nat /\ Cost \in Nat
    BY HeldTyped
  <1>2. now' = now + 1 /\ authBucket' = authBucket
    BY DEF AdvanceClock
  <1>3. cap \in Nat
    BY <1>1, NatProduct
  <1>4. b.tokens \in Nat /\ b.at \in Nat
    BY <1>1, <1>3 DEF Bucket
  <1>5. d \in Nat /\ Later(b.at) = d /\ Later(b.at)' = d + 1
    BY <1>1, <1>2, <1>4 DEF Later
  <1>6. Held(h) = IF b.tokens + x < cap THEN b.tokens + x ELSE cap
    BY <1>5 DEF Held, Filled
  <1>7. Held(h)' = IF b.tokens + y < cap THEN b.tokens + y ELSE cap
    BY <1>2, <1>5 DEF Held, Filled
  <1> HIDE DEF d
  <1>8. x \in Nat /\ y = x + AuthRate
    BY <1>1, <1>5, NatProduct
  <1> HIDE DEF x, y, cap, b
  <1>9. QED
    BY <1>1, <1>3, <1>4, <1>6, <1>7, <1>8 DEF cap

LEMMA TokensTick ==
  ASSUME AdmCore, SpacingInv, NEW Grace \in Nat, PaceFits(Grace), TokensInv(Grace), AdvanceClock
  PROVE  TokensInv(Grace)'
  <1>1. SUFFICES ASSUME NEW h \in Paced
                 PROVE  \/ Cardinality(Owed(h, Grace)') * Cost + Cost <= Held(h)'
                        \/ \E r \in signed' :
                             /\ r.id.hotkey = h
                             /\ Cardinality(Owed(h, Grace)') * Cost
                                  + AuthRate * (now' + Skew[h] - r.id.nonce) <= Held(h)'
    BY DEF TokensInv, Held
  <1> DEFINE old == Cardinality(Owed(h, Grace)) * Cost
             new == Cardinality(Owed(h, Grace)') * Cost
  <1>2. /\ now' = now + 1 /\ UNCHANGED <<signed, sdkSeen>> /\ h \in Hotkey
        /\ Skew[h] \in Int /\ MaxAge \in Nat
    BY AdmissionAssumption DEF AdvanceClock
  <1>3. /\ now \in Nat /\ AuthBurst \in Nat /\ AuthRate \in Nat /\ Cost \in Nat
        /\ Held(h) \in Nat
    BY <1>2, HeldTyped
  <1>4. Owed(h, Grace)' \subseteq Owed(h, Grace)
    <2>1. \A i \in SignedBy(h) : i.nonce \in Int
      BY SignedTyped DEF Identity
    <2>2. QED
      BY <1>2, <1>3, <2>1 DEF Owed, SignedBy, Age
  <1>5. old \in Nat /\ new \in Nat /\ new <= old
    BY <1>4, OwedFinite, FewerOwed DEF SpacingInv
  <1>6. old + Cost <= AuthBurst * Cost /\ AuthBurst * Cost \in Nat
    BY <1>3, OwedBound, NatProduct
  <1>7. \/ old + Cost <= Held(h)
        \/ \E r \in signed :
             r.id.hotkey = h /\ old + AuthRate * (now + Skew[h] - r.id.nonce) <= Held(h)
    BY DEF TokensInv
  <1>8. Held(h)' \in Nat /\ (Held(h)' = AuthBurst * Cost \/ Held(h) + AuthRate <= Held(h)')
    BY <1>2, HeldTick
  <1> HIDE DEF old, new
  <1>9. CASE old + Cost <= Held(h) \/ Held(h)' = AuthBurst * Cost
    <2>1. new + Cost <= Held(h)'
      BY <1>3, <1>5, <1>6, <1>8, <1>9
    <2>2. QED
      BY <2>1 DEF new
  <1>10. ASSUME NEW r \in signed, r.id.hotkey = h, Held(h) + AuthRate <= Held(h)',
                old + AuthRate * (now + Skew[h] - r.id.nonce) <= Held(h)
         PROVE  new + AuthRate * (now' + Skew[h] - r.id.nonce) <= Held(h)'
    <2> DEFINE d == now + Skew[h] - r.id.nonce
    <2>1. r.id.nonce \in Int
      BY DEF AdmCore, AdmTypeOK, Request, Identity
    <2>2. d \in Int /\ now' + Skew[h] - r.id.nonce = d + 1
      BY <1>2, <1>3, <2>1
    <2>3. old + AuthRate * d <= Held(h)
      BY <1>10
    <2> HIDE DEF d
    <2>4. AuthRate * (d + 1) = AuthRate * d + AuthRate /\ AuthRate * d \in Int
      BY <1>3, <2>2
    <2>5. new + AuthRate * (d + 1) <= Held(h)'
      BY <1>3, <1>5, <1>8, <1>10, <2>3, <2>4
    <2>6. QED
      BY <2>2, <2>5
  <1>11. QED
    BY <1>2, <1>7, <1>8, <1>9, <1>10 DEF new

LEMMA TokensSign ==
  ASSUME AdmCore, SpacingInv, NEW Grace \in Nat, PaceFits(Grace), TokensInv(Grace),
         NEW g \in Hotkey, NEW u \in Uuid, Sign(g, u)
  PROVE  TokensInv(Grace)'
  <1> DEFINE id == [hotkey |-> g, uuid |-> u, nonce |-> now + Skew[g]]
             req0 == [id |-> id, policy |-> TRUE, genuine |-> TRUE]
  <1>1. /\ signed' = signed \cup {req0} /\ UNCHANGED <<now, authBucket, sdkSeen>>
        /\ g \in Paced => \A r \in signed : r.id.hotkey = g => now + Skew[g] >= r.id.nonce + Pace
    BY DEF Sign
  <1>2. id.hotkey = g /\ id.nonce = now + Skew[g] /\ req0.id = id
    OBVIOUS
  <1> HIDE DEF id, req0
  <1>3. \A j : Held(j)' = Held(j)
    BY <1>1 DEF Held, Filled, Later
  <1>4. \A j : SignedBy(j)' = IF j = g THEN SignedBy(j) \cup {id} ELSE SignedBy(j)
    BY <1>1, <1>2 DEF SignedBy
  <1>5. \A j : Owed(j, Grace)' \subseteq IF j = g THEN Owed(j, Grace) \cup {id} ELSE Owed(j, Grace)
    BY <1>1, <1>4 DEF Owed, Age
  <1>6. SUFFICES ASSUME NEW h \in Paced
                 PROVE  \/ Cardinality(Owed(h, Grace)') * Cost + Cost <= Held(h)
                        \/ \E r \in signed' :
                             /\ r.id.hotkey = h
                             /\ Cardinality(Owed(h, Grace)') * Cost
                                  + AuthRate * (now + Skew[h] - r.id.nonce) <= Held(h)
    BY <1>1, <1>3 DEF TokensInv
  <1> DEFINE n == Cardinality(Owed(h, Grace))
             old == n * Cost
             new == Cardinality(Owed(h, Grace)') * Cost
  <1>7. h \in Hotkey /\ Skew[h] \in Int /\ Pace \in Nat
    BY AdmissionAssumption
  <1>8. /\ now \in Nat /\ AuthRate \in Nat /\ Cost \in Nat /\ Held(h) \in Nat
    BY <1>7, HeldTyped
  <1>9. IsFiniteSet(Owed(h, Grace)) /\ n \in Nat
    BY OwedFinite DEF SpacingInv
  <1>10. \/ old + Cost <= Held(h)
         \/ \E r \in signed :
              r.id.hotkey = h /\ old + AuthRate * (now + Skew[h] - r.id.nonce) <= Held(h)
    BY DEF TokensInv
  <1>11. CASE h # g
    <2>1. Owed(h, Grace)' \subseteq Owed(h, Grace)
      BY <1>5, <1>11
    <2>2. old \in Nat /\ new \in Nat /\ new <= old
      BY <1>9, <2>1, FewerOwed
    <2> HIDE DEF old, new
    <2>3. old + Cost <= Held(h) => new + Cost <= Held(h)
      BY <1>8, <2>2
    <2>4. ASSUME NEW r \in signed, old + AuthRate * (now + Skew[h] - r.id.nonce) <= Held(h)
          PROVE  new + AuthRate * (now + Skew[h] - r.id.nonce) <= Held(h)
      <3>1. r.id.nonce \in Int
        BY DEF AdmCore, AdmTypeOK, Request, Identity
      <3>2. AuthRate * (now + Skew[h] - r.id.nonce) \in Int
        BY <1>7, <1>8, <3>1
      <3>3. QED
        BY <1>8, <2>2, <2>4, <3>2
    <2>5. QED
      BY <1>1, <1>10, <2>3, <2>4 DEF new
  <1>12. CASE h = g
    <2>1. old + Cost <= Held(h)
      <3>1. ASSUME NEW r \in signed, r.id.hotkey = h,
                   old + AuthRate * (now + Skew[h] - r.id.nonce) <= Held(h)
            PROVE  old + Cost <= Held(h)
        <4> DEFINE d == now + Skew[h] - r.id.nonce
        <4>1. r.id.nonce \in Int
          BY DEF AdmCore, AdmTypeOK, Request, Identity
        <4>2. d \in Nat /\ Pace <= d
          BY <1>1, <1>7, <1>8, <1>12, <3>1, <4>1
        <4>3. old + AuthRate * d <= Held(h) /\ old \in Nat
          BY <1>8, <1>9, <3>1, NatProduct
        <4> HIDE DEF d, old
        <4>4. AuthRate * Pace <= AuthRate * d /\ AuthRate * d \in Nat /\ AuthRate * Pace \in Nat
          BY <1>7, <1>8, <4>2, Monotone, NatProduct
        <4>5. Cost <= AuthRate * Pace
          BY DEF PaceFits
        <4>6. QED
          BY <1>8, <4>3, <4>4, <4>5
      <3>2. QED
        BY <1>10, <3>1
    <2>2. new <= old + Cost /\ new \in Nat
      <3> DEFINE S == Owed(h, Grace) \cup {id}
      <3>1. IsFiniteSet(S) /\ Cardinality(S) <= n + 1 /\ Cardinality(S) \in Nat
        <4>1. IsFiniteSet(S) /\ Cardinality(S) = IF id \in Owed(h, Grace) THEN n ELSE n + 1
          BY <1>9, FS_AddElement
        <4> HIDE DEF S, n
        <4>2. QED
          BY <1>9, <4>1
      <3>2. Owed(h, Grace)' \subseteq S
        BY <1>5, <1>12
      <3>3. new \in Nat /\ Cardinality(S) * Cost \in Nat /\ new <= Cardinality(S) * Cost
        BY <3>1, <3>2, FewerOwed
      <3>4. Cost * Cardinality(S) <= Cost * (n + 1)
        BY <1>8, <1>9, <3>1, Monotone
      <3>5. (n + 1) * Cost = n * Cost + Cost /\ n * Cost \in Nat
        BY <1>8, <1>9, OneMore, NatProduct
      <3>6. Cost * Cardinality(S) = Cardinality(S) * Cost /\ Cost * (n + 1) = (n + 1) * Cost
        BY <1>8, <1>9, <3>1
      <3> HIDE DEF S, n, new
      <3>7. QED
        BY <1>8, <3>3, <3>4, <3>5, <3>6
    <2>3. AuthRate * (now + Skew[h] - req0.id.nonce) = 0
      BY <1>2, <1>7, <1>8, <1>12
    <2>4. old \in Nat
      BY <1>8, <1>9, NatProduct
    <2> HIDE DEF new, old
    <2>5. new + AuthRate * (now + Skew[h] - req0.id.nonce) <= Held(h)
      BY <1>8, <2>1, <2>2, <2>3, <2>4
    <2>6. QED
      BY <1>1, <1>2, <1>12, <2>5 DEF new
  <1>13. QED
    BY <1>11, <1>12

\* A request that reaches the bucket takes the token that was kept for it.
LEMMA TokensAdmit ==
  ASSUME AdmCore, SpacingInv, NEW Grace \in Nat, PaceFits(Grace), TokensInv(Grace),
         PromptVerify(Grace), PacedNeverRefused, NEW c \in Conn, VerifyAdmit(c)
  PROVE  TokensInv(Grace)' /\ PacedNeverRefused'
  <1>0. PICK id, g : id = req[c].id /\ g = id.hotkey
    OBVIOUS
  <1> DEFINE n(h) == Cardinality(Owed(h, Grace))
             old(h) == n(h) * Cost
             new(h) == Cardinality(Owed(h, Grace)') * Cost
  <1>1. /\ id \in Identity /\ g \in Hotkey /\ UNCHANGED <<now, signed>>
        /\ sdkSeen' = sdkSeen \cup {id}
        /\ authBucket' = [authBucket EXCEPT ![g] = Charged(@, AuthBurst, AuthRate)]
    BY <1>0, AdmitEffect DEF VerifyAdmit
  <1>2. \A h : Owed(h, Grace)' = Owed(h, Grace) \ {id}
    BY <1>1 DEF Owed, SignedBy, Age
  <1>3. id \in Owed(g, Grace)
    <2>1. PICK r \in signed : req[c] = [r EXCEPT !.policy = req[c].policy]
      BY DEF AdmCore, ReqInv, AsSigned, VerifyAdmit, SdkAccepts
    <2>10. id = r.id
      <3>1. r \in Request
        BY DEF AdmCore, AdmTypeOK
      <3>2. \A p : [r EXCEPT !.policy = p].id = r.id
        BY <3>1 DEF Request
      <3>3. QED
        BY <1>0, <2>1, <3>2
    <2>2. id \notin sdkSeen
      BY <1>0, <1>1 DEF VerifyAdmit, SdkAccepts, Identity
    <2>3. Age(id) <= MaxAge + Grace
      BY <1>0 DEF PromptVerify, VerifyAdmit
    <2>4. QED
      BY <1>0, <2>10, <2>2, <2>3 DEF Owed, SignedBy
  <1>4. \A h : IsFiniteSet(Owed(h, Grace)) /\ n(h) \in Nat
    BY OwedFinite DEF SpacingInv
  <1>5. \A h \in Hotkey :
          /\ authBucket[h] \in Bucket(AuthBurst) /\ authBucket[h].at <= now /\ now \in Nat
          /\ AuthBurst \in Nat \ {0} /\ AuthRate \in Nat \ {0} /\ Cost \in Nat \ {0}
          /\ Held(h) \in Nat
    BY HeldTyped
  <1>6. \A h \in Hotkey : h # g => Held(h)' = Held(h)
    BY <1>1 DEF Held, Filled, Later, AdmCore, AdmTypeOK
  <1>7. ASSUME NEW h \in Paced
        PROVE  /\ h \in Hotkey /\ old(h) \in Nat /\ old(h) <= Held(h)
               /\ \/ old(h) + Cost <= Held(h)
                  \/ \E r \in signed : /\ r.id.hotkey = h
                                       /\ AuthRate * (now + Skew[h] - r.id.nonce) \in Nat
                                       /\ old(h) + AuthRate * (now + Skew[h] - r.id.nonce) <= Held(h)
    <2>1. h \in Hotkey /\ Skew[h] \in Int
      BY AdmissionAssumption
    <2>2. old(h) \in Nat
      BY <1>4, <1>5, <2>1, NatProduct
    <2>3. \/ old(h) + Cost <= Held(h)
          \/ \E r \in signed :
               r.id.hotkey = h /\ old(h) + AuthRate * (now + Skew[h] - r.id.nonce) <= Held(h)
      BY DEF TokensInv
    <2>4. ASSUME NEW r \in signed, r.id.hotkey = h
          PROVE  AuthRate * (now + Skew[h] - r.id.nonce) \in Nat
      <3>1. r.id.nonce \in Int
        BY DEF AdmCore, AdmTypeOK, Request, Identity
      <3>2. now + Skew[h] - r.id.nonce \in Nat
        BY <1>5, <2>1, <2>4, <3>1 DEF SpacingInv
      <3>3. QED
        BY <1>5, <2>1, <3>2, NatProduct
    <2> HIDE DEF old
    <2>5. Held(h) \in Nat /\ Cost \in Nat
      BY <1>5, <2>1
    <2>6. QED
      BY <2>1, <2>2, <2>3, <2>4, <2>5
  <1>8. ASSUME NEW h \in Paced, h # g
        PROVE  new(h) \in Nat /\ new(h) <= old(h) /\ Held(h)' = Held(h)
    <2>1. Owed(h, Grace)' \subseteq Owed(h, Grace)
      BY <1>2
    <2>2. QED
      BY <1>4, <1>6, <1>7, <1>8, <2>1, FewerOwed
  <1>9. ASSUME g \in Paced
        PROVE  /\ Allows(authBucket[g], AuthBurst, AuthRate)
               /\ new(g) = old(g) - Cost /\ Held(g)' = Held(g) - Cost
    <2>1. Cardinality(Owed(g, Grace)') = n(g) - 1
      BY <1>2, <1>3, <1>4, FS_RemoveElement
    <2>2. Cardinality(Owed(g, Grace)') \in Nat
      BY <1>2, <1>4, FS_RemoveElement, FS_CardinalityType
    <2>3. old(g) = new(g) + Cost /\ new(g) \in Nat
      <3> DEFINE m == Cardinality(Owed(g, Grace)')
      <3>1. n(g) = m + 1 /\ m \in Nat
        BY <1>4, <2>1, <2>2
      <3> HIDE DEF m, n
      <3>2. (m + 1) * Cost = m * Cost + Cost /\ m * Cost \in Nat
        BY <1>1, <1>5, <3>1, OneMore, NatProduct
      <3>3. QED
        BY <3>1, <3>2 DEF m
    <2>4. Cost <= Held(g) /\ Cost \in Nat \ {0} /\ Held(g) \in Nat
      <3>1. Cost \in Nat \ {0} /\ Held(g) \in Nat /\ old(g) \in Nat /\ old(g) <= Held(g)
        BY <1>1, <1>5, <1>7, <1>9
      <3> HIDE DEF old, new
      <3>2. QED
        BY <2>3, <3>1
    <2>5. Allows(authBucket[g], AuthBurst, AuthRate)
      BY <2>4 DEF Allows, Held
    <2>6. Held(g)' = Held(g) - Cost
      <3> DEFINE b == Charged(authBucket[g], AuthBurst, AuthRate)
                 cap == AuthBurst * Cost
                 x == AuthRate * Later(authBucket[g].at)'
                 left == authBucket'[g].tokens
      <3>1. /\ b.at = now /\ b.tokens = Held(g) - Cost /\ Held(g) <= cap
        BY <1>1, <1>5, <2>5, FilledBounds DEF Held
      <3>2. authBucket'[g] = b
        BY <1>1 DEF AdmCore, AdmTypeOK
      <3> HIDE DEF b
      <3>3. x = 0
        BY <1>1, <1>5, <3>1, <3>2 DEF Later
      <3>4. cap \in Nat
        BY <1>1, <1>5, NatProduct
      <3>5. Held(g)' = IF left + x < cap THEN left + x ELSE cap
        BY DEF Held, Filled, Later
      <3>6. left = Held(g) - Cost
        BY <3>1, <3>2
      <3> HIDE DEF cap, x, left
      <3>7. QED
        BY <2>4, <3>1, <3>3, <3>4, <3>5, <3>6
    <2>7. new(g) = old(g) - Cost
      <3> HIDE DEF old, new
      <3>1. QED
        BY <2>3, <2>4
    <2>8. QED
      BY <2>5, <2>6, <2>7
  <1>10. ASSUME NEW h \in Paced
         PROVE  \/ new(h) + Cost <= Held(h)'
                \/ \E r \in signed :
                     r.id.hotkey = h /\ new(h) + AuthRate * (now + Skew[h] - r.id.nonce) <= Held(h)'
    <2>1. \/ new(h) \in Nat /\ new(h) <= old(h) /\ Held(h)' = Held(h)
          \/ new(h) = old(h) - Cost /\ Held(h)' = Held(h) - Cost
      BY <1>8, <1>9
    <2>2. old(h) \in Nat /\ Held(h) \in Nat /\ Cost \in Nat
      BY <1>5, <1>7
    <2> HIDE DEF old, new
    <2>3. \A x \in Nat : old(h) + x <= Held(h) => new(h) + x <= Held(h)'
      BY <2>1, <2>2
    <2>4. QED
      BY <1>7, <2>2, <2>3
  <1>11. TokensInv(Grace)'
    BY <1>1, <1>10 DEF TokensInv
  <1>12. PacedNeverRefused'
    <2>1. refused' = refused \/ (refused' = refused \cup {g} /\ g \notin Paced)
      BY <1>0, <1>9 DEF VerifyAdmit
    <2>2. QED
      BY <2>1 DEF PacedNeverRefused
  <1>13. QED
    BY <1>11, <1>12

LEMMA PacedStep ==
  ASSUME NEW Grace \in Nat, PaceFits(Grace), AdmInd, PacedInv(Grace), PromptVerify(Grace),
         [AdmNext]_admVars
  PROVE  PacedInv(Grace)'
  <1>1. AdmCore /\ SpacingInv /\ TokensInv(Grace) /\ PacedNeverRefused
    BY DEF AdmInd, PacedInv
  <1>2. SpacingInv'
    BY <1>1, SpacingStep DEF PaceFits
  <1>3. CASE AdvanceClock
    <2>1. refused' = refused
      BY <1>3 DEF AdvanceClock, history
    <2>2. QED
      BY <1>1, <1>2, <1>3, <2>1, TokensTick DEF PacedInv, PacedNeverRefused
  <1>4. ASSUME NEW h \in Hotkey, NEW u \in Uuid, Sign(h, u)
        PROVE  PacedInv(Grace)'
    <2>1. refused' = refused
      BY <1>4 DEF Sign, history
    <2>2. QED
      BY <1>1, <1>2, <1>4, <2>1, TokensSign DEF PacedInv, PacedNeverRefused
  <1>5. ASSUME NEW c \in Conn, VerifyAdmit(c) PROVE PacedInv(Grace)'
    BY <1>1, <1>2, <1>5, TokensAdmit DEF PacedInv
  <1>6. CASE UNCHANGED <<now, signed, authBucket, sdkSeen, refused>>
    <2>1. TokensInv(Grace)'
      BY <1>1, <1>6 DEF TokensInv, Owed, SignedBy, Age, Held, Filled, Later
    <2>2. QED
      BY <1>1, <1>2, <1>6, <2>1 DEF PacedInv, PacedNeverRefused
  <1>7. QED
    BY <1>3, <1>4, <1>5, <1>6, PacedKinds

LEMMA PacedStart ==
  ASSUME NEW Grace \in Nat, PaceFits(Grace), AdmInit
  PROVE  PacedInv(Grace)
  <1>1. signed = {} /\ refused = {} /\ now = 0
    BY DEF AdmInit
  <1>2. \A h : SignedBy(h) = {}
    BY <1>1 DEF SignedBy
  <1>3. /\ \A h : Owed(h, Grace) = {}
        /\ \A h, s, t : Between(h, s, t) = {}
    BY <1>2 DEF Owed, Between
  <1>4. /\ Cost \in Nat \ {0} /\ Pace \in Nat /\ AuthBurst \in Nat \ {0} /\ AuthRate \in Nat
        /\ Paced \subseteq Hotkey
    BY AdmissionAssumption
  <1>5. SpacingInv
    <2>1. \A s, t \in Int : Span(s, t) \in Nat
      BY DEF Span
    <2>2. QED
      <3>1. IsFiniteSet({}) /\ Cardinality({}) = 0 /\ 0 * Pace = 0
        BY <1>4, FS_EmptySet
      <3>2. ASSUME NEW h \in Paced, NEW s \in Int, NEW t \in Int
            PROVE  Cardinality(Between(h, s, t)) * Pace <= Span(s, t) + Pace
        <4>1. Cardinality(Between(h, s, t)) * Pace = 0
          BY <1>3, <3>1
        <4>2. Span(s, t) \in Nat /\ Pace \in Nat
          BY <1>4, <2>1
        <4>3. 0 <= Span(s, t) + Pace
          BY <4>2
        <4>4. QED
          BY <4>1, <4>3
      <3>3. QED
        BY <1>1, <3>1, <3>2 DEF SpacingInv
  <1>6. TokensInv(Grace)
    <2>1. SUFFICES ASSUME NEW h \in Paced
                   PROVE  Cardinality(Owed(h, Grace)) * Cost + Cost <= Held(h)
      BY DEF TokensInv
    <2>2. authBucket[h] = [tokens |-> AuthBurst * Cost, at |-> 0]
      BY <1>4 DEF AdmInit
    <2>3. AuthBurst * Cost \in Nat
      BY <1>4, NatProduct
    <2>4. Held(h) = AuthBurst * Cost
      <3>1. Later(0) = 0 /\ AuthRate * 0 = 0
        BY <1>1, <1>4 DEF Later
      <3>2. QED
        BY <2>2, <2>3, <3>1 DEF Held, Filled
    <2>5. Cardinality(Owed(h, Grace)) = 0
      BY <1>3, FS_EmptySet
    <2>6. Cost * 1 <= Cost * AuthBurst
      BY <1>4, Monotone
    <2>7. 0 * Cost = 0 /\ Cost * 1 = Cost /\ Cost * AuthBurst = AuthBurst * Cost
      BY <1>4
    <2>8. QED
      BY <1>4, <2>4, <2>5, <2>6, <2>7
  <1>7. QED
    BY <1>1, <1>5, <1>6 DEF PacedInv, PacedNeverRefused

\* If default_verify takes no longer than Grace past the window, and pace and
\* burst fit that, a validator that keeps its pace is never refused by the
\* hotkey bucket: not with other validators' requests about, nor with copies
\* of its own, nor when requests that were held up arrive together.
THEOREM PacedIsNeverRefused ==
  ASSUME NEW Grace \in Nat, PaceFits(Grace)
  PROVE  AdmSpec /\ []PromptVerify(Grace) => []PacedNeverRefused
  <1>1. AdmInit => PacedInv(Grace)
    BY PacedStart
  <1>2. AdmInd /\ PromptVerify(Grace) /\ PacedInv(Grace) /\ [AdmNext]_admVars => PacedInv(Grace)'
    BY PacedStep
  <1>3. PacedInv(Grace) => PacedNeverRefused
    BY DEF PacedInv
  <1>4. QED
    BY <1>1, <1>2, <1>3, AdmInductive, PTL DEF AdmSpec

=============================================================================
