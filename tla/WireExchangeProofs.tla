-------------------------- MODULE WireExchangeProofs --------------------------
(***************************************************************************)
(* The agreement of the two ends of WireExchange, for every number of      *)
(* validators, miners and queries, every list of packages and every bound: *)
(* what a validator scores for an honest miner is what the miner signed    *)
(* for that query, a signature counts once, and an honest answer that      *)
(* arrives as sent counts.                                                 *)
(***************************************************************************)
EXTENDS WireExchange, SequenceTheorems, WellFoundedInduction, TLAPS

-----------------------------------------------------------------------------
(***************************************************************************)
(* Lists of packages and their size.                                       *)
(***************************************************************************)

\* Every nonempty set of natural numbers has a least element.
LEMMA LeastNumber ==
  ASSUME NEW T, T \subseteq Nat, T # {}
  PROVE  \E n \in T : \A m \in T : n <= m
  <1> DEFINE R == {ss \in Nat \X Nat : ss[1] < ss[2]}
  <1>1. IsWellFoundedOn(R, Nat)
    BY NatLessThanWellFounded DEF OpToRel
  <1> HIDE DEF R
  <1>2. PICK n \in T : \A m \in T : ~(<<m, n>> \in R)
    BY <1>1, WFMin
  <1>3. \A a, b \in Nat : a < b => <<a, b>> \in R
    BY DEF R
  <1>4. ASSUME NEW m \in T PROVE n <= m
    <2>1. n \in Nat /\ m \in Nat
      OBVIOUS
    <2>2. ~(m < n)
      BY <1>2, <1>3, <2>1
    <2>3. QED
      BY <2>1, <2>2
  <1>5. QED
    BY <1>4

\* The first packages of a list are a list of packages.
LEMMA TakeFacts ==
  ASSUME NEW list \in Seq(Package), NEW n \in Nat
  PROVE  /\ Take(list, n) \in Seq(Package)
         /\ Len(Take(list, n)) <= n
         /\ Len(list) <= n => Take(list, n) = list
  <1> DEFINE k == IF n < Len(list) THEN n ELSE Len(list)
  <1>1. Len(list) \in Nat /\ k \in Nat /\ k <= Len(list) /\ k <= n
    OBVIOUS
  <1>2. SubSeq(list, 1, k) \in Seq(Package) /\ Len(SubSeq(list, 1, k)) = k
    BY <1>1
  <1>3. k = Len(list) => SubSeq(list, 1, k) = list
    BY <1>1
  <1>4. Len(list) <= n => k = Len(list)
    BY <1>1
  <1> HIDE DEF k
  <1>5. QED
    BY <1>1, <1>2, <1>3, <1>4 DEF Take, k

\* The equation that the running sum of a list's bytes satisfies at i.
SizeStep(list, sum, i) == IF i = 0 THEN 0 ELSE sum[i - 1] + Bytes[list[i]]

\* The running sum exists, so the size of a list is a natural number.
LEMMA SizeIsNat ==
  ASSUME NEW list \in Seq(Package)
  PROVE  PayloadSize(list) \in Nat /\ (list = <<>> => PayloadSize(list) = 0)
  <1> DEFINE N == Len(list)
             Sum(n, g) == g \in [0..n -> Nat] /\ \A i \in 0..n : g[i] = SizeStep(list, g, i)
             Bad == {n \in 0..N : ~ \E g : Sum(n, g)}
  <1>1. N \in Nat /\ \A i \in 1..N : Bytes[list[i]] \in Nat
    BY WireAssumption
  <1>2. Bad = {}
    <2>1. SUFFICES ASSUME Bad # {} PROVE FALSE
      OBVIOUS
    <2>2. PICK n \in Bad : \A m \in Bad : n <= m
      <3>1. Bad \subseteq Nat
        BY <1>1
      <3> HIDE DEF Bad
      <3>2. QED
        BY <2>1, <3>1, LeastNumber
    <2>3. n \in 0..N /\ ~ \E g : Sum(n, g)
      BY <2>2
    <2>4. n # 0
      <3>1. Sum(0, [i \in 0..0 |-> 0])
        BY DEF SizeStep
      <3>2. QED
        BY <2>3, <3>1
    <2>5. PICK g : Sum(n - 1, g)
      <3>1. n - 1 \in 0..N /\ n - 1 \notin Bad
        <4> HIDE DEF Bad
        <4> QED
          BY <1>1, <2>2, <2>3, <2>4
      <3> HIDE DEF Sum
      <3>2. QED
        BY <3>1
    <2> DEFINE h == [i \in 0..n |-> IF i = n THEN SizeStep(list, g, n) ELSE g[i]]
    <2>6. g[n - 1] \in Nat /\ Bytes[list[n]] \in Nat
      BY <1>1, <2>3, <2>4, <2>5
    <2>7. SizeStep(list, g, n) \in Nat
      BY <2>4, <2>6 DEF SizeStep
    <2>8. h \in [0..n -> Nat]
      BY <2>3, <2>5, <2>7
    <2>9. \A i \in 0..n : h[i] = SizeStep(list, h, i)
      BY <2>3, <2>4, <2>5 DEF SizeStep
    <2>10. QED
      BY <2>3, <2>8, <2>9
  <1>3. PICK g : Sum(N, g)
    <2>1. N \in 0..N /\ N \notin Bad
      BY <1>1, <1>2
    <2> HIDE DEF Sum
    <2>2. QED
      BY <2>1
  <1> DEFINE S == CHOOSE sum : sum = [i \in 0..N |-> SizeStep(list, sum, i)]
  <1>4. g = [i \in 0..N |-> SizeStep(list, g, i)]
    BY <1>3
  <1>5. S = [i \in 0..N |-> SizeStep(list, S, i)]
    BY <1>4
  <1>6. PayloadSize(list) = S[N]
    BY DEF PayloadSize, SizeStep
  <1> HIDE DEF S
  <1> DEFINE Off == {i \in 0..N : S[i] \notin Nat}
  <1>7. Off = {}
    <2>1. SUFFICES ASSUME Off # {} PROVE FALSE
      OBVIOUS
    <2>2. PICK i \in Off : \A j \in Off : i <= j
      <3>1. Off \subseteq Nat
        BY <1>1
      <3> HIDE DEF Off
      <3>2. QED
        BY <2>1, <3>1, LeastNumber
    <2>3. S[i] = SizeStep(list, S, i) /\ i \in 0..N /\ S[i] \notin Nat
      BY <1>5, <2>2
    <2>4. i # 0
      BY <2>3 DEF SizeStep
    <2>5. S[i - 1] \in Nat
      <3>1. i - 1 \in 0..N /\ ~(i <= i - 1)
        BY <1>1, <2>3, <2>4
      <3>2. QED
        BY <2>2, <3>1
    <2>6. QED
      BY <1>1, <2>3, <2>4, <2>5 DEF SizeStep
  <1>8. S[N] \in Nat
    BY <1>1, <1>7
  <1>9. list = <<>> => S[N] = 0
    BY <1>1, <1>5 DEF SizeStep
  <1>10. QED
    BY <1>6, <1>8, <1>9

\* What is left of a list after packages were popped from its end fits.
LEMMA FittingFacts ==
  ASSUME NEW list \in Seq(Package)
  PROVE  /\ Fitting(list) \in Seq(Package)
         /\ Len(Fitting(list)) <= Len(list)
         /\ PayloadSize(Fitting(list)) <= MaxResponse
  <1> DEFINE fits == {n \in 0 .. Len(list) :
                        \A k \in n + 1 .. Len(list) : PayloadSize(Take(list, k)) > MaxResponse}
             n == CHOOSE n \in fits : \A k \in fits : n <= k
  <1>1. Len(list) \in Nat /\ MaxResponse \in Nat
    BY WireAssumption
  <1>2. Len(list) \in fits /\ fits \subseteq 0..Len(list)
    BY <1>1
  <1>3. n \in fits /\ \A k \in fits : n <= k
    <2>1. fits \subseteq Nat
      BY <1>1, <1>2
    <2> HIDE DEF fits
    <2>2. \E l \in fits : \A k \in fits : l <= k
      BY <1>2, <2>1, LeastNumber
    <2>3. QED
      BY <2>2
  <1>4. Fitting(list) = Take(list, n)
    BY DEF Fitting
  <1> HIDE DEF n
  <1>5. n \in 0..Len(list)
    BY <1>2, <1>3
  <1>6. /\ Take(list, n) \in Seq(Package)
        /\ Len(Take(list, n)) <= n
    BY <1>5, TakeFacts
  <1>7. PayloadSize(Take(list, n)) \in Nat
    BY <1>6, SizeIsNat
  <1>8. CASE n = 0
    <2>1. Take(list, n) = <<>>
      BY <1>6, <1>8
    <2>2. PayloadSize(Take(list, n)) = 0
      BY <1>6, <2>1, SizeIsNat
    <2>3. QED
      BY <1>1, <1>4, <1>6, <1>8, <2>2
  <1>9. CASE n # 0
    <2>1. n - 1 \notin fits /\ n - 1 \in 0..Len(list)
      <3> HIDE DEF fits
      <3> QED
        BY <1>1, <1>3, <1>5, <1>9
    <2>2. PICK k \in n .. Len(list) : ~(PayloadSize(Take(list, k)) > MaxResponse)
      BY <1>5, <2>1
    <2>3. k = n
      BY <1>1, <1>3, <1>5, <2>2
    <2>4. QED
      BY <1>1, <1>4, <1>5, <1>6, <1>7, <2>2, <2>3
  <1>10. QED
    BY <1>8, <1>9

-----------------------------------------------------------------------------
(***************************************************************************)
(* The invariant.                                                          *)
(***************************************************************************)

\* What the miners have signed: the answer to a query that was made, with no
\* more packages than it asked for, small enough to be sent.
SignedAnswer(r) ==
  /\ r.signature.key \in Honest
  /\ r.says.request \in DOMAIN queries
  /\ r.submissions \in Seq(Package)
  /\ Len(r.submissions) <= queries[r.says.request].quota
  /\ PayloadSize(r.submissions) <= MaxResponse
  /\ r = SignResponse(r.signature.key, r.says.request, r.submissions)

\* Packages count only under a signature of the endpoint on the request of the
\* query, and for an honest endpoint that is an answer it signed.
OutcomeOK(q, m, o) ==
  /\ o.status \in {"pending", "ok", "unreachable", "invalid"}
  /\ o.payloads \in Seq(Package)
  /\ o.status # "ok" => o = Terminal(o.status)
  /\ o.status = "ok" =>
       /\ q \in DOMAIN queries
       /\ o.signature.key = m /\ o.signature.message.request = q
       /\ m \in Honest =>
            \E r \in responses :
              /\ r.signature.key = m /\ r.says.request = q
              /\ o.payloads = Take(r.submissions, queries[q].quota)

Asked == [validator : Validator, epoch : 1..MaxEpoch, quota : Quotas]

WireInv ==
  /\ queries \in Seq(Asked)
  /\ Len(queries) <= MaxQuery
  /\ \A r \in responses : SignedAnswer(r)
  /\ outcome = [q \in Query |-> [m \in Miner |-> outcome[q][m]]]
  /\ \A q \in Query, m \in Miner : OutcomeOK(q, m, outcome[q][m])

\* What is known of a query that was made.
LEMMA QueryFacts ==
  ASSUME WireInv, NEW q \in DOMAIN queries
  PROVE  /\ q \in Query /\ queries[q].quota \in Nat
         /\ queries[q].validator \in Validator /\ queries[q].epoch \in 1..MaxEpoch
         /\ queries[q].quota \in Quotas
  <1>1. q \in Query
    BY WireAssumption DEF WireInv, Query
  <1>2. queries[q] \in Asked
    BY DEF WireInv
  <1>3. QED
    BY <1>1, <1>2, WireAssumption DEF Asked

\* An endpoint without a usable response has a terminal status and no packages.
LEMMA TerminalOK ==
  ASSUME NEW q, NEW m, NEW status \in {"pending", "unreachable", "invalid"}
  PROVE  OutcomeOK(q, m, Terminal(status))
  <1>1. Terminal(status).status = status /\ Terminal(status).payloads = <<>>
    BY DEF Terminal, WireMiner
  <1>2. <<>> \in Seq(Package)
    OBVIOUS
  <1> HIDE DEF Terminal
  <1>3. QED
    BY <1>1, <1>2 DEF OutcomeOK

-----------------------------------------------------------------------------
(***************************************************************************)
(* What the network and a dishonest miner can deliver.                     *)
(***************************************************************************)

Answer(says, list, signature) == [says |-> says, submissions |-> list, signature |-> signature]

\* A changed field leaves the list and, at most removed, the signature.
LEMMA FieldAlteredFacts ==
  ASSUME NEW says, NEW list, NEW signature, NEW r \in FieldAltered(Answer(says, list, signature))
  PROVE  /\ r = Answer(r.says, list, r.signature)
         /\ r.signature \in {signature, None}
  <1> DEFINE a == Answer(says, list, signature)
  <1>1. CASE r \in {a, [a EXCEPT !.signature = None], [a EXCEPT !.says.version = OtherVersion]}
    BY <1>1 DEF Answer
  <1>2. CASE \E q \in Query : r = [a EXCEPT !.says.request = q, !.says.nonce = q]
    BY <1>2 DEF Answer
  <1>3. CASE \E v \in Validator : r = [a EXCEPT !.says.validator = v]
    BY <1>3 DEF Answer
  <1>4. CASE \E m \in Miner : r = [a EXCEPT !.says.miner = m]
    BY <1>4 DEF Answer
  <1>5. CASE \E e \in 1..MaxEpoch : r = [a EXCEPT !.says.epoch = e]
    BY <1>5 DEF Answer
  <1>6. CASE \E n \in Quotas : r = [a EXCEPT !.says.quota = n]
    BY <1>6 DEF Answer
  <1> HIDE DEF a
  <1>7. QED
    BY <1>1, <1>2, <1>3, <1>4, <1>5, <1>6 DEF FieldAltered, a

\* A changed list is one of the known lists, under the same signature.
LEMMA ListAlteredFacts ==
  ASSUME NEW says, NEW list, NEW signature, NEW r \in ListAltered(Answer(says, list, signature))
  PROVE  r.submissions \in AnyList /\ r.signature = signature
  <1> DEFINE a == Answer(says, list, signature)
  <1>1. CASE \E l \in AnyList : r = [a EXCEPT !.submissions = l]
    BY <1>1 DEF Answer
  <1>2. CASE \E l \in AnyList : r = [a EXCEPT !.submissions = l, !.says.digest = Digest(l)]
    BY <1>2 DEF Answer
  <1> HIDE DEF a
  <1>3. QED
    BY <1>1, <1>2 DEF ListAltered, a

\* Every list in the network is one of packages.
LEMMA AnyListFacts == AnyList \subseteq Seq(Package)
  <1>1. \A t \in TaskLists : t \in Seq(Package)
    BY WireAssumption
  <1>2. \A t \in TaskLists, n \in 0..2 : Take(t, n) \in Seq(Package)
    BY <1>1, TakeFacts
  <1>3. QED
    BY <1>1, <1>2 DEF AnyList

\* What is delivered is a list of packages; for an honest endpoint its
\* signature is missing or comes from a signed answer.
LEMMA DeliverableFacts ==
  ASSUME WireInv, NEW m, NEW q, NEW r \in Deliverable(m, q)
  PROVE  /\ r.submissions \in Seq(Package)
         /\ m \in Honest => r.signature = None \/ \E s \in responses : r.signature = s.signature
  <1>1. CASE \E s \in responses : r \in FieldAltered(s) \cup ListAltered(s)
    <2>1. PICK s \in responses : r \in FieldAltered(s) \cup ListAltered(s)
      BY <1>1
    <2>2. s = Answer(s.says, s.submissions, s.signature) /\ s.submissions \in Seq(Package)
      BY DEF WireInv, SignedAnswer, SignResponse, Answer
    <2>3. CASE r \in FieldAltered(s)
      <3>1. r = Answer(r.says, s.submissions, r.signature) /\ r.signature \in {s.signature, None}
        BY <2>2, <2>3, FieldAlteredFacts
      <3>2. r.submissions = s.submissions
        BY <3>1 DEF Answer
      <3>3. QED
        BY <2>2, <3>1, <3>2
    <2>4. CASE r \in ListAltered(s)
      <3>1. r.submissions \in AnyList /\ r.signature = s.signature
        BY <2>2, <2>4, ListAlteredFacts
      <3>2. QED
        BY <3>1, AnyListFacts
    <2>5. QED
      BY <2>1, <2>3, <2>4
  <1>2. CASE m \notin Honest /\ r \in Dishonest(m, q)
    <2>0. PICK l \in AnyList :
            \E a \in FieldAltered(SignResponse(m, q, l)) : r = [a EXCEPT !.signature = Sign(m, a.says)]
      BY <1>2 DEF Dishonest
    <2>1. PICK a \in FieldAltered(SignResponse(m, q, l)) : r = [a EXCEPT !.signature = Sign(m, a.says)]
      BY <2>0
    <2>2. SignResponse(m, q, l) = Answer(SignResponse(m, q, l).says, l, SignResponse(m, q, l).signature)
      BY DEF SignResponse, Answer
    <2>3. a = Answer(a.says, l, a.signature)
      BY <2>2, FieldAlteredFacts
    <2>4. r.submissions = l
      BY <2>1, <2>3 DEF Answer
    <2>5. QED
      BY <1>2, <2>4, AnyListFacts
  <1>3. r \in Altered => \E s \in responses : r \in FieldAltered(s) \cup ListAltered(s)
    BY DEF Altered
  <1>4. r \in Altered \/ (m \notin Honest /\ r \in Dishonest(m, q))
    BY DEF Deliverable
  <1>5. QED
    BY <1>1, <1>2, <1>3, <1>4

-----------------------------------------------------------------------------
(***************************************************************************)
(* What the validator makes of it.                                         *)
(***************************************************************************)

\* An accepted response is signed by the endpoint, on the request of the query
\* and on its own list.
LEMMA AcceptedFacts ==
  ASSUME NEW m, NEW q, NEW r, FromResponse(m, q, r).status = "ok"
  PROVE  /\ Authentic(m, q, r)
         /\ FromResponse(m, q, r) = WireMiner("ok", Take(r.submissions, queries[q].quota), r.signature)
         /\ r.signature # None
         /\ r.signature.key = m /\ r.signature.message.request = q
         /\ r.signature.message.digest = Digest(r.submissions)
  <1>1. /\ Authentic(m, q, r)
        /\ FromResponse(m, q, r) = WireMiner("ok", Take(r.submissions, queries[q].quota), r.signature)
    BY DEF FromResponse, Terminal, WireMiner
  <1>2. r.says.request = q /\ r.signature # None
    BY <1>1 DEF Authentic
  <1>3. PICK message : /\ r.signature = Sign(m, message)
                       /\ message.request = r.says.request
                       /\ message.digest = Digest(r.submissions)
    BY <1>1 DEF Authentic, Message
  <1>4. r.signature.key = m /\ r.signature.message = message
    BY <1>3 DEF Sign
  <1>5. QED
    BY <1>1, <1>2, <1>3, <1>4

\* The outcome of a delivered response is as the invariant says.
LEMMA ReceivedOK ==
  ASSUME WireInv, NEW q \in DOMAIN queries, NEW m \in Miner, NEW r \in Deliverable(m, q)
  PROVE  OutcomeOK(q, m, FromResponse(m, q, r))
  <1> DEFINE o == FromResponse(m, q, r)
  <1>1. queries[q].quota \in Nat
    BY QueryFacts
  <1>2. r.submissions \in Seq(Package)
    BY DeliverableFacts
  <1>3. CASE o.status = "ok"
    <2>1. /\ o = WireMiner("ok", Take(r.submissions, queries[q].quota), r.signature)
          /\ r.signature # None
          /\ r.signature.key = m /\ r.signature.message.request = q
          /\ r.signature.message.digest = Digest(r.submissions)
      BY <1>3, AcceptedFacts
    <2>2. /\ o.payloads = Take(r.submissions, queries[q].quota)
          /\ o.signature = r.signature
      BY <2>1 DEF WireMiner
    <2> HIDE DEF o
    <2>3. ASSUME m \in Honest
          PROVE  \E s \in responses : /\ s.signature.key = m /\ s.says.request = q
                                      /\ o.payloads = Take(s.submissions, queries[q].quota)
      <3>1. PICK s \in responses : r.signature = s.signature
        BY <2>1, <2>3, DeliverableFacts
      <3>2. SignedAnswer(s)
        BY DEF WireInv
      <3>3. /\ s.signature.message.request = s.says.request
            /\ s.signature.message.digest = Digest(s.submissions)
        BY <3>2 DEF SignedAnswer, SignResponse, Sign, ResponseMessage, Message
      <3>4. s.submissions = r.submissions
        BY <2>1, <3>1, <3>3 DEF Digest
      <3>5. QED
        BY <2>1, <2>2, <3>1, <3>3, <3>4
    <2>4. o.payloads \in Seq(Package)
      BY <1>1, <1>2, <2>2, TakeFacts
    <2>5. OutcomeOK(q, m, o)
      BY <1>3, <2>1, <2>2, <2>3, <2>4 DEF OutcomeOK
    <2>6. QED
      BY <2>5 DEF o
  <1>4. CASE o.status # "ok"
    <2>1. o \in {Terminal("unreachable"), Terminal("invalid")}
      BY <1>4 DEF FromResponse, WireMiner
    <2>2. QED
      BY <2>1, TerminalOK
  <1>5. QED
    BY <1>3, <1>4

-----------------------------------------------------------------------------
(***************************************************************************)
(* Each action preserves the invariant.                                    *)
(***************************************************************************)

\* Nothing was asked, answered or received.
LEMMA WireInitInv == WireInit => WireInv
  <1> SUFFICES ASSUME WireInit PROVE WireInv
    OBVIOUS
  <1>1. \A q \in Query, m \in Miner : outcome[q][m] = Terminal("pending")
    BY DEF WireInit
  <1>2. \A q \in Query, m \in Miner : OutcomeOK(q, m, outcome[q][m])
    BY <1>1, TerminalOK
  <1>3. outcome = [q \in Query |-> [m \in Miner |-> outcome[q][m]]]
    BY DEF WireInit
  <1>4. queries = <<>> /\ responses = {}
    BY DEF WireInit
  <1>5. queries \in Seq(Asked) /\ Len(queries) <= MaxQuery
    BY <1>4, WireAssumption
  <1>6. QED
    BY <1>2, <1>3, <1>4, <1>5 DEF WireInv

\* An answer and an outcome speak of one query only: they stay as they are when
\* another query is made and when another answer is signed.
LEMMA StepInv ==
  ASSUME WireInv,
         queries' \in Seq(Asked), Len(queries') <= MaxQuery,
         \A q \in DOMAIN queries : q \in DOMAIN queries' /\ queries'[q] = queries[q],
         responses \subseteq responses',
         \A r \in responses' : r \in responses \/ SignedAnswer(r),
         outcome' = [q \in Query |-> [m \in Miner |-> outcome'[q][m]]],
         \A q \in Query, m \in Miner : OutcomeOK(q, m, outcome'[q][m])
  PROVE  WireInv'
  <1>1. ASSUME NEW r \in responses' PROVE SignedAnswer(r)'
    <2>1. SignedAnswer(r)
      BY DEF WireInv
    <2> DEFINE q == r.says.request
    <2>2. q \in DOMAIN queries /\ q \in DOMAIN queries' /\ queries'[q] = queries[q]
      BY <2>1 DEF SignedAnswer
    <2>3. SignResponse(r.signature.key, q, r.submissions)' = SignResponse(r.signature.key, q, r.submissions)
      BY <2>2 DEF SignResponse, ResponseMessage
    <2>4. QED
      BY <2>1, <2>2, <2>3 DEF SignedAnswer
  <1>2. \A q \in Query, m \in Miner : OutcomeOK(q, m, outcome[q][m])'
    BY DEF OutcomeOK
  <1>3. QED
    BY <1>1, <1>2 DEF WireInv

\* A new query is the last one.
LEMMA QueryMinersInv ==
  ASSUME WireInv, NEW v \in Validator, NEW e \in 1..MaxEpoch, NEW n \in Quotas, QueryMiners(v, e, n)
  PROVE  WireInv'
  <1> DEFINE query == [validator |-> v, epoch |-> e, quota |-> n]
  <1>1. /\ queries' = Append(queries, query) /\ Len(queries) < MaxQuery
        /\ responses' = responses /\ outcome' = outcome
    BY DEF QueryMiners
  <1>2. query \in Asked /\ queries \in Seq(Asked)
    BY DEF WireInv, Asked
  <1> HIDE DEF query
  <1>3. queries' \in Seq(Asked) /\ Len(queries') <= MaxQuery
    BY <1>1, <1>2, WireAssumption
  <1>4. \A q \in DOMAIN queries : q \in DOMAIN queries' /\ queries'[q] = queries[q]
    BY <1>1, <1>2
  <1>5. QED
    BY <1>1, <1>3, <1>4, StepInv DEF WireInv

\* The miner signs the fitting packages, no more than the quota asked for.
LEMMA ForwardInv ==
  ASSUME WireInv, NEW m \in Honest, NEW q \in DOMAIN queries, NEW tasks \in TaskLists,
         Forward(m, q, tasks)
  PROVE  WireInv'
  <1> DEFINE quota == IF queries[q].quota < ServeQuota THEN queries[q].quota ELSE ServeQuota
             list == Fitting(Take(tasks, quota))
             r == SignResponse(m, q, list)
  <1>1. /\ responses' = responses \cup {r}
        /\ queries' = queries /\ outcome' = outcome
    BY DEF Forward
  <1>2. quota \in Nat /\ quota <= queries[q].quota /\ queries[q].quota \in Nat
    <2>1. queries[q].quota \in Nat /\ ServeQuota \in Nat
      BY QueryFacts, WireAssumption
    <2>2. QED
      BY <2>1
  <1>3. Take(tasks, quota) \in Seq(Package) /\ Len(Take(tasks, quota)) <= quota
    <2>1. tasks \in Seq(Package)
      BY WireAssumption
    <2> HIDE DEF quota
    <2>2. QED
      BY <1>2, <2>1, TakeFacts
  <1>4. list \in Seq(Package) /\ Len(list) <= queries[q].quota /\ PayloadSize(list) <= MaxResponse
    <2>1. /\ list \in Seq(Package) /\ Len(list) <= Len(Take(tasks, quota))
          /\ PayloadSize(list) <= MaxResponse
      BY <1>3, FittingFacts
    <2>2. Len(list) \in Nat /\ Len(Take(tasks, quota)) \in Nat
      BY <1>3, <2>1
    <2> HIDE DEF list, quota
    <2>3. QED
      BY <1>2, <1>3, <2>1, <2>2
  <1> HIDE DEF list
  <1>5. /\ r.signature.key = m /\ r.says.request = q /\ r.submissions = list
    BY DEF SignResponse, Sign, ResponseMessage, Message
  <1>6. r = SignResponse(m, q, list)
    OBVIOUS
  <1> HIDE DEF r
  <1>7. SignedAnswer(r)
    BY <1>4, <1>5, <1>6 DEF SignedAnswer
  <1>8. QED
    BY <1>1, <1>7, StepInv DEF WireInv

\* A query ends for an endpoint with what was made of its response, if any.
LEMMA OutcomeInv ==
  ASSUME WireInv, NEW q \in Query, NEW m \in Miner, NEW o, OutcomeOK(q, m, o),
         outcome' = [outcome EXCEPT ![q][m] = o], UNCHANGED <<queries, responses>>
  PROVE  WireInv'
  <1>1. outcome = [p \in Query |-> [n \in Miner |-> outcome[p][n]]]
    BY DEF WireInv
  <1>2. \A p \in Query, n \in Miner :
          outcome'[p][n] = IF p = q /\ n = m THEN o ELSE outcome[p][n]
    BY <1>1
  <1>3. outcome' = [p \in Query |-> [n \in Miner |-> outcome'[p][n]]]
    BY <1>1
  <1>4. \A p \in Query, n \in Miner : OutcomeOK(p, n, outcome'[p][n])
    BY <1>2 DEF WireInv
  <1>5. QED
    BY <1>3, <1>4, StepInv DEF WireInv

\* Every step preserves the invariant.
LEMMA WireStepInv == WireInv /\ [WireNext]_wireVars => WireInv'
  <1> SUFFICES ASSUME WireInv, [WireNext]_wireVars PROVE WireInv'
    OBVIOUS
  <1>1. DOMAIN queries \subseteq Query
    BY WireAssumption DEF WireInv, Query
  <1>2. ASSUME NEW q \in DOMAIN queries, NEW m \in Miner, NEW r \in Deliverable(m, q), Receive(m, q, r)
        PROVE  WireInv'
    BY <1>1, <1>2, ReceivedOK, OutcomeInv DEF Receive
  <1>3. ASSUME NEW q \in DOMAIN queries, NEW m \in Miner, NoAnswer(m, q)
        PROVE  WireInv'
    BY <1>1, <1>3, TerminalOK, OutcomeInv DEF NoAnswer
  <1>4. ASSUME UNCHANGED wireVars PROVE WireInv'
    BY <1>4, StepInv DEF wireVars, WireInv
  <1>5. QED
    BY <1>2, <1>3, <1>4, QueryMinersInv, ForwardInv DEF WireNext

\* WireInv holds in every reachable state of every instance.
LEMMA WireInvariance == WireSpec => []WireInv
  BY WireInitInv, WireStepInv, PTL DEF WireSpec

-----------------------------------------------------------------------------
\* Queries, answers and outcomes keep their types.
THEOREM WireTypeCorrect == WireSpec => []WireTypeOK
  <1>1. WireInv => WireTypeOK
    BY DEF WireInv, WireTypeOK, SignedAnswer, OutcomeOK, Asked
  <1>2. QED
    BY <1>1, WireInvariance, PTL

\* Packages scored for an honest miner are packages it signed for that query.
THEOREM OnlyAnswersCount == WireSpec => []PayloadsAreAnswers
  <1>1. WireInv => PayloadsAreAnswers
    BY WireAssumption DEF WireInv, PayloadsAreAnswers, OutcomeOK
  <1>2. QED
    BY <1>1, WireInvariance, PTL

\* The request id and the endpoint are in what was signed, so no signature is
\* accepted for two queries or two endpoints.
THEOREM SignaturesCountOnce == WireSpec => []CountedOnce
  <1>1. WireInv => CountedOnce
    BY DEF WireInv, CountedOnce, OutcomeOK
  <1>2. QED
    BY <1>1, WireInvariance, PTL

\* The answer of an honest miner passes every check of the validator and is
\* within the quota it asked for.
THEOREM HonestAnswersCount == WireSpec => []HonestAnswerCounts
  <1>1. ASSUME WireInv, NEW r \in responses
        PROVE  FromResponse(r.signature.key, r.says.request, r)
                 = WireMiner("ok", r.submissions, r.signature)
    <2> DEFINE m == r.signature.key
               q == r.says.request
               list == r.submissions
    <2>1. SignedAnswer(r)
      BY <1>1 DEF WireInv
    <2>2. /\ m \in Honest /\ q \in DOMAIN queries /\ list \in Seq(Package)
          /\ Len(list) <= queries[q].quota /\ PayloadSize(list) <= MaxResponse
          /\ r = SignResponse(m, q, list)
      BY <2>1 DEF SignedAnswer
    <2>3. /\ q \in Query /\ queries[q].quota \in Nat
          /\ queries[q].validator \in Validator /\ queries[q].epoch \in 1..MaxEpoch
          /\ queries[q].quota \in Quotas
      BY <1>1, <2>2, QueryFacts
    <2>4. PayloadSize(list) \in Nat
      BY <2>2, SizeIsNat
    <2>5. TransportFits(r)
      BY <2>2, <2>4, WireAssumption DEF TransportFits
    <2> HIDE DEF m, q, list
    <2>6. /\ r.says = ResponseMessage(m, q, Digest(list))
          /\ r.submissions = list
          /\ r.signature = Sign(m, r.says)
      BY <2>2 DEF SignResponse
    <2>7. r.signature # None
      <3>1. m \in Miner
        BY <2>2, WireAssumption
      <3>2. Digest(list) \in [sha256 : Seq(Package)]
        BY <2>2 DEF Digest
      <3> HIDE DEF Digest
      <3>3. r.signature \in Signature
        BY <2>3, <2>6, <3>1, <3>2 DEF Signature, Sign, ResponseMessage, Message
      <3>4. QED
        BY <3>3, NoneAssumption
    <2>8. Authentic(m, q, r)
      BY <2>6, <2>7 DEF Authentic, ResponseMessage, Message
    <2>9. Take(list, queries[q].quota) = list
      BY <2>2, <2>3, TakeFacts
    <2>10. ~(PayloadSize(r.submissions) > MaxResponse)
      BY <2>2, <2>4, <2>6, WireAssumption
    <2>11. FromResponse(m, q, r) = WireMiner("ok", list, r.signature)
      BY <2>5, <2>6, <2>8, <2>9, <2>10 DEF FromResponse
    <2>12. QED
      BY <2>11 DEF m, q, list
  <1>2. WireInv => HonestAnswerCounts
    BY <1>1 DEF HonestAnswerCounts
  <1>3. QED
    BY <1>2, WireInvariance, PTL

=============================================================================
