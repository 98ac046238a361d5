-------------------------- MODULE MinerServiceProofs --------------------------
(***************************************************************************)
(* The safety of MinerService for every number of connections, read-backs, *)
(* attempts, starts and faults: what admission promises also holds across  *)
(* crashes and restarts, and the miner's own reports are true.             *)
(***************************************************************************)
EXTENDS MinerService, MinerAdmissionProofs

-----------------------------------------------------------------------------
\* The inductive invariant

DoctorAt == {"off", "tcp", "chain", "judge", "sleep"}
DoctorState == [by : {"none", "unit", "operator"}, at : DoctorAt, attempt : Nat,
                tcp : BOOLEAN, chain : BOOLEAN]

ServiceTypeOK ==
  /\ phase \in {"down", "loading", "publishing", "read_back", "serving"}
  /\ doctor \in DoctorState

\* The SDK of this process has seen every request that passed verify in it.
LifeInv == life \subseteq sdkSeen

\* The chain's endpoint is exact from the read-back on, until the UID is lost.
PublishedInv == published => endpoint = "exact"

\* What an attempt of doctor has observed is so until it is lost: its probe while
\* the miner has not stopped, its read while the hotkey has kept its UID.
ProbeInv ==
  /\ doctor.at \in {"chain", "judge"} /\ doctor.tcp => Listening \/ lapsed
  /\ doctor.at = "judge" /\ doctor.chain => metagraph_has_exact_axon \/ dropped

ServiceInv ==
  /\ AdmCore
  /\ ServiceTypeOK
  /\ LifeInv
  /\ PublishedInv
  /\ ProbeInv

-----------------------------------------------------------------------------
\* Admission across the life of the process

\* A process that starts afresh has full buckets and no request in its hands.
LEMMA ForgetInd ==
  ASSUME AdmCore, Forget
  PROVE  AdmCore' /\ LifeInv'
  <1>1. /\ MaxTime \in Nat /\ MaxBytes \in Nat /\ Cost \in Nat
        /\ HttpBurst \in Nat /\ AuthBurst \in Nat /\ HttpRate \in Nat /\ AuthRate \in Nat
    BY AdmissionAssumption
  <1>2. HttpBurst * Cost \in Nat /\ AuthBurst * Cost \in Nat
    BY <1>1, NatProduct
  <1>3. now \in Nat /\ now' = now
    BY <1>1 DEF AdmCore, AdmTypeOK, Forget
  <1>4. HttpRate * now \in Nat /\ AuthRate * now \in Nat
    BY <1>1, <1>3, NatProduct
  <1>5. AdmTypeOK'
    BY <1>1, <1>2, <1>3 DEF AdmCore, AdmTypeOK, Forget, Bucket
  <1>6. ReqInv' /\ BodyInv'
    BY <1>1 DEF Forget, ReqInv, BodyInv, WholeBody
  <1>7. HttpRateInv'
    <2> SUFFICES ASSUME NEW k \in IP
                 PROVE  (/\ httpBucket[k].at <= now
                         /\ passed[k] * Cost + httpBucket[k].tokens
                              <= HttpBurst * Cost + HttpRate * httpBucket[k].at)'
      BY DEF HttpRateInv
    <2>1. httpBucket'[k] = [tokens |-> HttpBurst * Cost, at |-> now] /\ passed'[k] = 0
      BY DEF Forget
    <2>2. QED
      BY <2>1, <1>1, <1>2, <1>3, <1>4
  <1>8. AuthRateInv'
    <2> SUFFICES ASSUME NEW h \in Hotkey
                 PROVE  (/\ authBucket[h].at <= now
                         /\ admitted[h] * Cost + authBucket[h].tokens
                              <= AuthBurst * Cost + AuthRate * authBucket[h].at)'
      BY DEF AuthRateInv
    <2>1. authBucket'[h] = [tokens |-> AuthBurst * Cost, at |-> now] /\ admitted'[h] = 0
      BY DEF Forget
    <2>2. QED
      BY <2>1, <1>1, <1>2, <1>3, <1>4
  <1>9. ServedIsAuthentic'
    BY DEF AdmCore, ServedIsAuthentic, AsSigned, Forget
  <1>10. LifeInv'
    BY DEF Forget, LifeInv
  <1>11. QED
    BY <1>5, <1>6, <1>7, <1>8, <1>9, <1>10 DEF AdmCore

LEMMA DownInd ==
  ASSUME AdmCore, Down
  PROVE  AdmCore' /\ LifeInv' /\ phase' = "down" /\ lapsed' = TRUE /\ dropped' = dropped
  BY ForgetInd DEF Down

LEMMA KeptInd ==
  ASSUME AdmCore, LifeInv, UNCHANGED <<admVars, life>>
  PROVE  AdmCore' /\ LifeInv'
  <1>1. AdmCore'
    BY StutterInd
  <1>2. QED
    BY <1>1 DEF LifeInv, admVars

\* Only default_verify's return moves a connection from the await to verified,
\* and the request it carries then is new to the SDK.
LEMMA PassesVerify ==
  ASSUME AdmCore, NEW d \in Conn, Handle(d), NEW c \in Conn,
         pc[c] = "awaiting", pc'[c] = "verified"
  PROVE  req[c].id \notin sdkSeen /\ req[c].id \in sdkSeen'
  <1>1. ConnTypeOK
    BY ConnTyped DEF AdmCore
  <1>2. VerifyAdmit(d)
    BY <1>1 DEF Handle, Connect, ReceiveChunk, Disconnect, VerifyPolicy, SdkRejects,
                Forward, Idle, ConnTypeOK, connVars
  <1>3. d = c
    BY <1>1, <1>2 DEF VerifyAdmit, Idle, ConnTypeOK
  <1>4. SdkAccepts(req[c]) /\ req[c].id \in sdkSeen'
    BY <1>2, <1>3 DEF VerifyAdmit
  <1>5. req[c].id.nonce \in Int
    BY DEF AdmCore, ReqInv, Request, Identity
  <1>6. QED
    BY <1>4, <1>5 DEF SdkAccepts

LEMMA AdmissionIsAdm == Admission => AdmNext
  BY DEF Admission, AdmNext

\* The three moves of Admission, and what the last one is.
LEMMA AdmissionPasses ==
  ASSUME AdmCore, Admission, NEW c \in Conn, pc[c] = "awaiting", pc'[c] = "verified"
  PROVE  req[c].id \notin sdkSeen /\ req[c].id \in sdkSeen'
  <1>1. ~AdvanceClock /\ ~\E h \in Hotkey, u \in Uuid : Sign(h, u)
    BY DEF AdvanceClock, Sign, connVars
  <1>2. PICK d \in Conn : Handle(d)
    BY <1>1 DEF Admission
  <1>3. QED
    BY <1>2, PassesVerify

LEMMA SdkRemembers == ASSUME AdmCore, AdmNext PROVE sdkSeen \subseteq sdkSeen'
  <1>1. [AdmNext]_admVars
    OBVIOUS
  <1>2. \A c \in Conn : VerifyAdmit(c) => sdkSeen \subseteq sdkSeen'
    BY DEF VerifyAdmit
  <1>3. AdvanceClock => sdkSeen' = sdkSeen
    BY DEF AdvanceClock
  <1>4. QED
    BY <1>1, <1>2, <1>3, StepKinds

LEMMA AdmissionInd ==
  ASSUME ServiceInv, Admission
  PROVE  ServiceInv'
  <1>1. AdmCore'
    BY AdmissionIsAdm, AdmCoreStep DEF ServiceInv
  <1>2. LifeInv'
    <2>1. sdkSeen \subseteq sdkSeen'
      BY AdmissionIsAdm, SdkRemembers DEF ServiceInv
    <2>2. life' = life \cup {req[c].id : c \in {d \in Conn : pc[d] = "awaiting"
                                                           /\ pc'[d] = "verified"}}
      BY DEF Admission
    <2>3. \A c \in Conn : pc[c] = "awaiting" /\ pc'[c] = "verified" => req[c].id \in sdkSeen'
      BY AdmissionPasses DEF ServiceInv
    <2>4. life \subseteq sdkSeen
      BY DEF ServiceInv, LifeInv
    <2>5. QED
      BY <2>1, <2>2, <2>3, <2>4 DEF LifeInv
  <1>3. UNCHANGED <<phase, endpoint, registered, published, doctor, lapsed, dropped>>
    BY DEF Admission, serviceVars, moments
  <1>4. ServiceTypeOK' /\ PublishedInv' /\ ProbeInv'
    BY <1>3 DEF ServiceInv, ServiceTypeOK, PublishedInv, ProbeInv, Listening,
                metagraph_has_exact_axon
  <1>5. QED
    BY <1>1, <1>2, <1>4 DEF ServiceInv

-----------------------------------------------------------------------------
\* The doctor's states

LEMMA NoDoctorState == NoDoctor \in DoctorState /\ NoDoctor.at = "off"
  BY DEF DoctorState, DoctorAt, NoDoctor

LEMMA NewDoctorState ==
  ASSUME NEW by \in {"unit", "operator"}, NEW n \in Nat
  PROVE  [by |-> by, at |-> "tcp", attempt |-> n, tcp |-> FALSE, chain |-> FALSE] \in DoctorState
  BY DEF DoctorState, DoctorAt

LEMMA ProbedState ==
  ASSUME NEW d \in DoctorState, NEW ok \in BOOLEAN, NEW e,
         e = [d EXCEPT !.at = "chain", !.tcp = ok]
  PROVE  e \in DoctorState /\ e.at = "chain" /\ e.tcp = ok
  BY DEF DoctorState, DoctorAt

LEMMA ReadState ==
  ASSUME NEW d \in DoctorState, NEW ok \in BOOLEAN, NEW e,
         e = [d EXCEPT !.at = "judge", !.chain = ok]
  PROVE  e \in DoctorState /\ e.at = "judge" /\ e.chain = ok /\ e.tcp = d.tcp
  BY DEF DoctorState, DoctorAt

LEMMA SleepState ==
  ASSUME NEW d \in DoctorState, NEW e, e = [d EXCEPT !.at = "sleep", !.attempt = @ + 1]
  PROVE  e \in DoctorState /\ e.at = "sleep"
  <1>1. d.attempt + 1 \in Nat
    BY DEF DoctorState
  <1>2. QED
    BY <1>1 DEF DoctorState, DoctorAt

LEMMA RetryState ==
  ASSUME NEW d \in DoctorState, NEW e, e = [d EXCEPT !.at = "tcp"]
  PROVE  e \in DoctorState /\ e.at = "tcp"
  BY DEF DoctorState, DoctorAt

-----------------------------------------------------------------------------
\* publish_axon and the chain

\* A step of something else leaves what doctor observed true.
LEMMA ProbeKept ==
  ASSUME ProbeInv, doctor' = doctor,
         Listening' \/ lapsed' = TRUE \/ UNCHANGED <<phase, lapsed>>,
         \/ dropped' = TRUE
         \/ dropped' = dropped /\ (metagraph_has_exact_axon => metagraph_has_exact_axon')
  PROVE  ProbeInv'
  BY DEF ProbeInv, Listening

\* A doctor that has yet to look has observed nothing.
LEMMA NoProbe ==
  ASSUME doctor'.at \notin {"chain", "judge"}
  PROVE  ProbeInv'
  BY DEF ProbeInv

LEMMA ChainKept ==
  ASSUME UNCHANGED <<registered, endpoint>>
  PROVE  metagraph_has_exact_axon => metagraph_has_exact_axon'
  BY DEF metagraph_has_exact_axon

\* A step keeps the reports true if it keeps what they speak of.
LEMMA ReportsKept ==
  ASSUME ServiceInv
  PROVE  /\ UNCHANGED <<phase, doctor>> => ServiceTypeOK'
         /\ UNCHANGED <<published, endpoint>> => PublishedInv'
         /\ UNCHANGED doctor /\ phase' \in {"down", "serving", "read_back", "publishing", "loading"}
              => ServiceTypeOK'
         /\ ~published' => PublishedInv'
  BY DEF ServiceInv, ServiceTypeOK, PublishedInv

LEMMA PublishFailsInd ==
  ASSUME ServiceInv, PublishFails, metagraph_has_exact_axon => metagraph_has_exact_axon'
  PROVE  ServiceInv'
  <1>1. AdmCore' /\ LifeInv' /\ phase' = "down" /\ lapsed' = TRUE /\ dropped' = dropped
    BY DownInd DEF ServiceInv, PublishFails
  <1>2. published' = FALSE /\ doctor' = doctor
    BY DEF PublishFails
  <1>3. ProbeInv'
    BY <1>1, <1>2, ProbeKept DEF ServiceInv
  <1>4. QED
    BY <1>1, <1>2, <1>3, ReportsKept DEF ServiceInv

LEMMA ServeAxonInd ==
  ASSUME ServiceInv, NEW included \in {"now", "later", "never"}, NEW success \in BOOLEAN,
         ServeAxon(included, success)
  PROVE  ServiceInv'
  <1>0. metagraph_has_exact_axon => metagraph_has_exact_axon'
    BY DEF ServeAxon, metagraph_has_exact_axon
  <1>1. CASE PublishFails
    BY <1>0, <1>1, PublishFailsInd
  <1>2. CASE ~PublishFails
    <2>1. /\ phase' = "read_back" /\ UNCHANGED <<admVars, doctor, lapsed, dropped, published, life>>
          /\ endpoint' = endpoint \/ endpoint' = "exact"
      BY <1>2 DEF ServeAxon, moments
    <2>2. AdmCore' /\ LifeInv'
      BY <2>1, KeptInd DEF ServiceInv
    <2>3. PublishedInv'
      BY <2>1 DEF ServiceInv, PublishedInv
    <2>4. ServiceTypeOK'
      BY <2>1, ReportsKept
    <2>5. ProbeInv'
      BY <1>0, <2>1, ProbeKept DEF ServiceInv, Listening
    <2>6. QED
      BY <2>2, <2>3, <2>4, <2>5 DEF ServiceInv
  <1>3. QED
    BY <1>1, <1>2

LEMMA ReadBackInd == ASSUME ServiceInv, ReadBackAxon PROVE ServiceInv'
  <1>0. UNCHANGED <<registered, endpoint>>
    BY DEF ReadBackAxon, chain
  <1>1. CASE PublishFails
    BY <1>0, <1>1, ChainKept, PublishFailsInd
  <1>2. CASE ~PublishFails
    <2>1. UNCHANGED <<admVars, doctor, lapsed, dropped, life>>
      BY <1>2 DEF ReadBackAxon, moments
    <2>2. AdmCore' /\ LifeInv'
      BY <2>1, KeptInd DEF ServiceInv
    <2>3. \/ phase' = "serving" /\ endpoint = "exact"
          \/ UNCHANGED <<phase, published>>
      BY <1>2 DEF ReadBackAxon, metagraph_has_exact_axon
    <2>4. ProbeInv'
      BY <1>0, <2>1, <2>3, ChainKept, ProbeKept DEF ServiceInv, Listening
    <2>5. QED
      BY <1>0, <2>1, <2>2, <2>3, <2>4, ReportsKept DEF ServiceInv, PublishedInv
  <1>3. QED
    BY <1>1, <1>2

LEMMA ChainInd == ASSUME ServiceInv, AxonLands \/ Deregister PROVE ServiceInv'
  <1>1. UNCHANGED <<admVars, phase, doctor, lapsed, life>>
    BY DEF AxonLands, Deregister, moments
  <1>2. AdmCore' /\ LifeInv'
    BY <1>1, KeptInd DEF ServiceInv
  <1>3. PublishedInv'
    BY DEF ServiceInv, PublishedInv, AxonLands, Deregister
  <1>4. \/ dropped' = TRUE
        \/ dropped' = dropped /\ (metagraph_has_exact_axon => metagraph_has_exact_axon')
    BY DEF AxonLands, Deregister, moments, metagraph_has_exact_axon
  <1>5. ProbeInv'
    BY <1>1, <1>4, ProbeKept DEF ServiceInv
  <1>6. QED
    BY <1>1, <1>2, <1>3, <1>5, ReportsKept DEF ServiceInv

-----------------------------------------------------------------------------
\* The process, the unit and the doctor

\* The steps that stop the process and leave the chain's record alone.
LEMMA StopInd ==
  ASSUME ServiceInv, Down, doctor' \in {doctor, NoDoctor},
         UNCHANGED <<published, endpoint, registered>>
  PROVE  ServiceInv'
  <1>1. AdmCore' /\ LifeInv' /\ phase' = "down" /\ lapsed' = TRUE /\ dropped' = dropped
    BY DownInd DEF ServiceInv
  <1>2. ServiceTypeOK'
    BY <1>1, NoDoctorState DEF ServiceInv, ServiceTypeOK
  <1>3. ProbeInv'
    <2>1. CASE doctor' = doctor
      BY <1>1, <2>1, ChainKept, ProbeKept DEF ServiceInv
    <2>2. CASE doctor' = NoDoctor
      BY <2>2, NoProbe, NoDoctorState
    <2>3. QED
      BY <2>1, <2>2
  <1>4. QED
    BY <1>1, <1>2, <1>3, ReportsKept DEF ServiceInv

\* The steps that touch neither the requests nor the chain, and whose doctor is
\* not between its two checks.
LEMMA QuietInd ==
  ASSUME ServiceInv, UNCHANGED <<admVars, life, endpoint>>,
         published' = published \/ ~published',
         phase' \in {"down", "loading", "publishing", "read_back", "serving"},
         doctor' \in DoctorState,
         ProbeInv'
  PROVE  ServiceInv'
  <1>1. AdmCore' /\ LifeInv'
    BY KeptInd DEF ServiceInv
  <1>2. PublishedInv'
    BY DEF ServiceInv, PublishedInv
  <1>3. QED
    BY <1>1, <1>2 DEF ServiceInv, ServiceTypeOK

LEMMA OperatorInd == ASSUME ServiceInv, Operator PROVE ServiceInv'
  <1>1. ASSUME NEW publish \in BOOLEAN, Serve(publish) PROVE ServiceInv'
    <2>1. /\ UNCHANGED <<admVars, life, endpoint, registered, doctor, lapsed, dropped>>
          /\ ~published' /\ phase' \in {"publishing", "serving"}
      BY <1>1 DEF Serve, Launch, chain, moments
    <2>2. ProbeInv'
      BY <2>1, ChainKept, ProbeKept DEF ServiceInv, Listening
    <2>3. QED
      BY <2>1, <2>2, QuietInd DEF ServiceInv, ServiceTypeOK
  <1>2. CASE Interrupt
    BY <1>2, StopInd DEF Interrupt, chain
  <1>3. CASE StartUnit
    <2>1. /\ UNCHANGED <<admVars, life, endpoint>> /\ ~published' /\ phase' = "loading"
          /\ doctor' = [by |-> "unit", at |-> "tcp", attempt |-> 1, tcp |-> FALSE,
                        chain |-> FALSE]
      BY <1>3 DEF StartUnit, Launch, chain, NewDoctor
    <2>2. ProbeInv' /\ doctor' \in DoctorState
      BY <2>1, NoProbe, NewDoctorState
    <2>3. QED
      BY <2>1, <2>2, QuietInd
  <1>4. CASE StopUnit
    BY <1>4, StopInd DEF StopUnit, chain
  <1>5. ASSUME NEW first \in 1..Attempts, RunDoctor(first) PROVE ServiceInv'
    <2>1. first \in Nat
      BY ServiceAssumption
    <2>2. /\ UNCHANGED <<admVars, life, endpoint, published, phase>>
          /\ doctor' = [by |-> "operator", at |-> "tcp", attempt |-> first, tcp |-> FALSE,
                        chain |-> FALSE]
      BY <1>5 DEF RunDoctor, chain, NewDoctor
    <2>3. ProbeInv' /\ doctor' \in DoctorState
      BY <2>1, <2>2, NoProbe, NewDoctorState
    <2>4. QED
      BY <2>2, <2>3, QuietInd DEF ServiceInv, ServiceTypeOK
  <1>6. QED
    BY <1>1, <1>2, <1>3, <1>4, <1>5 DEF Operator

LEMMA DoctorTcpInd ==
  ASSUME ServiceInv, NEW reachable \in BOOLEAN, DoctorTcp(reachable)
  PROVE  ServiceInv'
  <1> DEFINE ok == PortChecks(LocalPortState, reachable)
  <1>1. /\ UNCHANGED <<admVars, life, endpoint, published, phase>>
        /\ doctor' = [doctor EXCEPT !.at = "chain", !.tcp = ok]
        /\ reachable => Listening
    BY DEF DoctorTcp, chain
  <1>2. ok \in BOOLEAN /\ (ok => reachable)
    BY DEF PortChecks
  <1> HIDE DEF ok
  <1>3. doctor' \in DoctorState /\ doctor'.at = "chain" /\ doctor'.tcp = ok
    <2>1. doctor \in DoctorState
      BY DEF ServiceInv, ServiceTypeOK
    <2>2. QED
      BY <1>1, <1>2, <2>1, ProbedState
  <1>4. ProbeInv'
    BY <1>1, <1>2, <1>3 DEF ProbeInv, Listening
  <1>5. QED
    BY <1>1, <1>3, <1>4, QuietInd DEF ServiceInv, ServiceTypeOK

LEMMA DoctorChainInd ==
  ASSUME ServiceInv, NEW readable \in BOOLEAN, DoctorChain(readable)
  PROVE  ServiceInv'
  <1> DEFINE exact == ChainChecks(readable)
  <1>1. /\ UNCHANGED <<admVars, life, endpoint, registered, published, phase, lapsed>>
        /\ doctor.at = "chain" /\ doctor' = [doctor EXCEPT !.at = "judge", !.chain = exact]
    BY DEF DoctorChain, chain, moments
  <1>2. exact \in BOOLEAN /\ (exact => metagraph_has_exact_axon)
    BY DEF ChainChecks
  <1> HIDE DEF exact
  <1>3. /\ doctor' \in DoctorState /\ doctor'.at = "judge"
        /\ doctor'.chain = exact /\ doctor'.tcp = doctor.tcp
    <2>1. doctor \in DoctorState
      BY DEF ServiceInv, ServiceTypeOK
    <2>2. QED
      BY <1>1, <1>2, <2>1, ReadState
  <1>4. ProbeInv'
    BY <1>1, <1>2, <1>3 DEF ServiceInv, ProbeInv, Listening, metagraph_has_exact_axon
  <1>5. QED
    BY <1>1, <1>3, <1>4, QuietInd DEF ServiceInv, ServiceTypeOK

LEMMA DoctorJudgesInd == ASSUME ServiceInv, DoctorJudges PROVE ServiceInv'
  <1>1. UNCHANGED <<endpoint, registered, published>>
    BY DEF DoctorJudges, chain
  <1>2. CASE Down /\ doctor' = NoDoctor
    BY <1>1, <1>2, StopInd
  <1>3. CASE /\ UNCHANGED <<admVars, life, phase>>
             /\ \/ doctor' = NoDoctor
                \/ doctor' = [doctor EXCEPT !.at = "sleep", !.attempt = @ + 1]
    <2>1. doctor' \in DoctorState /\ doctor'.at \in {"off", "sleep"}
      <3>1. doctor \in DoctorState
        BY DEF ServiceInv, ServiceTypeOK
      <3>2. QED
        BY <1>3, <3>1, NoDoctorState, SleepState
    <2>2. ProbeInv'
      BY <2>1, NoProbe
    <2>3. QED
      BY <1>1, <1>3, <2>1, <2>2, QuietInd DEF ServiceInv, ServiceTypeOK
  <1>4. QED
    BY <1>2, <1>3 DEF DoctorJudges, Finished

LEMMA ProceedInd == ASSUME ServiceInv, Proceed PROVE ServiceInv'
  <1>1. CASE AxonStarts
    <2>1. /\ UNCHANGED <<admVars, life, endpoint, registered, doctor, published, lapsed, dropped>>
          /\ phase' = "serving"
      BY <1>1 DEF AxonStarts, chain, moments
    <2>2. ProbeInv'
      BY <2>1, ChainKept, ProbeKept DEF ServiceInv, Listening
    <2>3. QED
      BY <2>1, <2>2, QuietInd DEF ServiceInv, ServiceTypeOK
  <1>2. CASE ReadBackAxon
    BY <1>2, ReadBackInd
  <1>3. CASE RestartUnit
    <2>1. /\ UNCHANGED <<admVars, life, endpoint, published>> /\ phase' = "loading"
          /\ doctor' = [by |-> "unit", at |-> "tcp", attempt |-> 1, tcp |-> FALSE,
                        chain |-> FALSE]
      BY <1>3 DEF RestartUnit, chain, NewDoctor
    <2>2. ProbeInv' /\ doctor' \in DoctorState
      BY <2>1, NoProbe, NewDoctorState
    <2>3. QED
      BY <2>1, <2>2, QuietInd
  <1>4. CASE DoctorRetries
    <2>1. /\ UNCHANGED <<admVars, life, endpoint, published, phase>>
          /\ doctor' = [doctor EXCEPT !.at = "tcp"]
      BY <1>4 DEF DoctorRetries, chain
    <2>2. doctor' \in DoctorState /\ doctor'.at = "tcp"
      BY <2>1, RetryState DEF ServiceInv, ServiceTypeOK
    <2>3. ProbeInv'
      BY <2>2, NoProbe
    <2>4. QED
      BY <2>1, <2>2, <2>3, QuietInd DEF ServiceInv, ServiceTypeOK
  <1>5. QED
    BY <1>1, <1>2, <1>3, <1>4, DoctorTcpInd, DoctorChainInd, DoctorJudgesInd DEF Proceed

-----------------------------------------------------------------------------
\* The theorems

LEMMA ServiceStart == ServiceInit => ServiceInv
  <1> SUFFICES ASSUME ServiceInit PROVE ServiceInv
    OBVIOUS
  <1>1. AdmCore
    BY AdmInitInd DEF ServiceInit
  <1>2. QED
    BY <1>1, NoDoctorState
       DEF ServiceInit, ServiceInv, ServiceTypeOK, LifeInv, PublishedInv, ProbeInv, NoDoctor

LEMMA ServiceStep == ServiceInv /\ [ServiceNext]_minerVars => ServiceInv'
  <1> SUFFICES ASSUME ServiceInv, [ServiceNext]_minerVars PROVE ServiceInv'
    OBVIOUS
  <1>1. CASE Admission
    BY <1>1, AdmissionInd
  <1>2. CASE Proceed \/ Operator
    BY <1>2, ProceedInd, OperatorInd
  <1>3. CASE PublishRaises
    BY <1>3, ChainKept, PublishFailsInd DEF PublishRaises, chain
  <1>4. CASE Crash
    BY <1>4, StopInd DEF Crash, chain
  <1>5. CASE GiveUp
    <2>1. UNCHANGED <<admVars, life, endpoint, registered, doctor, published, lapsed, dropped,
                      phase>>
      BY <1>5 DEF GiveUp, chain, moments
    <2>2. ProbeInv'
      BY <2>1, ChainKept, ProbeKept DEF ServiceInv
    <2>3. QED
      BY <2>1, <2>2, QuietInd DEF ServiceInv, ServiceTypeOK
  <1>6. CASE \E included \in {"now", "later", "never"}, success \in BOOLEAN :
               ServeAxon(included, success)
    BY <1>6, ServeAxonInd
  <1>7. CASE AxonLands \/ Deregister
    BY <1>7, ChainInd
  <1>8. CASE UNCHANGED minerVars
    <2>1. UNCHANGED <<admVars, life, endpoint, registered, doctor, published, lapsed, dropped,
                      phase>>
      BY <1>8 DEF minerVars, serviceVars, moments
    <2>2. ProbeInv'
      BY <2>1, ChainKept, ProbeKept DEF ServiceInv
    <2>3. QED
      BY <2>1, <2>2, QuietInd DEF ServiceInv, ServiceTypeOK
  <1>9. QED
    BY <1>1, <1>2, <1>3, <1>4, <1>5, <1>6, <1>7, <1>8 DEF ServiceNext

LEMMA ServiceInductive == ServiceSpec => []ServiceInv
  BY ServiceStart, ServiceStep, PTL DEF ServiceSpec

\* publish_axon reports success only after the read-back, and no late
\* inclusion of an extrinsic undoes what it reported.
THEOREM PublicationIsExact == ServiceSpec => []PublishedIsExact
  <1>1. ServiceInv => PublishedIsExact
    BY DEF ServiceInv, PublishedInv, PublishedIsExact
  <1>2. QED
    BY <1>1, ServiceInductive, PTL

\* Crashes and restarts in the middle of a body never let a part of one
\* through to the SDK.
THEOREM BodyWholeAcrossRestarts == ServiceSpec => []WholeBody
  <1>1. ServiceInv => WholeBody
    BY DEF ServiceInv, AdmCore, BodyInv
  <1>2. QED
    BY <1>1, ServiceInductive, PTL

\* Whatever a restart forgets, only what a configured validator signed reaches
\* forward.
THEOREM ServedAuthenticAcrossRestarts == ServiceSpec => []ServedIsAuthentic
  <1>1. ServiceInv => ServedIsAuthentic
    BY DEF ServiceInv, AdmCore
  <1>2. QED
    BY <1>1, ServiceInductive, PTL

\* The only way past verify for a second time is a restart: within the life of
\* one process a request is accepted at most once, in every order of
\* deliveries, stops and failed publications.
THEOREM AcceptedOncePerLife == ServiceSpec => AcceptOncePerLife
  <1> DEFINE Once == \A c \in Conn : pc[c] = "awaiting" /\ pc'[c] = "verified"
                                       => req[c].id \notin life
  <1>1. ServiceInv /\ [ServiceNext]_minerVars => [Once]_minerVars
    <2> SUFFICES ASSUME ServiceInv, ServiceNext, NEW c \in Conn,
                        pc[c] = "awaiting", pc'[c] = "verified"
                 PROVE  req[c].id \notin life
      OBVIOUS
    <2>1. CASE Admission
      BY <2>1, AdmissionPasses DEF ServiceInv, LifeInv
    <2>2. ~Down /\ ~UNCHANGED admVars
      BY DEF Down, Forget, admVars, connVars
    <2>3. ~PublishFails
      BY <2>2 DEF PublishFails
    <2>4. ~Proceed
      BY <2>2, <2>3 DEF Proceed, AxonStarts, ReadBackAxon, RestartUnit, DoctorRetries, DoctorTcp,
                        DoctorChain, DoctorJudges
    <2>5. ~Operator
      BY <2>2 DEF Operator, Serve, Launch, Interrupt, StartUnit, StopUnit, RunDoctor
    <2>6. QED
      BY <2>1, <2>2, <2>3, <2>4, <2>5
         DEF ServiceNext, PublishRaises, Crash, GiveUp, ServeAxon, AxonLands, Deregister
  <1>2. QED
    BY <1>1, ServiceInductive, PTL DEF ServiceSpec, AcceptOncePerLife

\* doctor's verdict speaks of the moment it is given although its probe and its
\* chain read are earlier and apart: only a miner that stopped, or a UID that was
\* lost, after this attempt began makes an "ok" outdated, and no result of an
\* earlier attempt enters it.
THEOREM DoctorIsTruthful == ServiceSpec => DoctorTellsTruth
  <1> DEFINE Truth == verdict' = "ok" /\ verdict # "ok"
                        => (metagraph_has_exact_axon \/ dropped) /\ (Listening \/ lapsed)
  <1>1. ServiceInv /\ [ServiceNext]_minerVars => [Truth]_minerVars
    <2> SUFFICES ASSUME ServiceInv, ServiceNext, verdict' = "ok", verdict # "ok"
                 PROVE  (metagraph_has_exact_axon \/ dropped) /\ (Listening \/ lapsed)
      OBVIOUS
    <2>1. verdict' # verdict /\ verdict' # "none" /\ verdict' # "failed"
      OBVIOUS
    <2>2. ~Admission
      BY <2>1 DEF Admission, serviceVars
    <2>3. ~PublishFails
      BY <2>1 DEF PublishFails
    <2>4. ~Operator
      BY <2>1 DEF Operator, Serve, Interrupt, StartUnit, StopUnit, RunDoctor
    <2>5. Proceed
      BY <2>1, <2>2, <2>3, <2>4
         DEF ServiceNext, PublishRaises, Crash, GiveUp, ServeAxon, AxonLands, Deregister
    <2>6. DoctorJudges
      BY <2>1, <2>3, <2>5 DEF Proceed, AxonStarts, ReadBackAxon, RestartUnit, DoctorRetries,
                              DoctorTcp, DoctorChain
    <2>7. doctor.at = "judge" /\ doctor.tcp /\ doctor.chain
      BY <2>1, <2>6 DEF DoctorJudges, Finished
    <2>8. QED
      BY <2>7 DEF ServiceInv, ProbeInv
  <1>2. QED
    BY <1>1, ServiceInductive, PTL DEF ServiceSpec, DoctorTellsTruth

=============================================================================
