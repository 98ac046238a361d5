----------------------------- MODULE MinerService -----------------------------
(***************************************************************************)
(* The life of a miner: `serve` with and without --publish, the systemd    *)
(* unit that restarts it, `doctor`, and the admission of requests (module  *)
(* MinerAdmission) for as long as the axon listens.                        *)
(*                                                                         *)
(* The chain holds one endpoint for the miner's hotkey; "exact" is the     *)
(* literal address and port of the command lines, "other" any other one or *)
(* none.  Everything admission keeps is in the memory of the process.  One *)
(* process at a time has the port; it is started with --validator-hotkey.  *)
(* Command lines that are refused before the socket is opened change       *)
(* nothing and are left out.                                               *)
(***************************************************************************)
EXTENDS MinerAdmission

CONSTANTS
  ReadBacks,    \* metagraph reads after serve_axon
  Attempts,     \* doctor --attempts of the unit
  StartBurst,   \* StartLimitBurst
  MaxFaults,    \* bound: crashes, failed probes or reads, and slow starts
  MaxLaunches   \* bound: starts by the operator

ASSUME ServiceAssumption ==
  /\ {ReadBacks, Attempts, StartBurst} \subseteq Nat \ {0}
  /\ {MaxFaults, MaxLaunches} \subseteq Nat

VARIABLES
  phase,      \* of the serve process
  reads,      \* metagraph reads made by publish_axon
  endpoint,   \* the chain's endpoint of the hotkey
  registered, \* ... and whether the hotkey has a UID
  inflight,   \* a serve_axon extrinsic that is not included yet
  unit,       \* the systemd unit
  starts,     \* starts of it that count towards the limit
  doctor,     \* [by, at, attempt, tcp, chain]: the doctor that is running
  verdict,    \* what the last one said
  lapsed,     \* history: the miner stopped since the doctor's attempt began
  dropped,    \* history: ... and the hotkey lost its UID
  published,  \* history: axon_publish=ok was reported, and the UID kept since
  life,       \* history: requests that passed verify since the last start
  faults, launches

moments == <<lapsed, dropped>>
serviceVars == <<phase, reads, endpoint, registered, inflight, unit, starts, doctor, verdict,
                 moments, published, faults, launches>>
chain == <<endpoint, registered, inflight>>
minerVars == <<admVars, serviceVars, life>>

NoDoctor == [by |-> "none", at |-> "off", attempt |-> 0, tcp |-> FALSE, chain |-> FALSE]

Listening == phase \in {"publishing", "read_back", "serving"}

ServiceInit ==
  /\ AdmInit
  /\ phase = "down" /\ reads = 0
  /\ endpoint \in {"other", "exact"} /\ registered = TRUE /\ inflight = FALSE
  /\ unit = "off" /\ starts = 0
  /\ doctor = NoDoctor /\ verdict = "none"
  /\ lapsed = FALSE /\ dropped = FALSE
  /\ published = FALSE /\ life = {}
  /\ faults = 0 /\ launches = 0

-----------------------------------------------------------------------------
(***************************************************************************)
(* The process starts and ends.                                            *)
(***************************************************************************)

Fault == faults < MaxFaults /\ faults' = faults + 1

\* The buckets, the replay cache and the SDK's nonces die with the process.
Forget ==
  /\ pc' = [c \in Conn |-> "idle"]
  /\ req' = [c \in Conn |-> NoRequest]
  /\ size' = [c \in Conn |-> 0] /\ got' = [c \in Conn |-> 0]
  /\ httpBucket' = [k \in IP |-> [tokens |-> HttpBurst * Cost, at |-> now]]
  /\ authBucket' = [k \in Hotkey |-> [tokens |-> AuthBurst * Cost, at |-> now]]
  /\ accepted' = {} /\ sdkSeen' = {}
  /\ passed' = [k \in IP |-> 0] /\ admitted' = [k \in Hotkey |-> 0]
  /\ life' = {}
  /\ UNCHANGED <<now, signed, served, log, refused>>

Down ==
  /\ phase' = "down" /\ reads' = 0
  /\ lapsed' = TRUE /\ UNCHANGED dropped
  /\ Forget

Launch(to) ==
  /\ phase = "down" /\ launches < MaxLaunches
  /\ launches' = launches + 1
  /\ phase' = to
  /\ UNCHANGED <<admVars, reads, chain, life, faults>>

\* dolores-miner serve in the foreground; the axon starts, then publish_axon.
Serve(publish) ==
  /\ unit \in {"off", "failed"}
  /\ Launch(IF publish THEN "publishing" ELSE "serving")
  /\ published' = FALSE
  /\ UNCHANGED <<unit, starts, doctor, verdict, moments>>

\* Ctrl-C in the foreground.
Interrupt ==
  /\ phase # "down" /\ unit \in {"off", "failed"}
  /\ Down
  /\ UNCHANGED <<chain, unit, starts, doctor, verdict, published, faults, launches>>

-----------------------------------------------------------------------------
(***************************************************************************)
(* publish_axon.                                                           *)
(***************************************************************************)

\* An argument is refused, the connection fails, serve_axon or a read raises,
\* or nothing reads back: axon.stop() and the exception.
PublishFails ==
  /\ Down
  /\ published' = FALSE
  /\ UNCHANGED <<unit, starts, doctor, verdict, faults, launches>>

PublishRaises ==
  /\ phase \in {"publishing", "read_back"}
  /\ PublishFails
  /\ UNCHANGED chain

\* serve_axon: the chain may include the extrinsic at once, later or never,
\* and the answer says success or not.  External: none is sent if the endpoint
\* is there already.
ServeAxon(included, success) ==
  /\ phase = "publishing"
  /\ included # "never" => registered
  /\ success => included # "never" \/ (registered /\ endpoint = "exact")
  /\ endpoint' = IF included = "now" THEN "exact" ELSE endpoint
  /\ inflight' = (included = "later")
  /\ UNCHANGED registered
  /\ \/ ~success /\ PublishFails
     \/ /\ success
        /\ phase' = "read_back"
        /\ UNCHANGED <<admVars, reads, unit, starts, doctor, verdict, moments, published,
                       life, faults, launches>>

\* mutant: serve_axon's answer is enough.
PublishUnread ==
  /\ phase = "read_back"
  /\ phase' = "serving" /\ published' = TRUE
  /\ UNCHANGED <<admVars, reads, chain, unit, starts, doctor, verdict, moments, life,
                 faults, launches>>

metagraph_has_exact_axon == registered /\ endpoint = "exact"

\* The read-back, up to ReadBacks times.
ReadBackAxon ==
  LET exact == metagraph_has_exact_axon
  IN  /\ phase = "read_back"
      /\ \/ /\ exact
            /\ phase' = "serving" /\ published' = TRUE /\ reads' = 0
            /\ UNCHANGED <<admVars, moments, life, unit, starts, doctor, verdict,
                           faults, launches>>
         \/ /\ ~exact /\ reads + 1 < ReadBacks
            /\ reads' = reads + 1
            /\ UNCHANGED <<admVars, phase, published, moments, life, unit, starts,
                           doctor, verdict, faults, launches>>
         \/ ~exact /\ reads + 1 >= ReadBacks /\ PublishFails
      /\ UNCHANGED chain

\* External: the chain includes the extrinsic late.
AxonLands ==
  /\ inflight
  /\ inflight' = FALSE
  /\ endpoint' = IF registered THEN "exact" ELSE endpoint
  /\ UNCHANGED <<admVars, phase, reads, registered, unit, starts, doctor, verdict, moments,
                 published, life, faults, launches>>

\* External: the hotkey loses its UID, and the endpoint with it.
Deregister ==
  /\ registered
  /\ registered' = FALSE /\ endpoint' = "other" /\ published' = FALSE
  /\ dropped' = TRUE
  /\ UNCHANGED <<admVars, phase, reads, inflight, unit, starts, doctor, verdict, lapsed,
                 life, faults, launches>>

-----------------------------------------------------------------------------
(***************************************************************************)
(* The systemd unit.                                                       *)
(***************************************************************************)

NewDoctor(by) == [by |-> by, at |-> "tcp", attempt |-> 1, tcp |-> FALSE, chain |-> FALSE]

NewAttempt == lapsed' = FALSE /\ dropped' = FALSE

\* systemctl start: Type=simple, so ExecStartPost does not wait for the axon.
StartUnit ==
  /\ unit \in {"off", "failed"} /\ doctor = NoDoctor
  /\ Launch("loading")
  /\ unit' = "starting" /\ starts' = 1
  /\ doctor' = NewDoctor("unit") /\ verdict' = "none" /\ NewAttempt
  /\ published' = FALSE

\* The tasks are loaded and the axon starts; no --publish.
AxonStarts ==
  /\ phase = "loading"
  /\ phase' = "serving"
  /\ UNCHANGED <<admVars, reads, chain, unit, starts, doctor, verdict, moments, published,
                 life, faults, launches>>

\* systemctl stop, by SIGINT: the process returns 0.
StopUnit ==
  /\ unit \in {"starting", "active"} /\ phase # "down"
  /\ Down
  /\ unit' = "off" /\ starts' = 0
  /\ doctor' = IF doctor.by = "unit" THEN NoDoctor ELSE doctor
  /\ UNCHANGED <<chain, verdict, published, faults, launches>>

\* The process dies; Restart=on-failure.
Crash ==
  /\ phase # "down" /\ Fault
  /\ Down
  /\ unit' = IF unit \in {"starting", "active"} THEN "restarting" ELSE unit
  /\ doctor' = IF doctor.by = "unit" THEN NoDoctor ELSE doctor
  /\ UNCHANGED <<chain, starts, verdict, published, launches>>

\* RestartSec has passed and the start limit is not reached, or its interval
\* is over.
RestartUnit ==
  /\ unit = "restarting" /\ doctor = NoDoctor
  /\ \/ starts < StartBurst /\ starts' = starts + 1
     \/ starts >= StartBurst /\ starts' = 1
  /\ unit' = "starting" /\ phase' = "loading"
  /\ doctor' = NewDoctor("unit") /\ verdict' = "none" /\ NewAttempt
  /\ UNCHANGED <<admVars, reads, chain, published, life, faults, launches>>

GiveUp ==
  /\ unit = "restarting" /\ starts >= StartBurst
  /\ unit' = "failed" /\ starts' = 0
  /\ UNCHANGED <<admVars, phase, reads, chain, doctor, verdict, moments, published, life,
                 faults, launches>>

-----------------------------------------------------------------------------
(***************************************************************************)
(* doctor, as ExecStartPost and by hand.  The checks of the installation,  *)
(* the target and the tasks pass.                                          *)
(***************************************************************************)

\* By hand, with up to as many attempts as the unit's; one doctor at a time, and
\* no second one by hand before the unit is started again.
RunDoctor(first) ==
  /\ doctor = NoDoctor /\ unit \notin {"starting", "restarting"} /\ verdict = "none"
  /\ doctor' = [NewDoctor("operator") EXCEPT !.attempt = first]
  /\ NewAttempt
  /\ UNCHANGED <<admVars, phase, reads, chain, unit, starts, verdict, published, life,
                 faults, launches>>

\* _local_port_state; external: no other program has the port.
LocalPortState == IF Listening THEN "listening" ELSE "free"

\* The checks local_port and public_tcp.
PortChecks(local, reachable) == local \in {"free", "listening"} /\ reachable

\* The probe of a listening axon fails, or loading has taken so long that the
\* last probe finds no axon yet.
Unlucky(reachable) ==
  ~reachable /\ (Listening \/ (phase = "loading" /\ doctor.attempt = Attempts))

\* A probe of the public address succeeds only if the axon listens.
DoctorTcp(reachable) ==
  /\ doctor.at = "tcp"
  /\ reachable => Listening
  /\ IF Unlucky(reachable) THEN Fault ELSE UNCHANGED faults
  /\ doctor' = [doctor EXCEPT !.at = "chain", !.tcp = PortChecks(LocalPortState, reachable)]
  /\ UNCHANGED <<admVars, phase, reads, chain, unit, starts, verdict, moments, published,
                 life, launches>>

\* mutant: a check that passed in an earlier attempt is not made again.
ChainOnce(readable) == doctor.chain \/ (readable /\ metagraph_has_exact_axon)

\* _add_chain_checks
ChainChecks(readable) == readable /\ metagraph_has_exact_axon

\* _read_doctor_chain: the metagraph is read, or the read fails.
DoctorChain(readable) ==
  /\ doctor.at = "chain"
  /\ IF readable THEN UNCHANGED faults ELSE Fault
  /\ doctor' = [doctor EXCEPT !.at = "judge", !.chain = ChainChecks(readable)]
  /\ UNCHANGED <<admVars, phase, reads, chain, unit, starts, verdict, moments, published,
                 life, launches>>

\* mutant: the first attempt is the last one.
NoAttemptLeft == FALSE

AttemptLeft == doctor.attempt < Attempts

Finished(v) == verdict' = v /\ doctor' = NoDoctor

\* What follows from the checks of an attempt, by now observations of the past:
\* the exit status, on which the unit becomes active or is stopped and started
\* again, or another attempt.
DoctorJudges ==
  LET ok == doctor.tcp /\ doctor.chain
  IN  /\ doctor.at = "judge"
      /\ \/ /\ ok /\ Finished("ok")
            /\ unit' = IF doctor.by = "unit" THEN "active" ELSE unit
            /\ UNCHANGED <<admVars, phase, reads, moments, life>>
         \/ /\ ~ok /\ AttemptLeft
            /\ doctor' = [doctor EXCEPT !.at = "sleep", !.attempt = @ + 1]
            /\ UNCHANGED <<admVars, phase, reads, moments, life, unit, verdict>>
         \/ /\ ~ok /\ ~AttemptLeft /\ doctor.by = "operator"
            /\ Finished("failed")
            /\ UNCHANGED <<admVars, phase, reads, moments, life, unit>>
         \/ /\ ~ok /\ ~AttemptLeft /\ doctor.by = "unit"
            /\ Finished("failed")
            /\ unit' = "restarting"
            /\ Down
      /\ UNCHANGED <<chain, starts, published, faults, launches>>

\* --retry-delay is over, whatever the miner has done in the meantime.
DoctorRetries ==
  /\ doctor.at = "sleep"
  /\ doctor' = [doctor EXCEPT !.at = "tcp"]
  /\ NewAttempt
  /\ UNCHANGED <<admVars, phase, reads, chain, unit, starts, verdict, published, life,
                 faults, launches>>

-----------------------------------------------------------------------------

\* The miner handles requests while it listens.
Admission ==
  /\ \/ AdvanceClock
     \/ \E h \in Hotkey, u \in Uuid : Sign(h, u)
     \/ Listening /\ \E c \in Conn : Handle(c)
  /\ life' = life \cup {req[c].id : c \in {d \in Conn : pc[d] = "awaiting" /\ pc'[d] = "verified"}}
  /\ UNCHANGED serviceVars

Proceed ==
  \/ AxonStarts \/ ReadBackAxon \/ RestartUnit \/ DoctorJudges \/ DoctorRetries
  \/ \E reachable \in BOOLEAN : DoctorTcp(reachable)
  \/ \E readable \in BOOLEAN : DoctorChain(readable)

Operator ==
  \/ \E publish \in BOOLEAN : Serve(publish)
  \/ Interrupt \/ StartUnit \/ StopUnit
  \/ \E first \in 1..Attempts : RunDoctor(first)

ServiceNext ==
  \/ Admission \/ Proceed \/ Operator
  \/ PublishRaises \/ Crash \/ GiveUp
  \/ \E included \in {"now", "later", "never"}, success \in BOOLEAN :
       ServeAxon(included, success)
  \/ AxonLands \/ Deregister

ServiceSpec == ServiceInit /\ [][ServiceNext]_minerVars

\* A live process and its supervisor go on: systemd restarts the unit, the
\* doctor's probes and reads have deadlines.
FairServiceSpec ==
  /\ ServiceSpec
  /\ WF_serviceVars(AxonStarts) /\ WF_serviceVars(RestartUnit)
  /\ WF_serviceVars(DoctorJudges) /\ WF_serviceVars(DoctorRetries)
  /\ WF_serviceVars(\E reachable \in BOOLEAN : DoctorTcp(reachable))
  /\ WF_serviceVars(\E readable \in BOOLEAN : DoctorChain(readable))

-----------------------------------------------------------------------------
\* Properties

\* A request passes verify twice only if the miner was restarted in between:
\* a stop, a crash or a failed publication empties the replay cache and the
\* SDK's nonces, and nothing else does.
AcceptOncePerLife ==
  [][\A c \in Conn : pc[c] = "awaiting" /\ pc'[c] = "verified"
       => req[c].id \notin life]_minerVars

\* "axon_publish=ok" is reported, and the miner serves on, only with the exact
\* endpoint on the chain, however late serve_axon's extrinsic is included.
PublishedIsExact == published /\ phase = "serving" => endpoint = "exact"

\* A doctor that says ok is right about the moment it says so, although it read
\* the port and the chain earlier and one after the other: the hotkey has its
\* UID and the exact endpoint and the axon listens, unless one of them was lost
\* after this very attempt began.
DoctorTellsTruth ==
  [][verdict' = "ok" /\ verdict # "ok"
       => (metagraph_has_exact_axon \/ dropped) /\ (Listening \/ lapsed)]_minerVars

\* With the published record in place, the unit becomes active again after
\* fewer crashes, failed probes and slow starts than its start limit, although
\* it never publishes and the doctor runs beside a process that is loading.
ServiceRecovers ==
  [](registered /\ endpoint = "exact")
    => [](unit \in {"starting", "restarting"} => <>(unit \in {"active", "off"}))

=============================================================================
