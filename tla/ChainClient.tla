----------------------------- MODULE ChainClient -----------------------------
(***************************************************************************)
(* SubtensorChain and the commands that use it, `tick` and `health`, beside *)
(* a chain that moves on while they run: blocks are produced, UIDs change  *)
(* hands and the subnet's owner changes its parameters.                    *)
(*                                                                         *)
(* A command is one process with one client.  The client connects and      *)
(* reads the metagraph when it first needs them and keeps that metagraph   *)
(* to its end.  Five of its reads go through bounded_call (BoundedCall,    *)
(* whose variables are this module's too); the others, in Unguarded, may   *)
(* hang.  The chain is read when the SDK's function returns, so it is      *)
(* given no steps at the statements around that.                           *)
(*                                                                         *)
(* Weights are abstracted to the miners whose weight is positive, and a    *)
(* payload to the UIDs in it, each with the hotkey it was meant for.  The  *)
(* durable phases of a tick are in ValidatorTick; `parked` is the phase    *)
(* weights_submitting left behind by a process that ended in it.           *)
(***************************************************************************)
EXTENDS BoundedCall, Naturals, FiniteSets

CONSTANTS
  Self,         \* the validator's hotkey
  Miner,        \* hotkeys of miners
  Uid,          \* the subnet's slots
  Start,        \* assignments of UIDs to hotkeys to begin with
  None,        \* None
  Commands,     \* the command lines and environments operators use
  Networks,     \* the chains they are pointed at
  Parameters,   \* what the subnet's owner may set
  FirstParams,  \* ... and the values to begin with
  FirstAxon,    \* the endpoints published to begin with
  MaxBlock, MaxChanges, MaxCommands   \* bounds

Gate == {"client_flag", "env", "confirmation"}
Command == [mode : {"wire", "localnet", "testnet"},
            network : {"none", "test", "loopback", "finney"},
            env : {"none", "test", "finney"},
            netuid : {"none", "cohort", "other"},
            manual : SUBSET Miner, publish : {"off", "dry-run", "live"},
            gates : SUBSET Gate, reveal : BOOLEAN]

ASSUME ClientAssumption ==
  /\ Self \notin Miner
  /\ Uid \subseteq Nat /\ None \notin Nat \cup Miner \cup {Self}
  /\ \A s \in Start : s \in [Uid -> Miner \cup {Self}] /\ \A u, w \in Uid : s[u] = s[w] => u = w
  /\ Commands \subseteq Command
  /\ Networks \subseteq {"test", "loopback"}
  /\ Parameters \subseteq [exists : BOOLEAN, permit : BOOLEAN, limit : Nat, reveal : BOOLEAN,
                              min : Nat]
  /\ FirstParams \subseteq Parameters
  /\ FirstAxon \in [Miner -> {"none", "private", "public"}]
  /\ {MaxBlock, MaxChanges, MaxCommands} \subseteq Nat

VARIABLES
  \* the chain
  network,      \* which one it is
  block,
  slot,         \* the hotkey each UID belongs to
  axon,         \* each hotkey's published endpoint
  params,       \* the subnet's parameters and the validator's permit
  lastUpdate,   \* the block of the validator's last weights
  row,          \* the UIDs in them
  \* the process
  cmd, job, step,
  snap,         \* _Substrate._metagraph
  seen,         \* the record preflight builds, the min_allowed_weights that the
                \* conversion read, and the read-back's verdict
  miners,       \* the queried miners: active_hotkeys
  scored,       \* those with a positive weight
  vector,       \* the payload
  \* validator state that outlives the process
  parked, receiptMode,
  \* history and bounds
  outcome,      \* how the last command ended
  healthy,      \* `health` returned 0 and the chain has not changed since it began
  moved,        \* UIDs that changed hands while this command ran
  changes, commands

chainVars == <<network, block, slot, axon, params, lastUpdate, row>>
memory == <<cmd, snap, seen, miners, scored, vector>>
durable == <<parked, receiptMode>>
counters == <<changes, commands>>
clientVars == <<callVars, chainVars, job, step, memory, durable, outcome, healthy,
                moved, counters>>

Hotkey == Miner \cup {Self}
Axon == {"none", "private", "public"}
Idle == [mode |-> "none"]
NoSnap == [read |-> FALSE]
Unknown == [uid |-> None, limit |-> 0, since |-> None, reveal |-> "unknown", asked |-> 0,
            match |-> FALSE]
NoVector == [u \in {} |-> Self]

Guarded == {"connect", "block", "metagraph", "since", "read_back"}
Unguarded == {"exists", "limit", "reveal", "convert", "set_weights"}
Steps == Guarded \cup Unguarded \cup {"idle", "query", "apply", "registered", "ready", "probe"}

ReadinessError == {"rpc_unreachable", "netuid_absent", "validator_unregistered"}
Skip == {"all_zero", "no_permit", "rate_limited", "commit_reveal_probe_failed",
         "commit_reveal_enabled", "no_registered_miners"}
Outcome == {"none", "usage", "refused", "fallback", "dry_run_ok", "submitted_ok",
            "submitted_commit_reveal", "extrinsics_not_allowed", "ambiguous",
            "no_axons", "raised", "ok", "degraded"} \cup ReadinessError \cup Skip

ClientTypeOK ==
  /\ CallTypeOK
  /\ network \in Networks /\ block \in 0..MaxBlock
  /\ slot \in [Uid -> Hotkey] /\ axon \in [Hotkey -> Axon]
  /\ params \in Parameters /\ lastUpdate \in 0..MaxBlock /\ row \subseteq Uid
  /\ cmd \in Commands \cup {Idle}
  /\ job \in {"none", "discover", "preflight", "health"} /\ step \in Steps
  /\ seen.uid \in Uid \cup {None} /\ seen.since \in Nat \cup {None}
  /\ {seen.limit, seen.asked} \subseteq Nat
  /\ miners \subseteq Miner /\ scored \subseteq miners
  /\ DOMAIN vector \subseteq Uid /\ \A u \in DOMAIN vector : vector[u] \in Miner \cup {None}
  /\ parked \in BOOLEAN /\ receiptMode \in {"none", "ok", "error"}
  /\ outcome \in Outcome /\ healthy \in {"no", "asked", "yes"} /\ moved \subseteq Uid

Registered(h) == \E u \in Uid : slot[u] = h

ClientInit ==
  /\ CallInit
  /\ network \in Networks /\ block = 0
  /\ slot \in Start
  /\ axon = [h \in Hotkey |-> IF h = Self \/ ~Registered(h) THEN "none" ELSE FirstAxon[h]]
  /\ params \in FirstParams
  /\ lastUpdate = 0 /\ row = {}
  /\ cmd = Idle /\ job = "none" /\ step = "idle"
  /\ snap = NoSnap /\ seen = Unknown /\ miners = {} /\ scored = {} /\ vector = NoVector
  /\ parked = FALSE /\ receiptMode = "none"
  /\ outcome = "none" /\ healthy = "no" /\ moved = {}
  /\ changes = 0 /\ commands = 0

-----------------------------------------------------------------------------
(***************************************************************************)
(* External: the chain.                                                    *)
(***************************************************************************)

\* The client can see a difference only while a read is in the SDK, and the
\* history only between two commands.
ChainMoves == \/ pc = "call" /\ ~pending
              \/ pc = "idle" /\ step \in Unguarded \cup {"idle"}

NewBlock ==
  /\ ChainMoves /\ block < MaxBlock
  /\ block' = block + 1
  /\ UNCHANGED <<callVars, network, slot, axon, params, lastUpdate, row, job, step, memory,
                 durable, outcome, healthy, moved, counters>>

Changed ==
  /\ ChainMoves /\ changes < MaxChanges
  /\ changes' = changes + 1
  /\ healthy' = "no"

\* A new neuron takes over a UID and may publish an axon.
Recycle(u, h, a) ==
  /\ Changed
  /\ ~Registered(h) /\ (h = Self => a = "none")
  /\ slot' = [slot EXCEPT ![u] = h]
  /\ axon' = [axon EXCEPT ![slot[u]] = "none", ![h] = a]
  /\ moved' = moved \cup {u}
  /\ UNCHANGED <<callVars, network, block, params, lastUpdate, row, job, step, memory,
                 durable, outcome, commands>>

\* The subnet's owner, or the stake behind the validator, changes a parameter.
SetParams(p) ==
  /\ Changed
  /\ p # params
  /\ params' = p
  /\ UNCHANGED <<callVars, network, block, slot, axon, lastUpdate, row, job, step, memory,
                 durable, outcome, moved, commands>>

-----------------------------------------------------------------------------
(***************************************************************************)
(* The command line: what `tick` and `health` accept.                      *)
(***************************************************************************)

SafeNetworks == {"test", "loopback"}

\* resolve_network: the argument, then BT_NETWORK, then the mode's own.
ResolveNetwork(c) ==
  CASE c.network # "none" -> c.network
    [] c.network = "none" /\ c.env # "none" -> c.env
    [] OTHER -> CASE c.mode = "testnet" -> "test"
                  [] c.mode = "localnet" -> "loopback"
                  [] OTHER -> "none"

\* assert_safe_network
Safe(c) == ResolveNetwork(c) \in SafeNetworks \cup {"none"}

TestnetTarget(c) == c.network = "test" /\ c.netuid = "cohort"   \* require_cohort_target
LocalnetTarget(c) == c.network = "loopback" /\ c.netuid # "none"
WireTarget(c) ==
  c.manual # {} /\ c.publish = "off" /\ c.network = "none" /\ c.netuid = "none"

TickAccepts(c) ==
  /\ Safe(c)
  /\ \/ c.mode = "testnet" /\ TestnetTarget(c) /\ c.manual = {} /\ c.publish # "off"
     \/ c.mode = "wire" /\ WireTarget(c) /\ ~c.reveal /\ c.gates \subseteq {"env"}
     \/ c.mode = "localnet" /\ LocalnetTarget(c) /\ (c.publish = "off" => c.manual # {})

HealthAccepts(c) ==
  /\ Safe(c) /\ c.publish # "live"
  /\ \/ c.mode = "wire" /\ WireTarget(c)
     \/ /\ c.manual = {} /\ c.publish # "off"
        /\ \/ c.mode = "testnet" /\ TestnetTarget(c)
           \/ c.mode = "localnet" /\ LocalnetTarget(c)

\* A command for this chain, or for none.
Aims(c) == c.network \in {"none", "finney", network}

MissingGates(c) == IF c.publish = "live" THEN Gate \ c.gates ELSE Gate \cup {"cli_live"}

-----------------------------------------------------------------------------
(***************************************************************************)
(* The process.                                                            *)
(***************************************************************************)

Goto(s) == step' = s
Untouched == UNCHANGED <<chainVars, durable, outcome, healthy, moved, counters>>

\* The process ends: its signal state and its locals are gone.
Ended(o, client) ==
  /\ outcome' = o
  /\ step' = "idle" /\ job' = "none" /\ cmd' = Idle
  /\ snap' = client /\ seen' = Unknown /\ miners' = {} /\ scored' = {} /\ vector' = NoVector
  /\ pc' = "idle" /\ timer' = "off" /\ handler' = "previous" /\ pending' = FALSE
  /\ result' = "value" /\ returned' = "none"
  /\ UNCHANGED counters

\* mutant: the client and its metagraph live on in a daemon.
ExitKeepsClient(o) == Ended(o, snap)

\* ... and so is its client.
Exit(o) == Ended(o, NoSnap)

\* ... with a receipt, which commits the epoch.
Receipt(o, mode) ==
  /\ Exit(o)
  /\ receiptMode' = mode
  /\ UNCHANGED <<chainVars, parked, healthy, moved>>

\* ... with an exception while the phase is weights_submitting.
Park(o) ==
  /\ Exit(o)
  /\ parked' = TRUE
  /\ UNCHANGED <<chainVars, receiptMode, healthy, moved>>

\* ... before that phase, so that the next tick retries the epoch.
Abort(o) == Exit(o) /\ UNCHANGED <<chainVars, durable, healthy, moved>>

Degraded == Exit("degraded") /\ healthy' = "no" /\ UNCHANGED <<chainVars, durable, moved>>

Begin(c) ==
  /\ step = "idle" /\ commands < MaxCommands /\ Aims(c)
  /\ commands' = commands + 1
  /\ moved' = {}
  /\ UNCHANGED <<callVars, chainVars, durable, snap, seen, scored, vector, changes>>

\* The arguments are refused, or an earlier epoch is still unresolved.
RefuseTick(c) ==
  /\ Begin(c)
  /\ ~TickAccepts(c) \/ parked
  /\ outcome' = IF TickAccepts(c) THEN "refused" ELSE "usage"
  /\ UNCHANGED <<job, step, cmd, miners, healthy>>

StartTick(c) ==
  /\ Begin(c)
  /\ TickAccepts(c) /\ ~parked
  /\ cmd' = c
  /\ IF c.manual # {}
       THEN job' = "none" /\ Goto("query") /\ miners' = c.manual
       ELSE job' = "discover" /\ Goto("connect") /\ miners' = {}
  /\ outcome' = "none"
  /\ UNCHANGED healthy

StartHealth(c) ==
  /\ Begin(c)
  /\ HealthAccepts(c)
  /\ cmd' = c
  /\ IF c.mode = "wire"
       THEN job' = "none" /\ Goto("probe") /\ miners' = c.manual
       ELSE job' = "health" /\ Goto("connect") /\ miners' = {}
  /\ outcome' = "none" /\ healthy' = "asked"

-----------------------------------------------------------------------------
(***************************************************************************)
(* Reads.                                                                  *)
(***************************************************************************)

\* The metagraph may lack the validator's entry of last_update.
Metagraph(updated) == [read |-> TRUE, slot |-> slot, axon |-> axon, permit |-> params.permit,
                       lastUpdate |-> updated]

\* hotkey_uid
HotkeyUid(h) == IF \E u \in Uid : snap.slot[u] = h
                  THEN CHOOSE u \in Uid : snap.slot[u] = h ELSE None

\* What the validator's row holds, by the UID it had in the metagraph.
ReadBackRow == IF slot[seen.uid] = Self THEN row ELSE {}

\* The SDK's function returns: this is the moment the chain is read.
Value ==
  /\ IF step = "metagraph" THEN \E updated \in {lastUpdate, None} : snap' = Metagraph(updated)
                           ELSE snap' = snap
  /\ seen' = CASE step = "since" -> [seen EXCEPT !.since =
                                       IF block > snap.lastUpdate THEN block - snap.lastUpdate ELSE 0]
               [] step = "read_back" -> [seen EXCEPT !.match = (ReadBackRow = DOMAIN vector)]
               [] OTHER -> seen

InSdk == UNCHANGED <<job, step, cmd, miners, scored, vector>> /\ Untouched

\* The statements of bounded_call around the SDK's function.
Bounded ==
  /\ step \in Guarded
  /\ Enter \/ Progress
  /\ InSdk /\ UNCHANGED <<snap, seen>>

\* The function returns or raises, if it ever does.
SdkEnds ==
  /\ step \in Guarded
  /\ \/ FnEnds("error") /\ UNCHANGED <<snap, seen>>
     \/ FnEnds("value") /\ Value
  /\ InSdk

Alarm == AlarmFires /\ UNCHANGED <<job, step, memory>> /\ Untouched

\* mutant: the metagraph is read again for each use.
FreshMetagraph(s) == "metagraph"

\* sync_metagraph: the first use reads it, the later ones do not.
SyncMetagraph(s) == IF snap = NoSnap THEN "metagraph" ELSE s

AfterRead ==
  CASE step = "connect" -> IF job = "discover" THEN "metagraph" ELSE "block"
    [] step = "block" -> "exists"
    [] step = "metagraph" -> IF job = "discover" THEN "query" ELSE "registered"
    [] step = "since" -> "reveal"

require_public_ipv4(host) == host = "public"

\* miner_endpoints: published axons, on the public network only public ones.
Endpoints == {h \in Miner : /\ HotkeyUid(h) # None
                            /\ snap.axon[h] # "none"
                            /\ network = "test" => require_public_ipv4(snap.axon[h])}

\* mutant: health does not apply the public network's filter.
AnyEndpoints == {h \in Miner : HotkeyUid(h) # None /\ snap.axon[h] # "none"}
HealthEndpoints == Endpoints

ReadReturns ==
  /\ step \in Guarded \ {"read_back"}
  /\ returned = "value" /\ Continue
  /\ Goto(AfterRead)
  /\ miners' = IF AfterRead = "query" THEN Endpoints ELSE miners
  /\ UNCHANGED <<job, cmd, snap, seen, scored, vector>> /\ Untouched

\* The exception of a read reaches the command: discovery raises it, preflight
\* turns it into rpc_unreachable, health into a degraded condition.
ReadFails ==
  CASE job = "discover" -> Abort("raised")
    [] job = "preflight" -> Receipt("rpc_unreachable", "error")
    [] job = "health" -> Degraded

ReadRaises ==
  /\ step \in Guarded \ {"read_back"}
  /\ pc = "idle" /\ returned \in {"error", "ChainReadTimeout"}
  /\ ReadFails

\* _DeadlineExpired is no Exception, so nothing but apply_weights' except
\* BaseException after set_weights stops it.
ProcessDies ==
  /\ pc = "dead"
  /\ CASE step = "read_back" -> Park("ambiguous")
       [] step # "read_back" /\ job = "preflight" -> Park("raised")
       [] OTHER -> Abort("raised")

\* subnet_exists
SubnetExists ==
  /\ step = "exists"
  /\ \/ ReadFails
     \/ /\ ~params.exists
        /\ IF job = "health" THEN Degraded ELSE Receipt("netuid_absent", "error")
     \/ /\ params.exists
        /\ Goto(SyncMetagraph("registered"))
        /\ UNCHANGED <<callVars, job, memory>> /\ Untouched

ValidatorUid ==
  /\ step = "registered"
  /\ \/ /\ HotkeyUid(Self) = None
        /\ IF job = "health" THEN Degraded ELSE Receipt("validator_unregistered", "error")
     \/ /\ HotkeyUid(Self) # None
        /\ seen' = [seen EXCEPT !.uid = HotkeyUid(Self)]
        /\ Goto("limit")
        /\ UNCHANGED <<callVars, job, cmd, snap, miners, scored, vector>> /\ Untouched

\* weights_rate_limit: a failing probe reads as 0, unless it fails on the
\* second calling convention.  blocks_since_last_update has nothing to read when
\* the metagraph lacks the entry, and is None.
RateLimit ==
  /\ step = "limit"
  /\ \/ ReadFails
     \/ /\ \E l \in {params.limit, 0} : seen' = [seen EXCEPT !.limit = l]
        /\ Goto(IF snap.lastUpdate = None THEN "reveal" ELSE "since")
        /\ UNCHANGED <<callVars, job, cmd, snap, miners, scored, vector>> /\ Untouched

\* commit_reveal_enabled: no probe answers, which is an error to health, or one
\* does.
CommitReveal ==
  /\ step = "reveal"
  /\ \/ job = "health" /\ Degraded
     \/ /\ \E answer \in {"unknown", IF params.reveal THEN "on" ELSE "off"} :
             /\ job = "health" => answer # "unknown"
             /\ seen' = [seen EXCEPT !.reveal = answer]
        /\ Goto(IF job = "health" THEN "probe" ELSE "ready")
        /\ miners' = IF job = "health" THEN HealthEndpoints ELSE miners
        /\ UNCHANGED <<callVars, job, cmd, snap, scored, vector>> /\ Untouched

-----------------------------------------------------------------------------
(***************************************************************************)
(* health, tick and apply_weights.                                         *)
(***************************************************************************)

\* The signed probe of every endpoint; local stands for Docker, the image, the
\* holdout secret, the last epoch's error and the probe being requested.
Probe(reachable, local) ==
  LET ok == miners # {} /\ reachable /\ local /\ ~parked /\ receiptMode # "error"
  IN  /\ step = "probe"
      /\ Exit(IF ok THEN "ok" ELSE "degraded")
      /\ healthy' = IF ok /\ healthy = "asked" /\ cmd.mode # "wire" THEN "yes" ELSE "no"
      /\ UNCHANGED <<chainVars, durable, moved>>

\* query_miners and the evaluation; some of the miners get positive weights.
Query(paid) ==
  /\ step = "query"
  /\ miners # {} /\ paid \subseteq miners
  /\ scored' = paid
  /\ Goto("apply")
  /\ UNCHANGED <<callVars, job, cmd, snap, seen, miners, vector>> /\ Untouched

NothingDiscovered == step = "query" /\ miners = {} /\ Abort("no_axons")

\* The evaluation raises.
QueryRaises == step = "query" /\ miners # {} /\ Abort("raised")

\* Up to preflight, which connects unless discovery has.
Apply ==
  /\ step = "apply"
  /\ \/ cmd.publish = "off" /\ Receipt("fallback", "ok")
     \/ cmd.publish # "off" /\ scored = {} /\ Receipt("all_zero", "ok")
     \/ /\ cmd.publish # "off" /\ scored # {}
        /\ job' = "preflight"
        /\ Goto(IF job = "discover" THEN "block" ELSE "connect")
        /\ UNCHANGED <<callVars, memory>> /\ Untouched

RevealReason ==
  CASE seen.reveal = "unknown" -> "commit_reveal_probe_failed"
    [] seen.reveal = "on" /\ ~cmd.reveal -> "commit_reveal_enabled"
    [] OTHER -> "none"

\* mutant: one block early.
SkipReasonEarly ==
  IF ~snap.permit THEN "no_permit"
  ELSE IF seen.since # None /\ seen.since + 1 < seen.limit THEN "rate_limited" ELSE RevealReason

\* _readiness_skip_reason of a subnet and a validator that exist; the limit is
\* compared only with a number of blocks that is known.
SkipReason ==
  IF ~snap.permit THEN "no_permit"
  ELSE IF seen.since # None /\ seen.since < seen.limit THEN "rate_limited" ELSE RevealReason

\* map_hotkeys, and of those it resolves the ones with a positive weight.
Mapped == {h \in miners : HotkeyUid(h) # None}
Payable == Mapped \cap scored

Ready ==
  /\ step = "ready"
  /\ \/ SkipReason # "none" /\ Receipt(SkipReason, "ok")
     \/ SkipReason = "none" /\ Mapped = {} /\ Receipt("no_registered_miners", "ok")
     \/ /\ SkipReason = "none" /\ Mapped # {}
        /\ Goto("convert")
        /\ UNCHANGED <<callVars, job, memory>> /\ Untouched

\* The payload is made; then the dry run and the gates.
Emit(payload) ==
  \/ cmd.publish = "dry-run" /\ Receipt("dry_run_ok", "ok")
  \/ /\ cmd.publish = "live" /\ MissingGates(cmd) # {}
     /\ Receipt("extrinsics_not_allowed", "error")
  \/ /\ cmd.publish = "live" /\ MissingGates(cmd) = {}
     /\ vector' = payload
     /\ seen' = [seen EXCEPT !.asked = params.min]
     /\ Goto("set_weights")
     /\ UNCHANGED <<callVars, job, cmd, snap, miners, scored>> /\ Untouched

\* _payload, which calls process_and_convert unless no weight is positive.
\* External: it drops the weights that round to zero and keeps the largest.
Convert(kept) ==
  LET uids == {HotkeyUid(h) : h \in kept}
  IN  /\ step = "convert"
      /\ kept \subseteq Payable /\ (kept = {} <=> Payable = {})
      /\ Payable = {} \/ ~(Cardinality(Payable) < params.min)
      /\ Emit([u \in uids |-> CHOOSE h \in kept : HotkeyUid(h) = u])

\* External: process_weights_for_netuid, given fewer positive weights than
\* min_allowed_weights, hands out weights over all UIDs of the subnet, whoever
\* has them; the ones that round to zero are dropped again.
ConvertFilled(uids) ==
  /\ step = "convert"
  /\ Payable # {} /\ Cardinality(Payable) < params.min
  /\ uids # {}
  /\ Emit([u \in uids |-> None])

\* process_and_convert reads the chain and raises, outside every try.
ConvertRaises == step = "convert" /\ Payable # {} /\ Park("raised")

\* External: when the chain includes the extrinsic.
ChainIncludes ==
  params.exists /\ Registered(Self) /\ params.permit /\ block - lastUpdate >= params.limit

\* set_weights, with its response success, failure or none; the response need
\* not agree with the chain.
SetWeights(included, success) ==
  /\ step = "set_weights"
  /\ included => ChainIncludes
  /\ lastUpdate' = IF included THEN block ELSE lastUpdate
  /\ row' = IF included /\ ~params.reveal THEN DOMAIN vector ELSE row
  /\ \/ /\ success
        /\ Goto("read_back")
        /\ UNCHANGED <<callVars, job, memory, durable, outcome, healthy, moved, counters>>
     \/ /\ ~success
        /\ Exit("ambiguous") /\ parked' = TRUE
        /\ UNCHANGED <<receiptMode, healthy, moved>>
  /\ UNCHANGED <<network, block, slot, axon, params>>

ReadBack ==
  /\ step = "read_back"
  /\ pc = "idle" /\ returned # "none"
  /\ \/ /\ returned = "value" /\ seen.reveal = "on"
        /\ Receipt("submitted_commit_reveal", "ok")
     \/ /\ returned = "value" /\ seen.reveal # "on" /\ seen.match
        /\ Receipt("submitted_ok", "ok")
     \/ /\ returned # "value" \/ (seen.reveal # "on" /\ ~seen.match)
        /\ Park("ambiguous")

-----------------------------------------------------------------------------

\* What the process does by itself, and the reads that may hang.
Guided ==
  \/ Bounded \/ ReadReturns \/ ReadRaises \/ ProcessDies
  \/ ValidatorUid \/ Apply \/ Ready \/ ReadBack
  \/ \E paid \in SUBSET Miner : Query(paid)
  \/ NothingDiscovered \/ QueryRaises
  \/ \E reachable, local \in BOOLEAN : Probe(reachable, local)

Hanging ==
  \/ SdkEnds \/ SubnetExists \/ RateLimit \/ CommitReveal \/ ConvertRaises
  \/ \E kept \in SUBSET Miner : Convert(kept)
  \/ \E uids \in SUBSET Uid : ConvertFilled(uids)
  \/ \E included, success \in BOOLEAN : SetWeights(included, success)

ChainStep ==
  \/ NewBlock
  \/ \E u \in Uid, h \in Hotkey, a \in {"none", "public"} : Recycle(u, h, a)
  \/ \E p \in Parameters : SetParams(p)

ClientNext ==
  \/ \E c \in Commands : RefuseTick(c) \/ StartTick(c) \/ StartHealth(c)
  \/ Guided \/ Alarm \/ Hanging \/ ChainStep

ClientSpec == ClientInit /\ [][ClientNext]_clientVars

\* The interpreter runs, the alarm goes off and dendrite's own timeouts end the
\* queries; no read of the chain need ever return.
FairClientSpec == ClientSpec /\ WF_clientVars(Guided) /\ WF_clientVars(Alarm)

-----------------------------------------------------------------------------
\* Properties

\* Every command ends, whichever guarded reads hang, or it is stuck for ever in
\* one of the reads that do not go through bounded_call.
CommandsEnd == []<>(step = "idle") \/ <>[](step \in Unguarded)

\* Between two reads no timer runs and SIGALRM has its previous handler, and
\* the alarm's default action never kills the process: the finally and except
\* blocks of bounded_call undo the installation on every path back to the
\* command.  The path on which _DeadlineExpired escapes (pc is "dead") unwinds
\* the command instead and may leave the handler installed.
AlarmContained ==
  /\ pc = "idle" => timer = "off" /\ handler = "previous" /\ ~pending
  /\ returned # "killed"

\* A weight reaches a hotkey other than the one that was scored only if the UID
\* changed hands while this very tick ran, or fewer miners had a weight than
\* the subnet's min_allowed_weights when the payload was made: a tick maps
\* hotkeys with a metagraph it has read itself.
PaidToOwner ==
  step = "set_weights" =>
    \/ Cardinality(Payable) < seen.asked
    \/ \A u \in DOMAIN vector : slot[u] = vector[u] \/ u \in moved

\* A tick that discovered its miners never submits an empty vector: discovery
\* and mapping use one and the same metagraph, so that no miner with a weight
\* is dropped in between.
NeverEmpty == step = "set_weights" /\ cmd.manual = {} => vector # NoVector

\* The weights rate limit as the chain reported it holds at the moment of the
\* submission, with the validator's own earlier submissions counted: the cached
\* last_update is never older than the validator's last weights.  Only a tick
\* whose metagraph lacked the validator's last_update submits unchecked.
RateLimitKept ==
  step = "set_weights" /\ snap.lastUpdate # None => block - lastUpdate >= seen.limit

\* After `health` returned 0 and with the chain as it was, a tick finds miners,
\* the subnet and the validator's own registration.
HealthyTickConnects ==
  healthy = "yes" => outcome \notin {"no_axons", "netuid_absent", "validator_unregistered"}

=============================================================================
