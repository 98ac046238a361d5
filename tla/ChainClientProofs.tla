-------------------------- MODULE ChainClientProofs --------------------------
(***************************************************************************)
(* Safety of the chain client for every subnet, every set of commands and  *)
(* every sequence of blocks and changes: the alarm is contained, weights   *)
(* go to the hotkeys that were scored, the rate limit is kept, a tick that *)
(* discovered its miners never submits nothing, and what `health` found    *)
(* usable a tick can use.                                                  *)
(***************************************************************************)
EXTENDS ChainClient, TLAPS

-----------------------------------------------------------------------------
\* The inductive invariant

InCall == {"armed", "call", "disarm"}

\* A timer runs, or a signal waits, only between Arm and Disarm, and there
\* SIGALRM has the handler that catches it.
CallInv ==
  /\ timer \in {"off", "armed"}
  /\ timer = "armed" => pc \in InCall
  /\ pending => pc \in InCall
  /\ pc = "arm" \/ pc \in InCall => handler = "expire"
  /\ pc \in {"idle", "install"} => handler = "previous"
  /\ returned # "killed" /\ result # "killed"

\* The steps after the metagraph was read for preflight.
Synced == {"registered", "limit", "since", "reveal", "ready", "convert", "set_weights",
           "read_back"}

\* A metagraph read that succeeded and whose caller has not gone on yet.
Landed ==
  /\ step = "metagraph"
  /\ \/ pc \in {"disarm", "restore"} /\ result = "value"
     \/ pc = "idle" /\ returned = "value"

\* Step and call agree, and a step that uses the metagraph has one.
ReadInv ==
  /\ step \notin Guarded => pc = "idle" /\ returned = "none"
  /\ step = "idle" => snap = NoSnap
  /\ Landed \/ step \in Synced => snap # NoSnap

\* The cached metagraph differs from the chain only in UIDs that have moved
\* and, until weights are sent, never in the validator's last update.
SnapInv ==
  snap # NoSnap =>
    /\ \A u \in Uid : snap.slot[u] = slot[u] \/ u \in moved
    /\ step # "read_back" => snap.lastUpdate \in {lastUpdate, None}

SeenType == [uid : Uid \cup {None}, limit : Nat, since : Nat \cup {None},
             reveal : {"unknown", "on", "off"}, asked : Nat, match : BOOLEAN]

\* The blocks since the last update, as recorded, have really passed.
RateInv ==
  /\ block \in Nat /\ lastUpdate \in Nat /\ lastUpdate <= block
  /\ params \in Parameters /\ seen \in SeenType
  /\ step # "read_back" /\ seen.since # None => seen.since + lastUpdate <= block
  /\ step \in {"convert", "set_weights"} /\ seen.since # None => seen.limit <= seen.since

\* The read of the block has succeeded and the caller has not gone on yet.
Answered ==
  /\ step = "since"
  /\ \/ pc \in {"disarm", "restore"} /\ result = "value"
     \/ pc = "idle" /\ returned = "value"

Later == {"reveal", "ready", "convert", "set_weights"}

\* They are recorded whenever the metagraph has the last update.
SinceInv ==
  /\ step = "since" => snap.lastUpdate # None
  /\ Answered => seen.since # None
  /\ step \in Later /\ snap.lastUpdate # None => seen.since # None

\* The payload pairs every UID with the hotkey the metagraph has for it, unless
\* it was filled up.
VectorInv ==
  step = "set_weights" =>
    \/ Cardinality(Payable) < seen.asked
    \/ \A u \in DOMAIN vector : u \in Uid /\ vector[u] = snap.slot[u]

Resolved == snap # NoSnap /\ \A h \in miners : HotkeyUid(h) # None

\* A tick that discovered its miners maps them with the same metagraph.
MinersInv ==
  /\ step = "idle" => scored = {} /\ job = "none"
  /\ scored \subseteq miners
  /\ job = "preflight" => scored # {}
  /\ step \in {"connect", "metagraph"} /\ job = "discover" => scored = {}
  /\ job = "health" => scored = {}
  /\ job = "discover" => cmd.manual = {} /\ step \in {"connect", "metagraph", "query", "apply"}
  /\ step \in {"query", "apply"} /\ cmd.manual = {} => Resolved /\ job = "discover"
  /\ step \in {"query", "apply"} => job \in {"none", "discover"}
  /\ step \in {"ready", "convert", "set_weights", "read_back"} => job = "preflight"
  /\ job = "preflight" /\ cmd.manual = {}
       => Resolved /\ step \notin {"connect", "metagraph"}
  /\ step \in Guarded \cup Unguarded \cup {"registered"}
       => job \in {"discover", "preflight", "health"}
  /\ step = "set_weights" /\ Payable # {} => vector # NoVector

ClientInv == CallInv /\ ReadInv /\ SnapInv /\ RateInv /\ SinceInv /\ VectorInv /\ MinersInv

-----------------------------------------------------------------------------
\* The parts of a step

\* Every statement of bounded_call, and the alarm, keep CallInv.
LEMMA CallKeeps ==
  ASSUME CallInv,
         \/ Enter \/ Progress \/ AlarmFires \/ Continue
         \/ \E r \in {"value", "error"} : FnEnds(r)
  PROVE  CallInv'
<1>1. CASE Enter
  BY <1>1 DEF CallInv, InCall, Enter
<1>2. CASE InstallHandler
  BY <1>2 DEF CallInv, InCall, InstallHandler
<1>3. CASE Arm
  BY <1>3 DEF CallInv, InCall, Arm
<1>4. CASE Undo
  BY <1>4 DEF CallInv, InCall, Undo, Finish
<1>5. CASE CallFn
  BY <1>5 DEF CallInv, InCall, CallFn
<1>6. CASE Expire
  BY <1>6 DEF CallInv, InCall, Expire
<1>7. CASE Disarm
  BY <1>7 DEF CallInv, InCall, Disarm
<1>8. CASE ExpireInFinally
  BY <1>8 DEF CallInv, InCall, ExpireInFinally, Finish
<1>9. CASE Restore
  BY <1>9 DEF CallInv, InCall, Restore, Finish
<1>10. CASE AlarmFires
  BY <1>10 DEF CallInv, InCall, AlarmFires
<1>11. CASE Continue
  BY <1>11 DEF CallInv, InCall, Continue
<1>12. CASE \E r \in {"value", "error"} : FnEnds(r)
  BY <1>12 DEF CallInv, InCall, FnEnds
<1>13. QED
  BY <1>1, <1>2, <1>3, <1>4, <1>5, <1>6, <1>7,
     <1>8, <1>9, <1>10, <1>11, <1>12 DEF Progress

\* Nothing of the call changes.
LEMMA CallSame ==
  ASSUME CallInv, UNCHANGED callVars
  PROVE  CallInv'
BY DEF CallInv, InCall, callVars

\* SinceInv is about the steps from the read of the block to set_weights.
LEMMA SinceElsewhere ==
  ASSUME step' \notin Later \cup {"since"}
  PROVE  SinceInv'
BY DEF SinceInv, Answered

LEMMA SinceLater ==
  ASSUME SinceInv, step \in Later, step' \in Later, snap' = snap, seen'.since = seen.since
  PROVE  SinceInv'
BY DEF SinceInv, Answered, Later

\* The end of a process leaves nothing behind that a later one could rely on.
LEMMA ExitKeeps ==
  ASSUME ClientInv, NEW o, Exit(o),
         block' \in Nat, lastUpdate' \in Nat, lastUpdate' <= block', params' \in Parameters
  PROVE  ClientInv'
<1>1. CallInv'
  BY DEF Exit, Ended, CallInv, InCall
<1>2. ReadInv'
  BY DEF Exit, Ended, ReadInv, Landed, Guarded, Synced
<1>3. SnapInv'
  BY DEF Exit, Ended, SnapInv
<1>4. RateInv'
  <2>1. seen' = Unknown /\ step' = "idle"
    BY DEF Exit, Ended
  <2>2. Unknown \in SeenType /\ Unknown.since = None
    BY DEF Unknown, SeenType
  <2>3. seen' \in SeenType /\ seen'.since = None
    BY <2>1, <2>2
  <2>4. QED
    BY <2>1, <2>3 DEF RateInv
<1>5. VectorInv' /\ MinersInv'
  BY DEF Exit, Ended, VectorInv, MinersInv, Guarded, Unguarded
<1>6. SinceInv'
  BY SinceElsewhere DEF Exit, Ended, Later
<1>7. QED
  BY <1>1, <1>2, <1>3, <1>4, <1>5, <1>6 DEF ClientInv

\* The ways a process ends with the chain as it is.
LEMMA EndKeeps ==
  ASSUME ClientInv,
         \/ \E o, m : Receipt(o, m)
         \/ \E o : Park(o)
         \/ \E o : Abort(o)
         \/ Degraded
  PROVE  ClientInv'
<1>1. UNCHANGED <<block, lastUpdate, params>> /\ \E o : Exit(o)
  BY DEF Receipt, Park, Abort, Degraded, chainVars
<1>2. PICK o : Exit(o)
  BY <1>1
<1>3. block' \in Nat /\ lastUpdate' \in Nat /\ lastUpdate' <= block' /\ params' \in Parameters
  BY <1>1 DEF ClientInv, RateInv
<1>4. QED
  BY <1>2, <1>3, ExitKeeps

LEMMA ReadFailsKeeps ==
  ASSUME ClientInv, step \in Guarded \cup Unguarded, ReadFails
  PROVE  ClientInv'
<1>1. job \in {"discover", "preflight", "health"}
  BY DEF ClientInv, MinersInv
<1>2. QED
  BY <1>1, EndKeeps DEF ReadFails

\* What a UID lookup returns.
LEMMA HotkeyUidFinds ==
  ASSUME NEW h, HotkeyUid(h) # None
  PROVE  HotkeyUid(h) \in Uid /\ snap.slot[HotkeyUid(h)] = h
BY DEF HotkeyUid

-----------------------------------------------------------------------------
\* One lemma per group of actions

LEMMA InitInv == ClientInit => ClientInv
<1> SUFFICES ASSUME ClientInit PROVE ClientInv
  OBVIOUS
<1>2. params \in Parameters
  BY ClientAssumption DEF ClientInit, ClientAssumption
<1>3. CallInv /\ ReadInv /\ SnapInv
  BY DEF ClientInit, CallInit, CallInv, ReadInv, SnapInv, InCall, Landed, Synced, Guarded
<1>4. RateInv
  <2>1. seen \in SeenType /\ seen.since = None
    BY DEF ClientInit, Unknown, SeenType
  <2>2. QED
    BY <1>2, <2>1 DEF ClientInit, RateInv
<1>5. VectorInv /\ MinersInv /\ SinceInv
  BY DEF ClientInit, VectorInv, MinersInv, SinceInv, Answered, Later, Guarded, Unguarded
<1>6. QED
  BY <1>3, <1>4, <1>5 DEF ClientInv

LEMMA ChainKeeps ==
  ASSUME ClientInv, ChainStep
  PROVE  ClientInv'
<1>1. UNCHANGED <<callVars, job, step, memory, lastUpdate>>
  BY DEF ChainStep, NewBlock, Recycle, SetParams, Changed, chainVars
<1>2. CallInv'
  BY <1>1, CallSame DEF ClientInv
<1>3. ReadInv'
  BY <1>1 DEF ClientInv, ReadInv, Landed, callVars, memory
<1>4. SnapInv'
  <2>1. CASE NewBlock \/ \E p \in Parameters : SetParams(p)
    BY <1>1, <2>1 DEF NewBlock, SetParams, Changed, ClientInv, SnapInv, memory
  <2>2. CASE \E u \in Uid, h \in Hotkey, a \in {"none", "public"} : Recycle(u, h, a)
    <3>1. PICK u \in Uid, h \in Hotkey, a \in {"none", "public"} : Recycle(u, h, a)
      BY <2>2
    <3>2. \A w \in Uid : slot'[w] = slot[w] \/ w \in moved'
      BY <3>1 DEF Recycle
    <3>3. moved \subseteq moved'
      BY <3>1 DEF Recycle
    <3>4. QED
      BY <1>1, <3>2, <3>3 DEF ClientInv, SnapInv, memory
  <2>3. QED
    BY <2>1, <2>2 DEF ChainStep
<1>5. RateInv'
  <2>1. block' \in Nat /\ block <= block' /\ params' \in Parameters
    BY DEF ChainStep, NewBlock, Recycle, SetParams, Changed, ClientInv, RateInv
  <2>2. QED
    BY <1>1, <2>1 DEF ClientInv, RateInv, SeenType, memory
<1>6. VectorInv' /\ MinersInv' /\ SinceInv'
  BY <1>1 DEF ClientInv, VectorInv, MinersInv, SinceInv, Answered, Resolved, Payable, Mapped,
              HotkeyUid, callVars, memory
<1>7. QED
  BY <1>2, <1>3, <1>4, <1>5, <1>6 DEF ClientInv

LEMMA StartKeeps ==
  ASSUME ClientInv, NEW c \in Commands, RefuseTick(c) \/ StartTick(c) \/ StartHealth(c)
  PROVE  ClientInv'
<1>1. /\ step = "idle" /\ snap = NoSnap
      /\ UNCHANGED <<callVars, chainVars, snap, seen, scored, vector>>
  BY DEF RefuseTick, StartTick, StartHealth, Begin, ClientInv, ReadInv
<1>2. CallInv'
  BY <1>1, CallSame DEF ClientInv
<1>3. \/ step' \in {"query", "probe"} /\ job' = "none"
      \/ step' = "connect" /\ job' \in {"discover", "health"}
      \/ UNCHANGED <<step, job, cmd, miners>>
  BY DEF RefuseTick, StartTick, StartHealth, Goto
<1>4. ReadInv' /\ SnapInv' /\ VectorInv'
  BY <1>1, <1>3 DEF ClientInv, ReadInv, SnapInv, VectorInv, Landed, Guarded, Synced, callVars
<1>5. RateInv'
  BY <1>1, <1>3 DEF ClientInv, RateInv, SeenType, chainVars
<1>6. MinersInv'
  <2>1. scored = {} /\ job = "none"
    BY <1>1 DEF ClientInv, MinersInv
  <2>2. QED
    BY <1>1, <2>1 DEF RefuseTick, StartTick, StartHealth, Goto, MinersInv, Guarded, Unguarded
<1>7. QED
  BY <1>1, <1>2, <1>3, <1>4, <1>5, <1>6, SinceElsewhere DEF ClientInv, Later

\* The statements of bounded_call, the SDK's function and the alarm.
LEMMA CallStepKeeps ==
  ASSUME ClientInv, Bounded \/ SdkEnds \/ Alarm
  PROVE  ClientInv'
<1>1. CallInv'
  BY CallKeeps DEF ClientInv, Bounded, SdkEnds, Alarm
<1>2. /\ step \in Guarded
      /\ UNCHANGED <<chainVars, job, step, cmd, miners, scored, vector, moved>>
  <2>1. CASE Bounded \/ SdkEnds
    BY <2>1 DEF Bounded, SdkEnds, InSdk, Untouched
  <2>2. CASE Alarm
    BY <2>2 DEF Alarm, AlarmFires, Untouched, memory, ClientInv, CallInv, ReadInv, InCall
  <2>3. QED
    BY <2>1, <2>2
<1>3. CASE Bounded \/ Alarm \/ (SdkEnds /\ FnEnds("error"))
  <2>1. UNCHANGED <<snap, seen>>
    BY <1>3 DEF Bounded, Alarm, SdkEnds, FnEnds, memory
  <2>2. (pc' \in {"disarm", "restore"} /\ result' = "value")
           \/ (pc' = "idle" /\ returned' = "value")
         => (pc \in {"disarm", "restore"} /\ result = "value")
              \/ (pc = "idle" /\ returned = "value")
    <3>1. CASE Enter \/ InstallHandler \/ Arm \/ Undo \/ CallFn \/ Expire
      BY <3>1 DEF Enter, InstallHandler, Arm, Undo, CallFn, Expire, Finish
    <3>2. CASE Disarm \/ ExpireInFinally \/ Restore \/ AlarmFires \/ FnEnds("error")
      BY <3>2 DEF Disarm, ExpireInFinally, Restore, AlarmFires, FnEnds, Finish
    <3>3. QED
      BY <1>3, <3>1, <3>2 DEF Bounded, Alarm, Progress
  <2>3. ReadInv'
    BY <1>2, <2>1, <2>2 DEF ClientInv, ReadInv, Landed, Guarded
  <2>4. SnapInv' /\ VectorInv' /\ SinceInv'
    BY <1>2, <2>1, <2>2
    DEF ClientInv, SnapInv, VectorInv, SinceInv, Answered, Later, Guarded, chainVars
  <2>5. RateInv'
    BY <1>2, <2>1 DEF ClientInv, RateInv, SeenType, chainVars
  <2>6. MinersInv'
    BY <1>2, <2>1 DEF ClientInv, MinersInv, Resolved, Payable, Mapped, HotkeyUid
  <2>7. QED
    BY <1>1, <2>3, <2>4, <2>5, <2>6 DEF ClientInv
<1>4. CASE SdkEnds /\ FnEnds("value") /\ Value
  <2>1. CASE step = "metagraph"
    <3>1. seen' = seen /\ \E updated \in {lastUpdate, None} : snap' = Metagraph(updated)
      BY <1>4, <2>1 DEF Value
    <3>2. snap' # NoSnap /\ snap'.slot = slot /\ snap'.lastUpdate \in {lastUpdate, None}
      BY <3>1 DEF Metagraph, NoSnap
    <3>3. ReadInv' /\ SnapInv'
      BY <1>2, <2>1, <3>1, <3>2
      DEF ReadInv, SnapInv, Landed, Guarded, Synced, chainVars, NoSnap
    <3>4. RateInv' /\ VectorInv' /\ SinceInv'
      BY <1>2, <2>1, <3>1, SinceElsewhere
      DEF ClientInv, RateInv, VectorInv, SeenType, Later, chainVars
    <3>5. MinersInv'
      BY <1>2, <2>1, <3>1 DEF ClientInv, MinersInv, Resolved
    <3>6. QED
      BY <1>1, <3>3, <3>4, <3>5 DEF ClientInv
  <2>2. CASE step # "metagraph"
    <3>1. snap' = snap
      BY <1>4, <2>2 DEF Value
    <3>2. ReadInv'
      BY <1>2, <2>2, <3>1 DEF ClientInv, ReadInv, Landed, Guarded, Synced
    <3>3. SnapInv' /\ VectorInv'
      BY <1>2, <3>1 DEF ClientInv, SnapInv, VectorInv, Guarded, chainVars
    <3>4. MinersInv'
      BY <1>2, <2>2, <3>1
      DEF ClientInv, MinersInv, Resolved, Payable, Mapped, HotkeyUid, Guarded
    <3>5. RateInv' /\ SinceInv'
      <4>1. CASE step = "since"
        <5>1. snap.lastUpdate = lastUpdate /\ snap.lastUpdate # None
          BY <4>1 DEF ClientInv, ReadInv, SnapInv, SinceInv, Synced
        <5>2. seen' = [seen EXCEPT !.since = IF block > lastUpdate THEN block - lastUpdate ELSE 0]
          BY <1>4, <4>1, <5>1 DEF Value
        <5>3. /\ seen'.since \in Nat /\ seen'.since + lastUpdate <= block
              /\ seen' \in SeenType
          BY <5>2 DEF ClientInv, RateInv, SeenType
        <5>4. seen'.since # None
          BY <5>3, ClientAssumption DEF ClientAssumption
        <5>5. SinceInv'
          BY <1>2, <3>1, <4>1, <5>1, <5>4 DEF SinceInv, Later
        <5>6. QED
          BY <1>2, <4>1, <5>3, <5>5 DEF ClientInv, RateInv, SeenType, chainVars
      <4>2. CASE step = "read_back"
        <5>1. seen' \in SeenType
          BY <1>4, <4>2 DEF Value, ClientInv, RateInv, SeenType
        <5>2. SinceInv'
          BY <1>2, <4>2, SinceElsewhere DEF Later
        <5>3. QED
          BY <1>2, <4>2, <5>1, <5>2 DEF ClientInv, RateInv, SeenType, chainVars
      <4>3. CASE step \notin {"since", "read_back"}
        <5>1. seen' = seen
          BY <1>4, <4>3 DEF Value
        <5>2. SinceInv'
          BY <1>2, <4>3, SinceElsewhere DEF Later, Guarded
        <5>3. QED
          BY <1>2, <5>1, <5>2 DEF ClientInv, RateInv, chainVars
      <4>4. QED
        BY <4>1, <4>2, <4>3
    <3>6. QED
      BY <1>1, <3>2, <3>3, <3>4, <3>5 DEF ClientInv
  <2>3. QED
    BY <2>1, <2>2
<1>5. QED
  BY <1>3, <1>4 DEF SdkEnds

\* A read that succeeded: the caller goes on to the next one.
LEMMA ReadReturnsKeeps ==
  ASSUME ClientInv, ReadReturns
  PROVE  ClientInv'
<1>1. /\ step \in {"connect", "block", "metagraph", "since"}
      /\ pc = "idle" /\ returned = "value"
      /\ pc' = "idle" /\ returned' = "none"
      /\ step' = AfterRead
      /\ miners' = IF AfterRead = "query" THEN Endpoints ELSE miners
      /\ UNCHANGED <<chainVars, job, cmd, snap, seen, scored, vector, moved>>
  BY DEF ReadReturns, Continue, Goto, Guarded, Untouched
<1>2. CallInv'
  BY CallKeeps DEF ReadReturns, ClientInv
<1>3. \/ step = "connect" /\ job = "discover" /\ step' = "metagraph"
      \/ step = "connect" /\ job # "discover" /\ step' = "block"
      \/ step = "block" /\ step' = "exists"
      \/ step = "metagraph" /\ job = "discover" /\ step' = "query"
      \/ step = "metagraph" /\ job # "discover" /\ step' = "registered"
      \/ step = "since" /\ step' = "reveal"
  BY <1>1 DEF AfterRead
<1>4. step = "metagraph" => snap # NoSnap
  BY <1>1 DEF ClientInv, ReadInv, Landed
<1>5. ReadInv'
  BY <1>1, <1>3, <1>4 DEF ClientInv, ReadInv, Landed, Synced
<1>6. SnapInv' /\ VectorInv' /\ RateInv' /\ SinceInv'
  <2>1. SinceInv'
    BY <1>1, <1>3 DEF ClientInv, SinceInv, Answered, Later
  <2>2. QED
    BY <1>1, <1>3, <2>1 DEF ClientInv, SnapInv, VectorInv, RateInv, SeenType, chainVars
<1>7. MinersInv'
  <2>1. CASE step' = "query"
    <3>1. job = "discover" /\ scored = {} /\ miners' = Endpoints
      BY <1>1, <1>3, <2>1 DEF ClientInv, MinersInv
    <3>2. Resolved'
      BY <1>1, <1>3, <1>4, <2>1, <3>1 DEF Resolved, Endpoints, HotkeyUid
    <3>3. QED
      BY <1>1, <1>3, <2>1, <3>1, <3>2 DEF ClientInv, MinersInv, Guarded, Unguarded
  <2>2. CASE step' # "query"
    <3>1. miners' = miners
      BY <1>1, <2>2
    <3>2. Resolved => Resolved'
      BY <1>1, <3>1 DEF Resolved, HotkeyUid
    <3>3. QED
      BY <1>1, <1>3, <2>2, <3>1, <3>2 DEF ClientInv, MinersInv, Guarded, Unguarded
  <2>3. QED
    BY <2>1, <2>2
<1>8. QED
  BY <1>2, <1>5, <1>6, <1>7 DEF ClientInv

\* The steps with which a process ends.
LEMMA LastStepKeeps ==
  ASSUME ClientInv,
         \/ ReadRaises \/ ProcessDies \/ NothingDiscovered \/ QueryRaises \/ ConvertRaises
         \/ ReadBack \/ \E reachable, local \in BOOLEAN : Probe(reachable, local)
  PROVE  ClientInv'
<1>1. CASE ReadRaises
  BY <1>1, ReadFailsKeeps DEF ReadRaises
<1>2. CASE ProcessDies \/ NothingDiscovered \/ QueryRaises \/ ConvertRaises \/ ReadBack
  BY <1>2, EndKeeps DEF ProcessDies, NothingDiscovered, QueryRaises, ConvertRaises, ReadBack
<1>3. CASE \E reachable, local \in BOOLEAN : Probe(reachable, local)
  <2>1. PICK o : Exit(o)
    BY <1>3 DEF Probe
  <2>2. UNCHANGED <<block, lastUpdate, params>>
    BY <1>3 DEF Probe, chainVars
  <2>3. block' \in Nat /\ lastUpdate' \in Nat /\ lastUpdate' <= block' /\ params' \in Parameters
    BY <2>2 DEF ClientInv, RateInv
  <2>4. QED
    BY <2>1, <2>3, ExitKeeps
<1>4. QED
  BY <1>1, <1>2, <1>3

\* A step from one statement of the command to the next, outside the reads
\* under the alarm.
LEMMA MoveKeeps ==
  ASSUME ClientInv, step \notin Guarded,
         UNCHANGED <<callVars, chainVars, snap, moved>>,
         step' \in Synced => step \in Synced \/ snap # NoSnap,
         step' # "idle"
  PROVE  CallInv' /\ ReadInv' /\ SnapInv'
<1>1. CallInv'
  BY CallSame DEF ClientInv
<1>2. step # "read_back" /\ pc = "idle" /\ returned = "none"
  BY DEF ClientInv, ReadInv, Guarded
<1>3. ReadInv'
  BY <1>2 DEF ClientInv, ReadInv, Landed, Synced, Guarded, callVars
<1>4. SnapInv'
  BY <1>2 DEF ClientInv, SnapInv, chainVars
<1>5. QED
  BY <1>1, <1>3, <1>4

LEMMA SubnetExistsKeeps ==
  ASSUME ClientInv, SubnetExists
  PROVE  ClientInv'
<1>1. CASE ReadFails
  BY <1>1, ReadFailsKeeps DEF SubnetExists, Unguarded
<1>2. CASE ~params.exists /\ IF job = "health" THEN Degraded ELSE Receipt("netuid_absent", "error")
  BY <1>2, EndKeeps
<1>3. CASE /\ Goto(SyncMetagraph("registered"))
           /\ UNCHANGED <<callVars, job, memory>> /\ Untouched
  <2>1. /\ step = "exists"
        /\ UNCHANGED <<callVars, chainVars, job, cmd, snap, seen, miners, scored, vector, moved>>
    BY <1>3 DEF SubnetExists, memory, Untouched
  <2>2. \/ snap = NoSnap /\ step' = "metagraph"
        \/ snap # NoSnap /\ step' = "registered"
    BY <1>3 DEF Goto, SyncMetagraph
  <2>3. CallInv' /\ ReadInv' /\ SnapInv'
    BY <2>1, <2>2, MoveKeeps DEF Guarded, Synced
  <2>4. RateInv' /\ VectorInv'
    BY <2>1, <2>2 DEF ClientInv, RateInv, VectorInv, SeenType, chainVars
  <2>5. MinersInv'
    BY <2>1, <2>2 DEF ClientInv, MinersInv, Resolved, HotkeyUid, Guarded, Unguarded
  <2>6. SinceInv'
    BY <2>2, SinceElsewhere DEF Later
  <2>7. QED
    BY <2>3, <2>4, <2>5, <2>6 DEF ClientInv
<1>4. QED
  BY <1>1, <1>2, <1>3 DEF SubnetExists

\* The preflight record gets the UID, the limit or the answer about commit-reveal.
LEMMA RecordKeeps ==
  ASSUME ClientInv, ValidatorUid \/ RateLimit \/ CommitReveal
  PROVE  ClientInv'
<1>1. CASE \/ ReadFails /\ step \in Unguarded
           \/ Degraded \/ \E o, m : Receipt(o, m)
  BY <1>1, ReadFailsKeeps, EndKeeps
<1>2. CASE /\ step \in {"registered", "limit", "reveal"}
           /\ seen' \in SeenType /\ seen'.since = seen.since
           /\ \/ step = "registered" /\ step' = "limit"
              \/ step = "limit" /\ step' = IF snap.lastUpdate = None THEN "reveal" ELSE "since"
              \/ step = "reveal" /\ step' = IF job = "health" THEN "probe" ELSE "ready"
           /\ miners' = IF step' = "probe" THEN HealthEndpoints ELSE miners
           /\ UNCHANGED <<callVars, chainVars, job, cmd, snap, scored, vector, moved>>
  <2>1. CallInv' /\ ReadInv' /\ SnapInv'
    BY <1>2, MoveKeeps DEF Guarded, Synced
  <2>2. RateInv' /\ VectorInv'
    BY <1>2 DEF ClientInv, RateInv, VectorInv, SeenType, chainVars
  <2>3. MinersInv'
    <3>1. CASE step' = "probe"
      <4>1. job = "health" /\ scored = {}
        BY <1>2, <3>1 DEF ClientInv, MinersInv
      <4>2. job' = "health" /\ scored' = {}
        BY <1>2, <4>1
      <4>3. job' # "discover" /\ job' # "preflight" /\ scored' \subseteq miners'
        BY <4>2
      <4>4. step' \notin {"idle", "query", "apply", "ready", "convert", "set_weights",
                        "read_back"} \cup Guarded \cup Unguarded
        BY <3>1 DEF Guarded, Unguarded
      <4>5. QED
        BY <4>2, <4>3, <4>4 DEF MinersInv
    <3>2. CASE step' # "probe"
      <4>1. job \in {"discover", "preflight", "health"} /\ miners' = miners
        BY <1>2, <3>2
        DEF ClientInv, MinersInv, Guarded, Unguarded
      <4>2. Resolved => Resolved'
        BY <1>2, <4>1 DEF Resolved, HotkeyUid
      <4>3. QED
        BY <1>2, <3>2, <4>1, <4>2 DEF ClientInv, MinersInv, Guarded, Unguarded
    <3>3. QED
      BY <3>1, <3>2
  <2>4. SinceInv'
    <3>1. CASE step \in {"registered", "limit"}
      BY <1>2, <3>1 DEF ClientInv, ReadInv, SinceInv, Answered, Later, Guarded, callVars
    <3>2. CASE step = "reveal"
      BY <1>2, <3>2, SinceLater, SinceElsewhere DEF ClientInv, Later
    <3>3. QED
      BY <1>2, <3>1, <3>2
  <2>5. QED
    BY <2>1, <2>2, <2>3, <2>4 DEF ClientInv
<1>3. CASE ValidatorUid
  <2>1. CASE HotkeyUid(Self) = None
    BY <1>1, <1>3, <2>1 DEF ValidatorUid
  <2>2. CASE HotkeyUid(Self) # None
    <3>1. seen' = [seen EXCEPT !.uid = HotkeyUid(Self)] /\ HotkeyUid(Self) \in Uid
      BY <1>3, <2>2, HotkeyUidFinds DEF ValidatorUid
    <3>2. seen' \in SeenType /\ seen'.since = seen.since
      BY <3>1 DEF ClientInv, RateInv, SeenType
    <3>3. QED
      BY <1>2, <1>3, <2>2, <3>2 DEF ValidatorUid, Goto, Untouched
  <2>3. QED
    BY <2>1, <2>2
<1>4. CASE RateLimit
  <2>1. CASE ReadFails
    BY <1>1, <1>4, <2>1 DEF RateLimit, Unguarded
  <2>2. CASE ~ReadFails
    <3>1. \E l \in {params.limit, 0} : seen' = [seen EXCEPT !.limit = l]
      BY <1>4, <2>2 DEF RateLimit
    <3>2. params.limit \in Nat
      BY ClientAssumption DEF ClientAssumption, ClientInv, RateInv
    <3>3. seen' \in SeenType /\ seen'.since = seen.since
      BY <3>1, <3>2 DEF ClientInv, RateInv, SeenType
    <3>4. QED
      BY <1>2, <1>4, <2>2, <3>3 DEF RateLimit, Goto, Untouched
  <2>3. QED
    BY <2>1, <2>2
<1>5. CASE CommitReveal
  <2>1. CASE Degraded
    BY <1>1, <2>1
  <2>2. CASE ~Degraded
    <3>1. \E answer \in {"unknown", "on", "off"} : seen' = [seen EXCEPT !.reveal = answer]
      BY <1>5, <2>2 DEF CommitReveal
    <3>2. seen' \in SeenType /\ seen'.since = seen.since
      BY <3>1 DEF ClientInv, RateInv, SeenType
    <3>3. QED
      BY <1>2, <1>5, <2>2, <3>2 DEF CommitReveal, Goto, Untouched
  <2>3. QED
    BY <2>1, <2>2
<1>6. QED
  BY <1>3, <1>4, <1>5

\* The evaluation, and the decision whether to go to the chain.
LEMMA QueryKeeps ==
  ASSUME ClientInv, NEW paid \in SUBSET Miner, Query(paid)
  PROVE  ClientInv'
<1>1. /\ step = "query" /\ step' = "apply" /\ scored' = paid /\ paid \subseteq miners
      /\ UNCHANGED <<callVars, chainVars, job, cmd, snap, seen, miners, vector, moved>>
  BY DEF Query, Goto, Untouched
<1>2. CallInv' /\ ReadInv' /\ SnapInv'
  BY <1>1, MoveKeeps DEF Guarded, Synced
<1>3. RateInv' /\ VectorInv'
  BY <1>1 DEF ClientInv, RateInv, VectorInv, SeenType, chainVars
<1>4. MinersInv'
  <2>1. job \in {"none", "discover"} /\ (cmd.manual = {} => Resolved /\ job = "discover")
    BY <1>1 DEF ClientInv, MinersInv
  <2>2. Resolved => Resolved'
    BY <1>1 DEF Resolved, HotkeyUid
  <2>3. job = "discover" => cmd.manual = {}
    BY <1>1 DEF ClientInv, MinersInv
  <2>4. QED
    BY <1>1, <2>1, <2>2, <2>3 DEF MinersInv, Guarded, Unguarded
<1>5. QED
  BY <1>1, <1>2, <1>3, <1>4, SinceElsewhere DEF ClientInv, Later

LEMMA ApplyKeeps ==
  ASSUME ClientInv, Apply
  PROVE  ClientInv'
<1>1. CASE \E o, m : Receipt(o, m)
  BY <1>1, EndKeeps
<1>2. CASE /\ cmd.publish # "off" /\ scored # {}
           /\ job' = "preflight"
           /\ Goto(IF job = "discover" THEN "block" ELSE "connect")
           /\ UNCHANGED <<callVars, memory>> /\ Untouched
  <2>1. /\ step = "apply" /\ scored # {} /\ job' = "preflight"
        /\ step' = IF job = "discover" THEN "block" ELSE "connect"
        /\ UNCHANGED <<callVars, chainVars, cmd, snap, seen, miners, scored, vector, moved>>
    BY <1>2 DEF Apply, Goto, Untouched, memory
  <2>2. CallInv' /\ ReadInv' /\ SnapInv'
    BY <2>1, MoveKeeps DEF Guarded, Synced
  <2>3. RateInv' /\ VectorInv'
    BY <2>1 DEF ClientInv, RateInv, VectorInv, SeenType, chainVars
  <2>4. MinersInv'
    <3>1. scored \subseteq miners /\ (cmd.manual = {} => Resolved /\ job = "discover")
      BY <2>1 DEF ClientInv, MinersInv
    <3>2. Resolved => Resolved'
      BY <2>1 DEF Resolved, HotkeyUid
    <3>3. QED
      BY <2>1, <3>1, <3>2 DEF MinersInv, Guarded, Unguarded
  <2>5. QED
    BY <2>1, <2>2, <2>3, <2>4, SinceElsewhere DEF ClientInv, Later
<1>3. QED
  BY <1>1, <1>2 DEF Apply

\* No reason to skip means that enough blocks have passed.
LEMMA ReadyKeeps ==
  ASSUME ClientInv, Ready
  PROVE  ClientInv'
<1>1. CASE \E o, m : Receipt(o, m)
  BY <1>1, EndKeeps
<1>2. CASE /\ SkipReason = "none" /\ Mapped # {}
           /\ Goto("convert")
           /\ UNCHANGED <<callVars, job, memory>> /\ Untouched
  <2>1. /\ step = "ready" /\ step' = "convert"
        /\ UNCHANGED <<callVars, chainVars, job, cmd, snap, seen, miners, scored, vector, moved>>
    BY <1>2 DEF Ready, Goto, Untouched, memory
  <2>2. CallInv' /\ ReadInv' /\ SnapInv'
    BY <2>1, MoveKeeps DEF Guarded, Synced
  <2>3. seen.since # None => ~(seen.since < seen.limit)
    BY <1>2 DEF SkipReason
  <2>4. seen.since # None => seen.limit <= seen.since
    BY <2>3 DEF ClientInv, RateInv, SeenType
  <2>5. RateInv' /\ VectorInv'
    BY <2>1, <2>4 DEF ClientInv, RateInv, VectorInv, SeenType, chainVars
  <2>6. MinersInv'
    <3>1. job = "preflight"
      BY <2>1 DEF ClientInv, MinersInv
    <3>2. Resolved => Resolved'
      BY <2>1 DEF Resolved, HotkeyUid
    <3>3. QED
      BY <2>1, <3>1, <3>2 DEF ClientInv, MinersInv, Guarded, Unguarded
  <2>7. QED
    BY <2>1, <2>2, <2>5, <2>6, SinceLater DEF ClientInv, Later
<1>3. QED
  BY <1>1, <1>2 DEF Ready

\* What the conversion hands to set_weights: UIDs whose hotkeys the metagraph
\* has, or a payload filled up because too few miners had a weight.
LEMMA EmitKeeps ==
  ASSUME ClientInv, NEW payload, step = "convert", Emit(payload),
         \/ Cardinality(Payable) < params.min
         \/ \A u \in DOMAIN payload : u \in Uid /\ payload[u] = snap.slot[u],
         Payable # {} => payload # NoVector
  PROVE  ClientInv'
<1>1. CASE \E o, m : Receipt(o, m)
  BY <1>1, EndKeeps
<1>2. CASE /\ vector' = payload /\ seen' = [seen EXCEPT !.asked = params.min]
           /\ Goto("set_weights")
           /\ UNCHANGED <<callVars, job, cmd, snap, miners, scored>> /\ Untouched
  <2>1. /\ step' = "set_weights" /\ vector' = payload
        /\ UNCHANGED <<callVars, chainVars, job, cmd, snap, miners, scored, moved>>
    BY <1>2 DEF Goto, Untouched
  <2>2. CallInv' /\ ReadInv' /\ SnapInv'
    BY <2>1, MoveKeeps DEF Guarded, Synced
  <2>3. params.min \in Nat
    BY ClientAssumption DEF ClientAssumption, ClientInv, RateInv
  <2>4. /\ seen' \in SeenType /\ seen'.since = seen.since /\ seen'.limit = seen.limit
        /\ seen'.asked = params.min
    BY <1>2, <2>3 DEF ClientInv, RateInv, SeenType
  <2>5. RateInv' /\ SinceInv'
    BY <2>1, <2>4, SinceLater DEF ClientInv, RateInv, Later, chainVars
  <2>6. (Resolved => Resolved') /\ Payable' = Payable
    BY <2>1 DEF Resolved, HotkeyUid, Payable, Mapped
  <2>7. VectorInv'
    BY <2>1, <2>4, <2>6 DEF VectorInv
  <2>8. MinersInv'
    <3>1. job = "preflight"
      BY DEF ClientInv, MinersInv
    <3>2. vector' = NoVector => Payable' = {}
      BY <2>1, <2>6
    <3>3. QED
      BY <2>1, <2>6, <3>1, <3>2 DEF ClientInv, MinersInv, Guarded, Unguarded, NoVector
  <2>9. QED
    BY <2>2, <2>5, <2>7, <2>8 DEF ClientInv
<1>3. QED
  BY <1>1, <1>2 DEF Emit

\* The payload is made from the metagraph that found the miners.
LEMMA ConvertKeeps ==
  ASSUME ClientInv, NEW kept \in SUBSET Miner, Convert(kept)
  PROVE  ClientInv'
<1> DEFINE uids == {HotkeyUid(h) : h \in kept}
           meant == [u \in uids |-> CHOOSE h \in kept : HotkeyUid(h) = u]
<1>1. step = "convert" /\ kept \subseteq Payable /\ (kept = {} <=> Payable = {}) /\ Emit(meant)
  BY DEF Convert
<1>2. ASSUME NEW u \in uids PROVE u \in Uid /\ meant[u] = snap.slot[u]
  <2>1. meant[u] \in kept /\ HotkeyUid(meant[u]) = u
    OBVIOUS
  <2>2. HotkeyUid(meant[u]) # None
    BY <1>1, <2>1 DEF Payable, Mapped
  <2>3. QED
    BY <2>1, <2>2, HotkeyUidFinds
<1>3. Payable # {} => meant # NoVector
  <2>1. SUFFICES ASSUME Payable # {} PROVE \E u : u \in DOMAIN meant
    BY DEF NoVector
  <2>2. PICK h \in kept : TRUE
    BY <1>1, <2>1
  <2>3. HotkeyUid(h) \in DOMAIN meant
    BY <2>2
  <2>4. QED
    BY <2>3
<1>4. \A u \in DOMAIN meant : u \in Uid /\ meant[u] = snap.slot[u]
  BY <1>2
<1>5. QED
  BY <1>1, <1>3, <1>4, EmitKeeps

\* A payload filled up is not empty either.
LEMMA ConvertFilledKeeps ==
  ASSUME ClientInv, NEW uids \in SUBSET Uid, ConvertFilled(uids)
  PROVE  ClientInv'
<1> DEFINE filled == [u \in uids |-> None]
<1>1. step = "convert" /\ Cardinality(Payable) < params.min /\ uids # {} /\ Emit(filled)
  BY DEF ConvertFilled
<1>2. filled # NoVector
  <2>1. DOMAIN filled # {} /\ DOMAIN NoVector = {}
    BY <1>1 DEF NoVector
  <2>2. QED
    BY <2>1
<1>3. QED
  BY <1>1, <1>2, EmitKeeps

\* Only set_weights changes the validator's last update.
LEMMA SetWeightsKeeps ==
  ASSUME ClientInv, NEW included \in BOOLEAN, NEW success \in BOOLEAN,
         SetWeights(included, success)
  PROVE  ClientInv'
<1>1. /\ step = "set_weights"
      /\ lastUpdate' = IF included THEN block ELSE lastUpdate
      /\ UNCHANGED <<block, slot, params>>
  BY DEF SetWeights
<1>2. /\ block' \in Nat /\ lastUpdate' \in Nat /\ params' \in Parameters
      /\ lastUpdate' <= block'
  BY <1>1 DEF ClientInv, RateInv
<1>3. CASE Exit("ambiguous")
  BY <1>2, <1>3, ExitKeeps
<1>4. CASE Goto("read_back") /\ UNCHANGED <<callVars, job, memory, moved>>
  <2>1. /\ step' = "read_back"
        /\ UNCHANGED <<callVars, job, cmd, snap, seen, miners, scored, vector, moved>>
    BY <1>4 DEF Goto, memory
  <2>2. CallInv' /\ pc' = "idle" /\ returned' = "none"
    BY <1>1, <2>1, CallSame DEF ClientInv, ReadInv, Guarded, callVars
  <2>3. ReadInv' /\ SnapInv'
    BY <1>1, <2>1, <2>2 DEF ClientInv, ReadInv, SnapInv, Landed, Guarded, Synced
  <2>4. RateInv' /\ VectorInv'
    BY <1>2, <2>1 DEF ClientInv, RateInv, VectorInv, SeenType
  <2>5. MinersInv'
    <3>1. job = "preflight"
      BY <1>1 DEF ClientInv, MinersInv
    <3>2. Resolved => Resolved'
      BY <2>1 DEF Resolved, HotkeyUid
    <3>3. QED
      BY <1>1, <2>1, <3>1, <3>2 DEF ClientInv, MinersInv, Guarded, Unguarded
  <2>6. QED
    BY <2>1, <2>2, <2>3, <2>4, <2>5, SinceElsewhere DEF ClientInv, Later
<1>5. QED
  BY <1>3, <1>4 DEF SetWeights

-----------------------------------------------------------------------------
\* The theorems

LEMMA StepInv == ClientInv /\ [ClientNext]_clientVars => ClientInv'
<1> SUFFICES ASSUME ClientInv, [ClientNext]_clientVars PROVE ClientInv'
  OBVIOUS
<1>1. CASE \E c \in Commands : RefuseTick(c) \/ StartTick(c) \/ StartHealth(c)
  BY <1>1, StartKeeps
<1>2. CASE Guided
  <2>1. CASE Bounded
    BY <2>1, CallStepKeeps
  <2>2. CASE ReadReturns
    BY <2>2, ReadReturnsKeeps
  <2>3. CASE ReadRaises \/ ProcessDies \/ ReadBack \/ NothingDiscovered \/ QueryRaises
               \/ \E reachable, local \in BOOLEAN : Probe(reachable, local)
    BY <2>3, LastStepKeeps
  <2>4. CASE ValidatorUid
    BY <2>4, RecordKeeps
  <2>5. CASE Apply
    BY <2>5, ApplyKeeps
  <2>6. CASE Ready
    BY <2>6, ReadyKeeps
  <2>7. CASE \E paid \in SUBSET Miner : Query(paid)
    BY <2>7, QueryKeeps
  <2>8. QED
    BY <1>2, <2>1, <2>2, <2>3, <2>4, <2>5, <2>6, <2>7 DEF Guided
<1>3. CASE Alarm
  BY <1>3, CallStepKeeps
<1>4. CASE Hanging
  <2>1. CASE SdkEnds
    BY <2>1, CallStepKeeps
  <2>2. CASE SubnetExists
    BY <2>2, SubnetExistsKeeps
  <2>3. CASE RateLimit \/ CommitReveal
    BY <2>3, RecordKeeps
  <2>4. CASE ConvertRaises
    BY <2>4, LastStepKeeps
  <2>5. CASE \E kept \in SUBSET Miner : Convert(kept)
    BY <2>5, ConvertKeeps
  <2>6. CASE \E included, success \in BOOLEAN : SetWeights(included, success)
    BY <2>6, SetWeightsKeeps
  <2>7. CASE \E uids \in SUBSET Uid : ConvertFilled(uids)
    BY <2>7, ConvertFilledKeeps
  <2>8. QED
    BY <1>4, <2>1, <2>2, <2>3, <2>4, <2>5, <2>6, <2>7 DEF Hanging
<1>5. CASE ChainStep
  BY <1>5, ChainKeeps
<1>6. CASE UNCHANGED clientVars
  BY <1>6 DEF clientVars, ClientInv, CallInv, ReadInv, SnapInv, RateInv, SinceInv, VectorInv, MinersInv,
              Answered, Landed, InCall, Resolved, Payable, Mapped, HotkeyUid, SeenType, callVars,
              chainVars, memory
<1>7. QED
  BY <1>1, <1>2, <1>3, <1>4, <1>5, <1>6 DEF ClientNext

LEMMA ClientInvariant == ClientSpec => []ClientInv
BY InitInv, StepInv, PTL DEF ClientSpec

\* bounded_call leaves no timer, no handler and no signal behind, whatever the
\* read does and whenever the alarm goes off, and is never killed by it.
THEOREM AlarmAlwaysContained == ClientSpec => []AlarmContained
<1>1. ClientInv => AlarmContained
  BY DEF ClientInv, CallInv, InCall, AlarmContained
<1>2. QED
  BY <1>1, ClientInvariant, PTL

\* apply_weights pays the hotkey that was scored unless its UID changed hands
\* while this tick ran or the SDK filled the payload up to min_allowed_weights.
THEOREM AlwaysPaidToOwner == ClientSpec => []PaidToOwner
<1>1. ClientInv => PaidToOwner
  <2>1. SUFFICES ASSUME ClientInv, step = "set_weights", ~(Cardinality(Payable) < seen.asked),
                        NEW u \in DOMAIN vector
                 PROVE  slot[u] = vector[u] \/ u \in moved
    BY DEF PaidToOwner
  <2>2. u \in Uid /\ vector[u] = snap.slot[u] /\ snap # NoSnap
    BY <2>1 DEF ClientInv, VectorInv, ReadInv, Synced
  <2>3. QED
    BY <2>2, <2>1 DEF ClientInv, SnapInv
<1>2. QED
  BY <1>1, ClientInvariant, PTL

\* set_weights is not called before the rate limit that preflight read allows,
\* whenever the metagraph has the validator's last update.
THEOREM RateLimitAlwaysKept == ClientSpec => []RateLimitKept
<1>1. ClientInv => RateLimitKept
  <2>1. SUFFICES ASSUME ClientInv, step = "set_weights", snap.lastUpdate # None
                 PROVE  block - lastUpdate >= seen.limit
    BY DEF RateLimitKept
  <2>2. seen.since # None
    BY <2>1 DEF ClientInv, SinceInv, Later
  <2>3. /\ block \in Nat /\ lastUpdate \in Nat /\ seen.limit \in Nat
        /\ seen.since \in Nat /\ seen.since + lastUpdate <= block /\ seen.limit <= seen.since
    BY <2>1, <2>2 DEF ClientInv, RateInv, SeenType
  <2>4. QED
    BY <2>3
<1>2. QED
  BY <1>1, ClientInvariant, PTL

\* A tick that discovered its miners never calls set_weights with nothing.
THEOREM DiscoveredNeverEmpty == ClientSpec => []NeverEmpty
<1>1. ClientInv => NeverEmpty
  <2>1. SUFFICES ASSUME ClientInv, step = "set_weights", cmd.manual = {}
                 PROVE  vector # NoVector
    BY DEF NeverEmpty
  <2>2. job = "preflight"
    BY <2>1 DEF ClientInv, MinersInv
  <2>3. Resolved /\ scored # {} /\ scored \subseteq miners
    BY <2>1, <2>2 DEF ClientInv, MinersInv
  <2>4. Payable # {}
    BY <2>3 DEF Resolved, Payable, Mapped
  <2>5. QED
    BY <2>1, <2>4 DEF ClientInv, MinersInv
<1>2. QED
  BY <1>1, ClientInvariant, PTL

-----------------------------------------------------------------------------
\* `health` and the tick after it

\* The miner is registered and publishes an endpoint that miner_endpoints keeps.
Offers(h) ==
  Registered(h) /\ axon[h] # "none" /\ (network = "test" => axon[h] = "public")

\* What a tick needs of the chain.
Serves == params.exists /\ Registered(Self) /\ \E h \in Miner : Offers(h)

Refusals == {"no_axons", "netuid_absent", "validator_unregistered"}

\* While the chain stays as it was when `health` began, every metagraph is the
\* chain; each step of `health` has learnt its part of Serves, and a tick after
\* it finds miners.
HealthInv ==
  /\ healthy # "no" /\ snap # NoSnap => snap.slot = slot /\ snap.axon = axon
  /\ healthy = "yes" => Serves
  /\ healthy = "asked" /\ job = "health" =>
       /\ step \in {"metagraph", "registered", "limit", "since", "reveal", "probe"}
            => params.exists
       /\ step \in {"limit", "since", "reveal", "probe"} => Registered(Self)
       /\ step = "probe" => \A h \in miners : h \in Miner /\ Offers(h)
  /\ step = "probe" => job = "health" \/ cmd.mode = "wire"
  /\ step = "query" /\ healthy = "yes" => miners # {}
  /\ HealthyTickConnects

\* A metagraph that is the chain shows what the chain has.
LEMMA SnapShows ==
  ASSUME snap.slot = slot, snap.axon = axon
  PROVE  /\ \A h : HotkeyUid(h) # None <=> Registered(h)
         /\ Endpoints = {h \in Miner : Offers(h)}
<1>1. \A h : HotkeyUid(h) # None <=> Registered(h)
  BY ClientAssumption DEF HotkeyUid, Registered
<1>2. QED
  BY <1>1 DEF Endpoints, Offers, require_public_ipv4

\* The end of a command, when it learns nothing bad of a chain found healthy.
LEMMA HealthExit ==
  ASSUME HealthInv, NEW o, Exit(o), healthy' \in {healthy, "no"},
         healthy = "yes" => o \notin Refusals,
         UNCHANGED <<network, slot, axon, params>>
  PROVE  HealthInv'
<1>1. /\ outcome' = o /\ step' = "idle" /\ snap' = NoSnap /\ job' = "none"
  BY DEF Exit, Ended
<1>2. Serves' = Serves
  BY DEF Serves, Offers, Registered
<1>3. QED
  BY <1>1, <1>2 DEF HealthInv, HealthyTickConnects, Refusals

\* Receipt, Park, Abort and Degraded end a command that way.
LEMMA HealthEnd ==
  ASSUME HealthInv,
         \/ \E o, m : Receipt(o, m) /\ (healthy = "yes" => o \notin Refusals)
         \/ \E o : (Park(o) \/ Abort(o)) /\ (healthy = "yes" => o \notin Refusals)
         \/ Degraded
  PROVE  HealthInv'
<1>1. ASSUME NEW o, NEW m, Receipt(o, m), healthy = "yes" => o \notin Refusals PROVE HealthInv'
  BY <1>1, HealthExit DEF Receipt, chainVars
<1>2. ASSUME NEW o, Park(o) \/ Abort(o), healthy = "yes" => o \notin Refusals PROVE HealthInv'
  BY <1>2, HealthExit DEF Park, Abort, chainVars
<1>3. CASE Degraded
  BY <1>3, HealthExit DEF Degraded, chainVars, Refusals
<1>4. QED
  BY <1>1, <1>2, <1>3

LEMMA HealthReadFails ==
  ASSUME ClientInv, HealthInv, step \in Guarded \cup Unguarded, ReadFails
  PROVE  HealthInv'
<1>1. job \in {"discover", "preflight", "health"}
  BY DEF ClientInv, MinersInv
<1>2. CASE job = "discover"
  BY <1>2, HealthEnd DEF ReadFails, Refusals
<1>3. CASE job = "preflight"
  BY <1>3, HealthEnd DEF ReadFails, Refusals
<1>4. CASE job = "health"
  BY <1>4, HealthEnd DEF ReadFails
<1>5. QED
  BY <1>1, <1>2, <1>3, <1>4

\* A step that leaves the chain, the metagraph and the outcome alone.
LEMMA HealthMove ==
  ASSUME HealthInv, UNCHANGED <<network, slot, axon, params, snap, healthy, outcome, cmd>>,
         healthy = "asked" /\ job' = "health" =>
           /\ step' \in {"metagraph", "registered", "limit", "since", "reveal", "probe"}
                => params.exists
           /\ step' \in {"limit", "since", "reveal", "probe"} => Registered(Self)
           /\ step' = "probe" => \A h \in miners' : h \in Miner /\ Offers(h),
         step' = "probe" => job' = "health" \/ cmd.mode = "wire",
         step' = "query" /\ healthy = "yes" => miners' # {}
  PROVE  HealthInv'
<1>1. Serves' = Serves /\ Registered(Self)' = Registered(Self)
  BY DEF Serves, Offers, Registered
<1>2. \A h : Offers(h)' = Offers(h)
  BY DEF Offers, Registered
<1>3. QED
  BY <1>1, <1>2 DEF HealthInv, HealthyTickConnects

\* A step that keeps the step of the command as well.
LEMMA HealthStays ==
  ASSUME HealthInv,
         UNCHANGED <<network, slot, axon, params, snap, healthy, outcome, cmd, job, step, miners>>
  PROVE  HealthInv'
BY HealthMove DEF HealthInv

LEMMA HealthStart ==
  ASSUME ClientInv, HealthInv, NEW c \in Commands,
         RefuseTick(c) \/ StartTick(c) \/ StartHealth(c)
  PROVE  HealthInv'
<1>1. /\ step = "idle" /\ snap = NoSnap /\ snap' = NoSnap /\ job = "none"
      /\ UNCHANGED <<network, slot, axon, params>>
  BY DEF RefuseTick, StartTick, StartHealth, Begin, ClientInv, ReadInv, MinersInv, chainVars
<1>2. Serves' = Serves
  BY <1>1 DEF Serves, Offers, Registered
<1>3. CASE RefuseTick(c)
  BY <1>1, <1>2, <1>3 DEF RefuseTick, HealthInv, HealthyTickConnects
<1>4. CASE StartTick(c)
  BY <1>1, <1>2, <1>4 DEF StartTick, Goto, HealthInv, HealthyTickConnects
<1>5. CASE StartHealth(c)
  BY <1>1, <1>2, <1>5 DEF StartHealth, Goto, HealthInv, HealthyTickConnects
<1>6. QED
  BY <1>3, <1>4, <1>5

LEMMA HealthChain ==
  ASSUME HealthInv, ChainStep
  PROVE  HealthInv'
<1>1. CASE NewBlock
  BY <1>1, HealthStays DEF NewBlock, memory
<1>2. CASE ~NewBlock
  <2>1. healthy' = "no" /\ UNCHANGED <<step, job, cmd>>
    BY <1>2 DEF ChainStep, Recycle, SetParams, Changed, memory
  <2>2. QED
    BY <2>1 DEF HealthInv, HealthyTickConnects
<1>3. QED
  BY <1>1, <1>2

LEMMA HealthCall ==
  ASSUME HealthInv, Bounded \/ Alarm \/ SdkEnds
  PROVE  HealthInv'
<1>1. UNCHANGED <<network, slot, axon, params, healthy, outcome, cmd, job, step, miners>>
  BY DEF Bounded, Alarm, SdkEnds, InSdk, Untouched, chainVars, memory
<1>2. CASE snap' = snap
  BY <1>1, <1>2, HealthStays
<1>3. CASE snap' # snap
  <2>1. \E updated : snap' = Metagraph(updated)
    BY <1>3 DEF Bounded, Alarm, SdkEnds, Value, memory
  <2>2. snap'.slot = slot /\ snap'.axon = axon
    BY <2>1 DEF Metagraph
  <2>3. Serves' = Serves /\ Registered(Self)' = Registered(Self)
    BY <1>1 DEF Serves, Offers, Registered
  <2>4. \A h : Offers(h)' = Offers(h)
    BY <1>1 DEF Offers, Registered
  <2>5. QED
    BY <1>1, <2>2, <2>3, <2>4 DEF HealthInv, HealthyTickConnects
<1>4. QED
  BY <1>2, <1>3

LEMMA HealthReadReturns ==
  ASSUME ClientInv, HealthInv, ReadReturns
  PROVE  HealthInv'
<1>1. /\ step \in {"connect", "block", "metagraph", "since"}
      /\ step' = AfterRead
      /\ miners' = IF step' = "query" THEN Endpoints ELSE miners
      /\ UNCHANGED <<network, slot, axon, params, snap, healthy, outcome, cmd, job>>
  BY DEF ReadReturns, Guarded, Goto, Untouched, chainVars
<1>2. CASE step = "metagraph"
  <2>1. snap # NoSnap
    BY <1>2 DEF ReadReturns, Continue, ClientInv, ReadInv, Landed
  <2>2. step' = IF job = "discover" THEN "query" ELSE "registered"
    BY <1>1, <1>2 DEF AfterRead
  <2>3. step' = "query" /\ healthy = "yes" => miners' # {}
    <3> SUFFICES ASSUME step' = "query", healthy = "yes" PROVE miners' # {}
      OBVIOUS
    <3>1. Endpoints = {h \in Miner : Offers(h)} /\ Serves
      BY <2>1, SnapShows DEF HealthInv
    <3>2. QED
      BY <1>1, <3>1 DEF Serves
  <2>4. QED
    BY <1>1, <1>2, <2>2, <2>3, HealthMove DEF HealthInv
<1>3. CASE step = "connect"
  <2>1. step' \in {"metagraph", "block"} /\ (step' = "metagraph" => job = "discover")
    BY <1>1, <1>3 DEF AfterRead
  <2>2. QED
    BY <1>1, <2>1, HealthMove
<1>4. CASE step = "block"
  <2>1. step' = "exists"
    BY <1>1, <1>4 DEF AfterRead
  <2>2. QED
    BY <1>1, <2>1, HealthMove
<1>5. CASE step = "since"
  <2>1. step' = "reveal"
    BY <1>1, <1>5 DEF AfterRead
  <2>2. QED
    BY <1>1, <1>5, <2>1, HealthMove DEF HealthInv
<1>6. QED
  BY <1>1, <1>2, <1>3, <1>4, <1>5

LEMMA HealthPreflight ==
  ASSUME ClientInv, HealthInv, SubnetExists \/ ValidatorUid \/ RateLimit \/ CommitReveal
  PROVE  HealthInv'
<1>1. CASE ReadFails /\ (SubnetExists \/ RateLimit)
  BY <1>1, HealthReadFails DEF SubnetExists, RateLimit, Unguarded
<1>2. CASE SubnetExists /\ ~ReadFails
  <2>1. CASE ~params.exists /\ IF job = "health" THEN Degraded ELSE Receipt("netuid_absent", "error")
    <3>1. healthy # "yes"
      BY <2>1 DEF HealthInv, Serves
    <3>2. QED
      BY <2>1, <3>1, HealthEnd
  <2>2. CASE /\ params.exists /\ step' \in {"metagraph", "registered"}
             /\ UNCHANGED <<network, slot, axon, params, snap, healthy, outcome, cmd, job>>
    BY <2>2, HealthMove
  <2>3. QED
    BY <1>2, <2>1, <2>2 DEF SubnetExists, Goto, SyncMetagraph, Untouched, chainVars, memory
<1>3. CASE ValidatorUid
  <2>1. snap # NoSnap /\ step = "registered"
    BY <1>3 DEF ValidatorUid, ClientInv, ReadInv, Synced
  <2>2. healthy # "no" => (HotkeyUid(Self) # None <=> Registered(Self))
    BY <2>1, SnapShows DEF HealthInv
  <2>3. CASE /\ HotkeyUid(Self) = None
             /\ IF job = "health" THEN Degraded ELSE Receipt("validator_unregistered", "error")
    <3>1. healthy # "yes"
      BY <2>2, <2>3 DEF HealthInv, Serves
    <3>2. QED
      BY <2>3, <3>1, HealthEnd
  <2>4. CASE /\ HotkeyUid(Self) # None /\ step' = "limit"
             /\ UNCHANGED <<network, slot, axon, params, snap, healthy, outcome, cmd, job>>
    BY <2>1, <2>2, <2>4, HealthMove DEF HealthInv
  <2>5. QED
    BY <1>3, <2>3, <2>4 DEF ValidatorUid, Goto, Untouched, chainVars
<1>4. CASE RateLimit /\ ~ReadFails
  <2>1. /\ step = "limit" /\ step' \in {"since", "reveal"}
        /\ UNCHANGED <<network, slot, axon, params, snap, healthy, outcome, cmd, job>>
    BY <1>4 DEF RateLimit, Goto, Untouched, chainVars
  <2>2. QED
    BY <2>1, HealthMove DEF HealthInv
<1>5. CASE CommitReveal
  <2>1. CASE Degraded
    BY <2>1, HealthEnd
  <2>2. CASE ~Degraded
    <3>1. /\ step = "reveal" /\ step' = IF job = "health" THEN "probe" ELSE "ready"
          /\ miners' = IF job = "health" THEN Endpoints ELSE miners
          /\ UNCHANGED <<network, slot, axon, params, snap, healthy, outcome, cmd, job>>
      BY <1>5, <2>2 DEF CommitReveal, Goto, Untouched, chainVars, HealthEndpoints
    <3>2. snap # NoSnap
      BY <3>1 DEF ClientInv, ReadInv, Synced
    <3>3. healthy = "asked" /\ job = "health" => \A h \in miners' : h \in Miner /\ Offers(h)
      BY <3>1, <3>2, SnapShows DEF HealthInv
    <3>4. QED
      BY <3>1, <3>3, HealthMove DEF HealthInv
  <2>3. QED
    BY <2>1, <2>2
<1>6. QED
  BY <1>1, <1>2, <1>3, <1>4, <1>5

LEMMA HealthProbe ==
  ASSUME ClientInv, HealthInv, NEW reachable, NEW local, Probe(reachable, local)
  PROVE  HealthInv'
<1>1. /\ step = "probe" /\ UNCHANGED <<network, slot, axon, params>>
      /\ step' = "idle" /\ snap' = NoSnap /\ job' = "none"
      /\ outcome' \in {"ok", "degraded"} /\ healthy' \in {"yes", "no"}
  BY DEF Probe, Exit, Ended, chainVars
<1>2. ASSUME healthy' = "yes" PROVE Serves
  <2>1. miners # {} /\ healthy = "asked" /\ cmd.mode # "wire"
    BY <1>2 DEF Probe
  <2>2. job = "health" /\ params.exists /\ Registered(Self) /\ \A h \in miners : h \in Miner /\ Offers(h)
    BY <1>1, <2>1 DEF HealthInv
  <2>3. QED
    BY <2>1, <2>2 DEF Serves
<1>3. Serves' = Serves
  BY <1>1 DEF Serves, Offers, Registered
<1>4. QED
  BY <1>1, <1>2, <1>3 DEF HealthInv, HealthyTickConnects

LEMMA HealthTick ==
  ASSUME ClientInv, HealthInv,
         \/ Apply \/ Ready \/ ReadBack \/ NothingDiscovered \/ QueryRaises \/ ConvertRaises
         \/ ReadRaises \/ ProcessDies
         \/ \E paid \in SUBSET Miner : Query(paid)
         \/ \E kept \in SUBSET Miner : Convert(kept)
         \/ \E uids \in SUBSET Uid : ConvertFilled(uids)
         \/ \E included, success \in BOOLEAN : SetWeights(included, success)
  PROVE  HealthInv'
<1>1. CASE Apply
  <2>1. CASE \E o \in {"fallback", "all_zero"} : Receipt(o, "ok")
    BY <2>1, HealthEnd DEF Refusals
  <2>2. CASE /\ job' = "preflight" /\ step' \in {"block", "connect"}
             /\ UNCHANGED <<network, slot, axon, params, snap, healthy, outcome, cmd, miners>>
    BY <2>2, HealthMove
  <2>3. QED
    BY <1>1, <2>1, <2>2 DEF Apply, Goto, Untouched, chainVars, memory
<1>2. CASE Ready
  <2>1. SkipReason \notin Refusals
    BY DEF SkipReason, RevealReason, Refusals
  <2>2. CASE \E o : Receipt(o, "ok") /\ o \notin Refusals
    BY <2>2, HealthEnd
  <2>3. CASE /\ step' = "convert" /\ UNCHANGED <<network, slot, axon, params, snap, healthy, outcome,
                                               cmd, miners>>
    BY <2>3, HealthMove
  <2>4. QED
    BY <1>2, <2>1, <2>2, <2>3 DEF Ready, Goto, Untouched, chainVars, memory, Refusals
<1>3. CASE ReadBack
  <2>1. \/ \E o : Receipt(o, "ok") /\ o \notin Refusals
        \/ Park("ambiguous")
    BY <1>3 DEF ReadBack, Refusals
  <2>2. QED
    BY <2>1, HealthEnd DEF Refusals
<1>4. CASE NothingDiscovered
  <2>1. healthy # "yes"
    BY <1>4 DEF NothingDiscovered, HealthInv
  <2>2. QED
    BY <1>4, <2>1, HealthEnd DEF NothingDiscovered
<1>5. CASE QueryRaises \/ ConvertRaises
  BY <1>5, HealthEnd DEF QueryRaises, ConvertRaises, Refusals
<1>6. CASE ReadRaises
  BY <1>6, HealthReadFails DEF ReadRaises
<1>7. CASE ProcessDies
  <2>1. Park("ambiguous") \/ Park("raised") \/ Abort("raised")
    BY <1>7 DEF ProcessDies
  <2>2. QED
    BY <2>1, HealthEnd DEF Refusals
<1>8. CASE \E paid \in SUBSET Miner : Query(paid)
  <2>1. /\ step' = "apply"
        /\ UNCHANGED <<network, slot, axon, params, snap, healthy, outcome, cmd, job, miners>>
    BY <1>8 DEF Query, Goto, Untouched, chainVars
  <2>2. QED
    BY <2>1, HealthMove
<1>9. CASE \/ \E kept \in SUBSET Miner : Convert(kept)
           \/ \E uids \in SUBSET Uid : ConvertFilled(uids)
  <2>1. CASE \E o, m : Receipt(o, m) /\ o \notin Refusals
    BY <2>1, HealthEnd
  <2>2. CASE /\ step' = "set_weights"
             /\ UNCHANGED <<network, slot, axon, params, snap, healthy, outcome, cmd, job, miners>>
    BY <2>2, HealthMove
  <2>3. QED
    <3>1. PICK payload : Emit(payload)
      BY <1>9 DEF Convert, ConvertFilled
    <3>2. QED
      BY <2>1, <2>2, <3>1 DEF Emit, Goto, Untouched, chainVars, Refusals
<1>10. CASE \E included, success \in BOOLEAN : SetWeights(included, success)
  <2>1. UNCHANGED <<network, slot, axon, params, healthy>>
    BY <1>10 DEF SetWeights
  <2>2. CASE Exit("ambiguous")
    BY <2>1, <2>2, HealthExit DEF Refusals
  <2>3. CASE step' = "read_back" /\ UNCHANGED <<snap, outcome, cmd, job, miners>>
    BY <2>1, <2>3, HealthMove
  <2>4. QED
    BY <1>10, <2>2, <2>3 DEF SetWeights, Goto, memory
<1>11. QED
  BY <1>1, <1>2, <1>3, <1>4, <1>5, <1>6, <1>7, <1>8, <1>9, <1>10

LEMMA HealthStep == ClientInv /\ HealthInv /\ [ClientNext]_clientVars => HealthInv'
<1> SUFFICES ASSUME ClientInv, HealthInv, [ClientNext]_clientVars PROVE HealthInv'
  OBVIOUS
<1>1. CASE \E c \in Commands : RefuseTick(c) \/ StartTick(c) \/ StartHealth(c)
  BY <1>1, HealthStart
<1>2. CASE Guided
  BY <1>2, HealthCall, HealthReadReturns, HealthPreflight, HealthProbe, HealthTick DEF Guided
<1>3. CASE Alarm
  BY <1>3, HealthCall
<1>4. CASE Hanging
  BY <1>4, HealthCall, HealthPreflight, HealthTick DEF Hanging
<1>5. CASE ChainStep
  BY <1>5, HealthChain
<1>6. CASE UNCHANGED clientVars
  BY <1>6, HealthStays DEF clientVars, chainVars, memory
<1>7. QED
  BY <1>1, <1>2, <1>3, <1>4, <1>5, <1>6 DEF ClientNext

\* After `health` returned 0, and with the chain unchanged since it began, no tick
\* ends for want of axons, of the subnet or of the validator's registration:
\* health and apply_weights read the same things the same way.
THEOREM HealthyTickAlwaysConnects == ClientSpec => []HealthyTickConnects
<1>1. ClientInit => HealthInv
  BY DEF ClientInit, HealthInv, HealthyTickConnects
<1>2. HealthInv => HealthyTickConnects
  BY DEF HealthInv
<1>3. QED
  BY <1>1, <1>2, HealthStep, ClientInvariant, PTL DEF ClientSpec

=============================================================================
