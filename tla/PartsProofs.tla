----------------------------- MODULE PartsProofs -----------------------------
(***************************************************************************)
(* What is proved of the parts that stand alone: the round of Round, the   *)
(* cooldown of Notify, the consent of UpdateCheck, the ticks and the       *)
(* threads of PingCommand, the reads of ContinuousScreen, the restarts of  *)
(* HomeScreen, the calendar and the reads of HistoryScreen.  Each holds of *)
(* its part alone, for every value of the constants.                       *)
(***************************************************************************)
EXTENDS Round, Notify, UpdateCheck, ContinuousScreen, PingCommand, HomeScreen,
        HistoryScreen, SequenceTheorems, FiniteSetTheorems, WellFoundedInduction, TLAPS

-----------------------------------------------------------------------------
(* Round: every ceiling, every length of its phases and every provider that *)
(* keeps the contract of SpeedProvider; it is one of the outcomes that      *)
(* RoundOutcome lets its callers rely on.                                   *)

Wants(p) == IF p = "download" THEN metrics.download ELSE metrics.upload

\* Phases run in order, each at most once: a window is there exactly when its
\* phase was wanted and is over, and the provider is only ever inside the
\* current phase.
OrderInv ==
  /\ pc \in Phase => Wants(pc) /\ window[pc] = None
  /\ pc \in {"start", "idle", "download"} => \A p \in Phase : window[p] = None
  /\ pc = "upload" => (window["download"] # None <=> metrics.download)
  /\ pc = "done" => \A p \in Phase : window[p] # None <=> Wants(p)
  /\ call # None => pc = call
  /\ pc \in Phase /\ call = None => reply # None

\* Inside a phase: the ceiling the provider has is the phase's, it keeps to it,
\* and what it reports it has moved.
TransferInv ==
  pc \in Phase =>
    /\ ceiling = PhaseCeiling(pc, window)
    /\ ceiling # None => moved <= ceiling
    /\ reply \in P!Throughput =>
         reply.bytes <= moved /\ (reply.capped <=> reply.bytes = ceiling)

\* The round gives a reason that names p.
Gives(p) == \E reason \in reasons : reason[1] = p

\* A phase that did not run left nothing.
Untouched(p) == wire[p] = 0 /\ reading[p] = None /\ ~Gives(p)

\* A phase that did moved no more than its ceiling, reported no more than it
\* moved, and gives a reason exactly when it has no reading.
Accounted(p) ==
  /\ window[p].bytes <= wire[p]
  /\ byte_ceiling # None => wire[p] <= PhaseCeiling(p, window)
  /\ reading[p] # None /\ reading[p].capped => byte_ceiling # None
  /\ reading[p] = None <=> Gives(p)

\* The ping gives one only where it was wanted.
RecordInv ==
  /\ \A p \in Phase : IF window[p] = None THEN Untouched(p) ELSE Accounted(p)
  /\ Gives("ping") => metrics.ping

RoundInv == TypeOK /\ OrderInv /\ TransferInv /\ RecordInv

\* A late sample is the last one of its loop: the loop that took it sees the end
\* of the load when the probe is back.
LateInv ==
  /\ late <= 1
  /\ late # 0 => LoadEnded /\ pinger \in {"probing", "off"}

-----------------------------------------------------------------------------
(***************************************************************************)
(* The operators of the round.                                             *)
(***************************************************************************)

\* A phase is handed no ceiling exactly when the round has none, and never more
\* than the round's.
LEMMA PhaseCeilingBounds ==
  ASSUME NEW windows \in [Phase -> LoadWindow \cup {None}], NEW p \in Phase,
         byte_ceiling \in Ceilings
  PROVE  /\ PhaseCeiling(p, windows) \in (0 .. MaxWire) \cup {None}
         /\ PhaseCeiling(p, windows) = None <=> byte_ceiling = None
         /\ byte_ceiling # None => PhaseCeiling(p, windows) <= byte_ceiling
         /\ WindowBytes(windows, p) \in 0 .. MaxWire
<1>1. byte_ceiling \in (1 .. MaxWire) \cup {None}
  BY CeilingAssumption
<1>2. \A q \in Phase : WindowBytes(windows, q) \in 0 .. MaxWire
  BY NoneAssumption DEF WindowBytes, LoadWindow
<1>3. "download" \in Phase
  BY DEF Phase, P!Phase
<1>4. WindowBytes(windows, "download") \in 0 .. MaxWire
  BY <1>2, <1>3
<1> QED
  BY <1>1, <1>2, <1>4, NoneAssumption DEF PhaseCeiling

\* What follows a part of the round: a phase that is wanted, or the end.
LEMMA NextPhaseIs ==
  ASSUME NEW from \in Phase \cup {"start", "idle"}
  PROVE  \/ /\ NextPhase(from) = "download"
            /\ from \notin Phase /\ Wants("download")
         \/ /\ NextPhase(from) = "upload"
            /\ from # "upload" /\ Wants("upload")
            /\ from # "download" => ~Wants("download")
         \/ /\ NextPhase(from) = "done"
            /\ from # "upload" => ~Wants("upload")
            /\ from \notin Phase => ~Wants("download")
BY DEF NextPhase, Phase, P!Phase, Wants

-----------------------------------------------------------------------------
(***************************************************************************)
(* Types.                                                                  *)
(***************************************************************************)
\* Entering a part of the round keeps the types of the provider and the loop.
LEMMA EnterTypes ==
  ASSUME TypeOK, NEW p \in Phase \cup {"done"}, Enter(p),
         window' \in [Phase -> LoadWindow \cup {None}], UNCHANGED config
  PROVE  /\ pc' \in Phase \cup {"start", "idle", "done"}
         /\ P!ProviderTypeOK'
         /\ pinger' \in {"off", "starting", "probing", "sleeping"}
         /\ {sent, late, wake, elapsed}' \subseteq Nat
<1> USE DEF TypeOK, config
<1>1. pc' \in Phase \cup {"start", "idle", "done"}
  BY DEF Enter
<1>2. P!ProviderTypeOK'
  <2>1. CASE p = "done"
    BY <2>1 DEF Enter, provider, P!ProviderTypeOK
  <2>2. CASE p # "done"
    <3>1. p \in Phase /\ P!Call(p, PhaseCeiling(p, window'))
      BY <2>2 DEF Enter
    <3>2. PhaseCeiling(p, window') \in (0 .. MaxWire) \cup {None}
      BY <3>1, PhaseCeilingBounds
    <3> QED
      BY <3>1, <3>2, NoneAssumption DEF P!Call, P!ProviderTypeOK, P!Wire, Phase
  <2> QED
    BY <2>1, <2>2
<1>3. /\ pinger' \in {"off", "starting", "probing", "sleeping"}
      /\ {sent, late, wake, elapsed}' \subseteq Nat
  BY DEF Enter, FreshPingLoop
<1> QED
  BY <1>1, <1>2, <1>3

LEMMA TypeInit == Init => TypeOK
BY NoneAssumption DEF Init, TypeOK, P!ProviderInit, P!ProviderTypeOK, P!Wire

\* The provider comes back with a throughput or a failure.
LEMMA ReturnsReply ==
  ASSUME TransferEnds
  PROVE  reply' \in P!Throughput \cup {P!Failure}
<1>1. CASE P!Fail
  BY <1>1 DEF P!Fail
<1>2. ASSUME NEW bytes \in 0 .. MaxWire, NEW enough \in BOOLEAN, P!Succeed(bytes, enough)
      PROVE  reply' \in P!Throughput
  <2> DEFINE capped == bytes = ceiling
  <2>1. capped \in BOOLEAN /\ reply' = P!Measured(bytes, capped, enough)
    BY <1>2 DEF P!Succeed
  <2> HIDE DEF capped
  <2> QED
    BY <2>1 DEF P!Measured, P!Throughput, P!Wire
<1> QED
  BY <1>1, <1>2 DEF TransferEnds

\* What a phase that ends reports fits the width of the wire.
LEMMA ReportIsBounded ==
  ASSUME TypeOK, OrderInv, LoadEnded
  PROVE  /\ reply \in P!Throughput \/ reply = P!Failure
         /\ ReportedBytes \in 0 .. MaxWire
         /\ Trusted(reply) => reply \in P!Throughput
         /\ Trusted(reply) => reply.bytes \in 0 .. MaxWire /\ reply.capped \in BOOLEAN
<1>1. reply \in P!Throughput \/ reply = P!Failure
  BY DEF LoadEnded, OrderInv, TypeOK, P!ProviderTypeOK
<1>2. ~P!Failure.ok
  BY DEF P!Failure
<1>3. reply \in P!Throughput => reply.bytes \in 0 .. MaxWire /\ reply.capped \in BOOLEAN
  BY DEF P!Throughput, P!Wire
<1> QED
  BY <1>1, <1>2, <1>3, NoneAssumption DEF Trusted, ReportedBytes

\* A round reads a reply only when there is one (OrderInv).
LEMMA TypeStep == TypeOK /\ OrderInv /\ [Next]_vars => TypeOK'
<1> SUFFICES ASSUME TypeOK, OrderInv, [Next]_vars PROVE TypeOK'
  OBVIOUS
<1> USE DEF TypeOK
<1>1. CASE Start
  <2>1. {<<"ping", "no targets">>} \subseteq Reason
    BY DEF Reason
  <2>2. UNCHANGED config /\ window' \in [Phase -> LoadWindow \cup {None}]
    BY <1>1 DEF Start
  <2>3. CASE Pinged
    <3>1. P!ProviderTypeOK'
      BY <1>1, <2>3 DEF Start, provider, P!ProviderTypeOK
    <3>2. {sent, late, wake, elapsed}' \subseteq Nat
      <4>1. FreshPingLoop(TRUE)
        BY <1>1, <2>3 DEF Start
      <4>2. sent' = 0 /\ late' = 0 /\ wake' = 0 /\ elapsed' = 0
        BY <4>1 DEF FreshPingLoop
      <4> QED
        BY ONLY <4>2
    <3> QED
      BY <1>1, <2>1, <2>3, <3>1, <3>2 DEF Start, FreshPingLoop, config
  <2>4. CASE ~Pinged
    <3>1. Enter(NextPhase("start"))
      BY <1>1, <2>4 DEF Start
    <3>2. NextPhase("start") \in Phase \cup {"done"}
      BY DEF NextPhase, Phase, P!Phase
    <3> QED
      BY <1>1, <2>1, <2>2, <3>1, <3>2, EnterTypes DEF Start, config
  <2> QED
    BY <2>3, <2>4
<1>2. CASE EndIdle
  <2>1. NextPhase("idle") \in Phase \cup {"done"}
    BY DEF NextPhase, Phase, P!Phase
  <2> QED
    BY <1>2, <2>1, EnterTypes DEF EndIdle, config, results
<1>3. ASSUME NEW n \in 1 .. MaxWire, Transfer(n) PROVE TypeOK'
  <2>1. moved' \in 0 .. MaxWire
    BY <1>3, NoneAssumption DEF Transfer, P!Move, P!ProviderTypeOK, P!Wire
  <2> QED
    BY <1>3, <2>1 DEF Transfer, P!Move, P!ProviderTypeOK, P!Wire,
                      config, pingLoop, results
<1>4. CASE TransferEnds
  <2>1. UNCHANGED <<config, pc, pingLoop, elapsed, results, ceiling, moved>> /\ call' = None
    BY <1>4 DEF TransferEnds, P!Succeed, P!Fail
  <2> QED
    BY <2>1, <1>4, ReturnsReply DEF P!ProviderTypeOK, config, pingLoop, results
<1>5. ASSUME NEW p \in Phase, EndPhase(p) PROVE TypeOK'
  <2>1. NextPhase(p) \in Phase \cup {"done"}
    BY DEF NextPhase, Phase, P!Phase
  <2>2. /\ ReportedBytes \in 0 .. MaxWire
        /\ Trusted(reply) => reply.bytes \in 0 .. MaxWire /\ reply.capped \in BOOLEAN
    BY <1>5, ReportIsBounded DEF EndPhase
  <2>5. window' \in [Phase -> LoadWindow \cup {None}]
    BY <1>5, <2>2 DEF EndPhase, LoadWindow
  <2>6. reading' \in [Phase -> Reading \cup {None}]
    BY <1>5, <2>2 DEF EndPhase, Reading
  <2>7. wire' \in [Phase -> 0 .. MaxWire] /\ under_load' \in [Phase -> BOOLEAN]
    BY <1>5 DEF EndPhase, P!ProviderTypeOK, P!Wire
  <2>8. reasons' \subseteq Reason
    <3>1. PhaseReason(p) \subseteq Phase \X {"partial", "provider"}
      BY DEF PhaseReason
    <3> QED
      BY <1>5, <3>1 DEF EndPhase, Reason
  <2> QED
    BY <1>5, <2>1, <2>5, <2>6, <2>7, <2>8, EnterTypes DEF EndPhase, config
<1>6. CASE PingLoop
  <2>1. UNCHANGED <<config, pc, provider, elapsed, results>>
    BY <1>6 DEF PingLoop, FirstProbe, ProbeReturns, SleepOver, Cancelled, Probe
  <2>2. /\ pinger' \in {"off", "starting", "probing", "sleeping"}
        /\ {sent, late, wake}' \subseteq Nat
    BY <1>6 DEF PingLoop, FirstProbe, ProbeReturns, SleepOver, Cancelled, Probe
  <2> QED
    BY <2>1, <2>2 DEF P!ProviderTypeOK, config, provider, results
<1>7. CASE Tick
  BY <1>7 DEF Tick, P!ProviderTypeOK, config, provider, pingLoop, results
<1>8. CASE UNCHANGED vars
  BY <1>8 DEF vars, P!ProviderTypeOK, config, provider, pingLoop, results
<1> QED
  BY <1>1, <1>2, <1>3, <1>4, <1>5, <1>6, <1>7, <1>8 DEF Next

-----------------------------------------------------------------------------
(***************************************************************************)
(* The order of the phases.                                                *)
(***************************************************************************)
LEMMA OrderInit == Init => OrderInv
BY DEF Init, OrderInv, P!ProviderInit, Phase, P!Phase

\* What a part of the round that is entered finds: the windows of the phases
\* before it, and nothing of those after.
Opens(p, windows) ==
  /\ p \in Phase => Wants(p) /\ windows[p] = None
  /\ p = "download" => \A q \in Phase : windows[q] = None
  /\ p = "upload" => (windows["download"] # None <=> metrics.download)
  /\ p = "done" => \A q \in Phase : windows[q] # None <=> Wants(q)

LEMMA EnterOrder ==
  ASSUME NEW p \in Phase \cup {"done"}, Enter(p), call = None,
         Opens(p, window'), UNCHANGED metrics
  PROVE  OrderInv'
<1>1. CASE p = "done"
  BY <1>1 DEF Enter, provider, Opens, OrderInv, Wants, Phase, P!Phase
<1>2. CASE p \in Phase
  BY <1>2, NoneAssumption DEF Enter, P!Call, Opens, OrderInv, Wants, Phase, P!Phase
<1> QED
  BY <1>1, <1>2

\* Between the phases no call is open.
LEMMA OutsideNoCall == TypeOK /\ OrderInv /\ pc \in {"start", "idle"} => call = None
BY DEF TypeOK, P!ProviderTypeOK, OrderInv, P!Phase

LEMMA OrderStep == TypeOK /\ OrderInv /\ [Next]_vars => OrderInv'
<1> SUFFICES ASSUME TypeOK, OrderInv, [Next]_vars PROVE OrderInv'
  OBVIOUS
<1>1. CASE Start
  <2>1. call = None /\ UNCHANGED <<metrics, window>> /\ \A q \in Phase : window[q] = None
    BY <1>1, OutsideNoCall DEF Start, OrderInv, config
  <2>2. CASE Pinged
    BY <1>1, <2>1, <2>2 DEF Start, OrderInv, Wants, provider, Phase, P!Phase
  <2>3. CASE ~Pinged
    <3> DEFINE p == NextPhase("start")
    <3>1. Enter(p)
      BY <1>1, <2>3 DEF Start
    <3>2. p \in Phase \cup {"done"} /\ Opens(p, window')
      BY <2>1, NextPhaseIs DEF Opens, Wants, Phase, P!Phase
    <3> QED
      BY <2>1, <3>1, <3>2, EnterOrder
  <2> QED
    BY <2>2, <2>3
<1>2. CASE EndIdle
  <2> DEFINE p == NextPhase("idle")
  <2>1. call = None /\ UNCHANGED <<metrics, window>> /\ \A q \in Phase : window[q] = None
    BY <1>2, OutsideNoCall DEF EndIdle, OrderInv, config, results
  <2>2. p \in Phase \cup {"done"} /\ Opens(p, window')
    BY <2>1, NextPhaseIs DEF Opens, Wants, Phase, P!Phase
  <2> QED
    BY <1>2, <2>1, <2>2, EnterOrder DEF EndIdle
<1>3. ASSUME NEW n \in 1 .. MaxWire, Transfer(n) PROVE OrderInv'
  BY <1>3 DEF Transfer, P!Move, OrderInv, Wants, config, results
<1>4. CASE TransferEnds
  <2>1. reply' # None
    BY <1>4, ReturnsReply, NoneAssumption
  <2> QED
    BY <1>4, <2>1 DEF TransferEnds, P!Succeed, P!Fail, OrderInv, Wants, config, results
<1>5. ASSUME NEW p \in Phase, EndPhase(p) PROVE OrderInv'
  <2> DEFINE next == NextPhase(p)
  <2>1. call = None /\ pc = p /\ Enter(next) /\ UNCHANGED metrics
    BY <1>5 DEF EndPhase, LoadEnded, config
  <2>2. window'[p] # None /\ \A q \in Phase \ {p} : window'[q] = window[q]
    <3>1. [bytes |-> ReportedBytes, ping_samples |-> sent] # None
      <4>1. LoadEnded
        BY <1>5 DEF EndPhase
      <4>2. sent \in Nat /\ ReportedBytes \in 0 .. MaxWire
        BY <4>1, ReportIsBounded DEF TypeOK
      <4> QED
        BY <4>2, NoneAssumption DEF LoadWindow
    <3> QED
      BY <1>5, <3>1 DEF EndPhase, TypeOK
  <2>3. next \in Phase \cup {"done"} /\ Opens(next, window')
    BY <2>1, <2>2, NextPhaseIs DEF Opens, OrderInv, Wants, Phase, P!Phase
  <2> QED
    BY <2>1, <2>3, EnterOrder
<1>6. CASE PingLoop
  BY <1>6 DEF PingLoop, FirstProbe, ProbeReturns, SleepOver, Cancelled, Probe,
              OrderInv, Wants, config, provider, results
<1>7. CASE Tick
  BY <1>7 DEF Tick, OrderInv, Wants, config, provider, results
<1>8. CASE UNCHANGED vars
  BY <1>8 DEF vars, OrderInv, Wants, config, provider, results
<1> QED
  BY <1>1, <1>2, <1>3, <1>4, <1>5, <1>6, <1>7, <1>8 DEF Next

-----------------------------------------------------------------------------
(***************************************************************************)
(* What the provider does inside a phase, and what the phase leaves.       *)
(***************************************************************************)
LEMMA FailureIsNoThroughput == P!Failure \notin P!Throughput
<1>1. \A r \in P!Throughput : r.ok = TRUE
  BY DEF P!Throughput
<1> QED
  BY <1>1 DEF P!Failure

LEMMA TransferInit == Init => TransferInv
BY DEF Init, TransferInv, Phase, P!Phase

\* A phase that is entered has moved nothing, of the ceiling it is handed.
LEMMA EnterTransfer ==
  ASSUME TypeOK, NEW p \in Phase \cup {"done"}, Enter(p), UNCHANGED config,
         window' \in [Phase -> LoadWindow \cup {None}]
  PROVE  TransferInv'
<1>1. CASE p = "done"
  BY <1>1 DEF Enter, TransferInv, Phase, P!Phase
<1>2. CASE p \in Phase
  <2>1. /\ pc' = p /\ ceiling' = PhaseCeiling(p, window') /\ moved' = 0 /\ reply' = None
    BY <1>2 DEF Enter, P!Call, Phase, P!Phase
  <2>2. PhaseCeiling(p, window') \in (0 .. MaxWire) \cup {None}
    BY <1>2, PhaseCeilingBounds DEF TypeOK
  <2>3. PhaseCeiling(p, window)' = PhaseCeiling(p, window')
    BY DEF PhaseCeiling, config
  <2>4. reply' \notin P!Throughput
    BY <2>1, NoneAssumption
  <2> QED
    BY <2>1, <2>2, <2>3, <2>4, NoneAssumption DEF TransferInv
<1> QED
  BY <1>1, <1>2

LEMMA TransferStep == TypeOK /\ OrderInv /\ TransferInv /\ [Next]_vars => TransferInv'
<1> SUFFICES ASSUME TypeOK, OrderInv, TransferInv, [Next]_vars PROVE TransferInv'
  OBVIOUS
<1> USE DEF TransferInv
<1>1. CASE Start
  <2>1. CASE Pinged
    BY <1>1, <2>1 DEF Start, Phase, P!Phase
  <2>2. CASE ~Pinged
    <3>1. Enter(NextPhase("start")) /\ UNCHANGED <<config, window>>
      BY <1>1, <2>2 DEF Start
    <3>2. NextPhase("start") \in Phase \cup {"done"}
      BY DEF NextPhase, Phase, P!Phase
    <3> QED
      BY <3>1, <3>2, EnterTransfer DEF TypeOK
  <2> QED
    BY <2>1, <2>2
<1>2. CASE EndIdle
  <2>1. Enter(NextPhase("idle")) /\ UNCHANGED <<config, window>>
    BY <1>2 DEF EndIdle, results
  <2>2. NextPhase("idle") \in Phase \cup {"done"}
    BY DEF NextPhase, Phase, P!Phase
  <2> QED
    BY <2>1, <2>2, EnterTransfer DEF TypeOK
<1>3. ASSUME NEW n \in 1 .. MaxWire, Transfer(n) PROVE TransferInv'
  <2>1. /\ moved' = moved + n /\ moved \in Nat
        /\ moved' <= IF ceiling = None THEN MaxWire ELSE ceiling
        /\ UNCHANGED <<ceiling, reply, pc, config, window>>
    BY <1>3, NoneAssumption DEF Transfer, P!Move, TypeOK, P!ProviderTypeOK, P!Wire, results
  <2>2. PhaseCeiling(pc, window)' = PhaseCeiling(pc, window)
    BY <2>1 DEF PhaseCeiling, config
  <2>3. reply \in P!Throughput => reply.bytes \in Nat
    BY NoneAssumption DEF P!Throughput, P!Wire
  <2> QED
    BY <2>1, <2>2, <2>3
<1>4. CASE TransferEnds
  <2>1. UNCHANGED <<ceiling, moved, pc, config, window>>
    BY <1>4 DEF TransferEnds, P!Succeed, P!Fail, results
  <2>2. PhaseCeiling(pc, window)' = PhaseCeiling(pc, window)
    BY <2>1 DEF PhaseCeiling, config
  <2>3. reply' \in P!Throughput =>
          reply'.bytes <= moved /\ (reply'.capped <=> reply'.bytes = ceiling)
    <3>1. CASE P!Fail
      BY <3>1, FailureIsNoThroughput DEF P!Fail
    <3>2. ASSUME NEW bytes \in 0 .. MaxWire, NEW enough \in BOOLEAN, P!Succeed(bytes, enough)
          PROVE  reply'.bytes <= moved /\ (reply'.capped <=> reply'.bytes = ceiling)
      BY <3>2 DEF P!Succeed, P!Measured
    <3> QED
      BY <1>4, <3>1, <3>2 DEF TransferEnds
  <2> QED
    BY <2>1, <2>2, <2>3
<1>5. ASSUME NEW p \in Phase, EndPhase(p) PROVE TransferInv'
  <2>1. NextPhase(p) \in Phase \cup {"done"}
    BY DEF NextPhase, Phase, P!Phase
  <2>2. window' \in [Phase -> LoadWindow \cup {None}]
    BY TypeStep, <1>5 DEF Next, TypeOK
  <2> QED
    BY <1>5, <2>1, <2>2, EnterTransfer DEF EndPhase
<1>6. CASE PingLoop \/ Tick \/ UNCHANGED vars
  <2>1. UNCHANGED <<config, pc, provider, window>>
    BY <1>6 DEF PingLoop, FirstProbe, ProbeReturns, SleepOver, Cancelled, Probe, Tick,
                vars, results
  <2>2. PhaseCeiling(pc, window)' = PhaseCeiling(pc, window)
    BY <2>1 DEF PhaseCeiling, config
  <2> QED
    BY <2>1, <2>2 DEF provider
<1> QED
  BY <1>1, <1>2, <1>3, <1>4, <1>5, <1>6 DEF Next

LEMMA RecordInit == Init => RecordInv
BY DEF Init, RecordInv, Untouched, Gives

\* The reason of a phase that ends is given of that phase.
LEMMA EndPhaseGives ==
  ASSUME NEW p \in Phase, reasons' = reasons \cup PhaseReason(p), NEW q
  PROVE  Gives(q)' <=> Gives(q) \/ (q = p /\ ~Trusted(reply))
<1>1. CASE Trusted(reply)
  BY <1>1 DEF PhaseReason, Gives
<1>2. CASE ~Trusted(reply)
  <2>1. PICK why : PhaseReason(p) = {<<p, why>>}
    BY <1>2 DEF PhaseReason
  <2>2. <<p, why>>[1] = p
    OBVIOUS
  <2> QED
    BY <1>2, <2>1, <2>2 DEF Gives
<1> QED
  BY <1>1, <1>2

\* The phase that ends is accounted for, and the other one as before.
LEMMA EndPhaseRecords ==
  ASSUME TypeOK, OrderInv, TransferInv, RecordInv, NEW p \in Phase, EndPhase(p)
  PROVE  RecordInv'
<1>1. /\ LoadEnded /\ pc = p /\ UNCHANGED config
      /\ window' = [window EXCEPT ![p] = [bytes |-> ReportedBytes, ping_samples |-> sent]]
      /\ wire' = [wire EXCEPT ![p] = moved]
      /\ reading' = [reading EXCEPT ![p] =
           IF Trusted(reply) THEN [bytes |-> reply.bytes, capped |-> reply.capped] ELSE None]
      /\ reasons' = reasons \cup PhaseReason(p)
  BY DEF EndPhase
<1>2. /\ moved \in Nat /\ (ceiling # None => moved <= ceiling)
      /\ ceiling = PhaseCeiling(p, window)
      /\ reply \in P!Throughput =>
           reply.bytes <= moved /\ (reply.capped <=> reply.bytes = ceiling)
  BY <1>1 DEF TypeOK, P!ProviderTypeOK, P!Wire, TransferInv
<1>3. /\ reply \in P!Throughput \/ reply = P!Failure
      /\ Trusted(reply) => reply \in P!Throughput
      /\ Trusted(reply) => reply.bytes \in 0 .. MaxWire /\ reply.capped \in BOOLEAN
      /\ ReportedBytes \in 0 .. MaxWire
  BY <1>1, ReportIsBounded
<1>4. ceiling = None <=> byte_ceiling = None
  BY <1>2, PhaseCeilingBounds DEF TypeOK
<1>5. WindowBytes(window', "download") = WindowBytes(window, "download") \/ p = "download"
  BY <1>1 DEF WindowBytes, TypeOK, Phase, P!Phase
<1>6. PhaseCeiling(p, window)' = PhaseCeiling(p, window)
  <2>1. WindowBytes(window, "download")' = WindowBytes(window, "download") \/ p = "download"
    BY <1>5 DEF WindowBytes
  <2> QED
    BY <1>1, <2>1 DEF PhaseCeiling, config
<1>7. Accounted(p)'
  <2>1. ReportedBytes <= moved
    BY <1>2, <1>3, NoneAssumption DEF ReportedBytes, P!Failure
  <2>2. window'[p].bytes <= wire'[p]
    BY <1>1, <2>1 DEF TypeOK
  <2>3. byte_ceiling' # None => wire'[p] <= PhaseCeiling(p, window)'
    BY <1>1, <1>2, <1>4, <1>6 DEF TypeOK, config
  <2>4. reading'[p] # None /\ reading'[p].capped => byte_ceiling' # None
    BY <1>1, <1>2, <1>3, <1>4, NoneAssumption DEF TypeOK, config
  <2>5. reading'[p] = None <=> Gives(p)'
    <3>1. [bytes |-> reply.bytes, capped |-> reply.capped] # None \/ ~Trusted(reply)
      BY <1>3, NoneAssumption DEF Reading
    <3>2. reading'[p] = None <=> ~Trusted(reply)
      BY <1>1, <3>1 DEF TypeOK
    <3>3. window[p] = None
      BY <1>1 DEF OrderInv
    <3>4. ~Gives(p)
      BY <3>3 DEF RecordInv, Untouched
    <3> QED
      BY <1>1, <3>2, <3>4, EndPhaseGives
  <2> QED
    BY <2>2, <2>3, <2>4, <2>5 DEF Accounted
<1>8. window'[p] # None
  BY <1>1, <1>3, NoneAssumption DEF TypeOK, LoadWindow
<1>9. ASSUME NEW q \in Phase \ {p}
      PROVE  IF window'[q] = None THEN Untouched(q)' ELSE Accounted(q)'
  <2>1. /\ window'[q] = window[q] /\ wire'[q] = wire[q] /\ reading'[q] = reading[q]
        /\ Gives(q)' <=> Gives(q)
    BY <1>1, EndPhaseGives DEF TypeOK
  <2>2. CASE window[q] = None
    BY <2>1, <2>2 DEF RecordInv, Untouched
  <2>3. CASE window[q] # None
    <3>1. q = "download"
      BY <1>1, <2>3 DEF OrderInv, Phase, P!Phase
    <3>2. PhaseCeiling(q, window)' = PhaseCeiling(q, window)
      BY <1>1, <3>1 DEF PhaseCeiling, config
    <3> QED
      BY <1>1, <2>1, <2>3, <3>2 DEF RecordInv, Accounted, config
  <2> QED
    BY <2>2, <2>3
<1> QED
  <2>1. Gives("ping")' <=> Gives("ping")
    BY <1>1, EndPhaseGives DEF Phase, P!Phase
  <2> QED
    BY <1>1, <1>7, <1>8, <1>9, <2>1 DEF RecordInv, config

LEMMA RecordStep ==
  TypeOK /\ OrderInv /\ TransferInv /\ RecordInv /\ [Next]_vars => RecordInv'
<1> SUFFICES ASSUME TypeOK, OrderInv, TransferInv, RecordInv, [Next]_vars PROVE RecordInv'
  OBVIOUS
<1>1. CASE Start
  <2>1. UNCHANGED <<reading, window, wire>> /\ \A q \in Phase : window[q] = None
    BY <1>1 DEF Start, OrderInv
  <2>2. \A q : Gives(q)' => q = "ping" /\ metrics.ping
    <3>1. /\ reasons' \subseteq {<<"ping", "no targets">>}
          /\ reasons' # {} => metrics.ping
      BY <1>1 DEF Start
    <3>2. <<"ping", "no targets">>[1] = "ping"
      OBVIOUS
    <3> QED
      BY <3>1, <3>2 DEF Gives
  <2>3. metrics' = metrics
    BY <1>1 DEF Start, config
  <2> QED
    BY <2>1, <2>2, <2>3 DEF RecordInv, Untouched, Phase, P!Phase
<1>2. ASSUME NEW p \in Phase, EndPhase(p) PROVE RecordInv'
  BY <1>2, EndPhaseRecords
<1>3. CASE \/ EndIdle \/ (\E n \in 1 .. MaxWire : Transfer(n)) \/ TransferEnds
           \/ PingLoop \/ Tick \/ UNCHANGED vars
  <2>1. UNCHANGED <<config, results>>
    BY <1>3 DEF EndIdle, Transfer, TransferEnds, PingLoop, FirstProbe, ProbeReturns,
                SleepOver, Cancelled, Probe, Tick, vars
  <2> QED
    BY <2>1 DEF RecordInv, Untouched, Accounted, Gives, PhaseCeiling, WindowBytes, config,
                results
<1> QED
  BY <1>1, <1>2, <1>3 DEF Next

LEMMA RoundInvariant == Spec => []RoundInv
<1>1. Init => RoundInv
  BY TypeInit, OrderInit, TransferInit, RecordInit DEF RoundInv
<1>2. RoundInv /\ [Next]_vars => RoundInv'
  BY TypeStep, OrderStep, TransferStep, RecordStep DEF RoundInv
<1> QED
  BY <1>1, <1>2, PTL DEF Spec

\* Every variable of a round keeps its type: the ceiling handed to the upload is
\* never negative, and what a phase moves stays within the wire (run_round).
THEOREM RoundTypeCorrect == Spec => []TypeOK
<1>1. RoundInv => TypeOK
  BY DEF RoundInv
<1> QED
  BY <1>1, RoundInvariant, PTL

-----------------------------------------------------------------------------
(***************************************************************************)
(* The result.                                                             *)
(***************************************************************************)

\* What each phase reported and moved, in numbers.
LEMMA PhaseNumbers ==
  ASSUME RoundInv, NEW p \in Phase
  PROVE  /\ WindowBytes(window, p) \in 0 .. MaxWire /\ wire[p] \in 0 .. MaxWire
         /\ WindowBytes(window, p) <= wire[p]
         /\ byte_ceiling # None =>
              byte_ceiling \in Nat /\ (window[p] # None => wire[p] <= PhaseCeiling(p, window))
<1>1. WindowBytes(window, p) \in 0 .. MaxWire /\ wire[p] \in 0 .. MaxWire
  BY PhaseCeilingBounds DEF RoundInv, TypeOK
<1>2. WindowBytes(window, p) <= wire[p]
  BY <1>1 DEF RoundInv, RecordInv, WindowBytes, Accounted, Untouched
<1>3. byte_ceiling # None => byte_ceiling \in Nat
  BY CeilingAssumption DEF RoundInv, TypeOK
<1> QED
  BY <1>1, <1>2, <1>3 DEF RoundInv, RecordInv, Accounted

\* The download is inside the ceiling, and the upload inside what the download
\* reported to have left of it.
LEMMA PhasesShareTheCeiling ==
  ASSUME RoundInv, byte_ceiling # None
  PROVE  /\ wire["download"] <= byte_ceiling
         /\ wire["upload"] <= byte_ceiling - WindowBytes(window, "download")
<1>1. "download" \in Phase /\ "upload" \in Phase
  BY DEF Phase, P!Phase
<1>2. wire["download"] <= byte_ceiling
  BY <1>1, PhaseNumbers DEF RoundInv, RecordInv, Untouched, PhaseCeiling
<1>3. WindowBytes(window, "download") <= byte_ceiling
  BY <1>1, <1>2, PhaseNumbers
<1>4. window["upload"] = None => wire["upload"] = 0
  BY <1>1 DEF RoundInv, RecordInv, Untouched
<1>5. PhaseCeiling("upload", window) = byte_ceiling - WindowBytes(window, "download")
  BY <1>3 DEF PhaseCeiling
<1> QED
  BY <1>1, <1>2, <1>3, <1>4, <1>5, PhaseNumbers

\* Bytes a round moves beyond its ceiling are bytes its download lost to a broken
\* request (round.rs:269-276 computes the upload's allowance from the report).
THEOREM OverrunIsLost == Spec => []OverrunIsLostDownload
<1>1. RoundInv => OverrunIsLostDownload
  <2> SUFFICES ASSUME RoundInv, byte_ceiling # None
               PROVE  Moved - byte_ceiling <= wire["download"] - WindowBytes(window, "download")
    BY DEF OverrunIsLostDownload
  <2>1. "download" \in Phase /\ "upload" \in Phase
    BY DEF Phase, P!Phase
  <2>2. /\ wire["download"] \in Int /\ wire["upload"] \in Int
        /\ WindowBytes(window, "download") \in Int /\ byte_ceiling \in Int
    BY <2>1, PhaseNumbers
  <2> QED
    BY <2>2, PhasesShareTheCeiling DEF Moved
<1> QED
  BY <1>1, RoundInvariant, PTL

\* A round that is over is one of the outcomes of RoundOutcome: whatever the
\* provider, its failures and its lost bytes, what is charged stays inside the
\* ceiling across both phases, and the reasons name exactly the readings that were
\* wanted and are missing (run_round).
THEOREM RoundImplementsOutcome == Spec => []ImplementsOutcome
<1>1. RoundInv => ImplementsOutcome
  <2> SUFFICES ASSUME RoundInv, pc = "done"
               PROVE  O!Allowed(Result, metrics, byte_ceiling)
    BY DEF ImplementsOutcome
  <2> DEFINE d == WindowBytes(window, "download")
             u == WindowBytes(window, "upload")
             wd == wire["download"]
             wu == wire["upload"]
             capped == \E p \in Phase : reading[p] # None /\ reading[p].capped
  <2>1. Phase = {"download", "upload"}
    BY DEF Phase, P!Phase
  <2>2. /\ d \in 0 .. MaxWire /\ wd \in 0 .. MaxWire /\ d <= wd
        /\ u \in 0 .. MaxWire /\ wu \in 0 .. MaxWire /\ u <= wu
        /\ byte_ceiling # None => byte_ceiling \in Nat
    BY <2>1, PhaseNumbers
  <2>3. byte_ceiling # None => wd <= byte_ceiling /\ wu <= byte_ceiling - d
    BY PhasesShareTheCeiling
  <2>4. /\ window["download"] # None <=> metrics.download
        /\ window["upload"] # None <=> metrics.upload
    BY <2>1 DEF RoundInv, OrderInv, Wants
  <2>5. /\ ~metrics.download => wd = 0 /\ Untouched("download")
        /\ ~metrics.upload => wu = 0 /\ Untouched("upload")
    BY <2>1, <2>4 DEF RoundInv, RecordInv, Untouched
  <2>6. capped => byte_ceiling # None
    BY <2>1, <2>4, <2>5 DEF RoundInv, RecordInv, Accounted, Untouched
  <2>7. \A p \in Phase : Gives(p) <=> p \in O!Wanted(metrics) /\ reading[p] = None
    BY <2>1, <2>4, <2>5 DEF RoundInv, RecordInv, Accounted, Untouched, O!Wanted, O!Phases
  <2>8. /\ Result.charged = d + u /\ Result.wire = wd + wu
        /\ Result.read = {p \in Phase : reading[p] # None}
        /\ Result.capped <=> capped
        /\ \A q : q \in Result.skipped <=> Gives(q)
    BY DEF Result, Charged, Moved, Gives
  <2>9. /\ capped => Result.read # {}
        /\ O!Wanted(metrics) = {} <=> ~metrics.download /\ ~metrics.upload
        /\ O!Wanted(metrics) = {} => ~capped
        /\ Result.read \subseteq O!Wanted(metrics)
    BY <2>1, <2>5, <2>8 DEF Untouched, O!Wanted, O!Phases
  <2>10. /\ d + u <= wd + wu
         /\ ~metrics.download /\ ~metrics.upload => wd + wu = 0
    <3> HIDE DEF d, u, wd, wu
    <3> QED
      BY <2>2, <2>5
  <2>11. byte_ceiling # None =>
           /\ d + u <= byte_ceiling
           /\ wd + wu <= 2 * byte_ceiling
           /\ ~(metrics.download /\ metrics.upload) => wd + wu <= byte_ceiling
    <3> HIDE DEF d, u, wd, wu
    <3> QED
      BY <2>2, <2>3, <2>5
  <2>12. /\ Result.skipped \cap O!Phases = O!Wanted(metrics) \ Result.read
         /\ "ping" \in Result.skipped => metrics.ping
    BY <2>1, <2>7, <2>8 DEF RoundInv, RecordInv, O!Wanted, O!Phases
  <2> HIDE DEF d, u, wd, wu, capped
  <2> QED
    BY <2>6, <2>8, <2>9, <2>10, <2>11, <2>12 DEF O!Allowed
<1> QED
  BY <1>1, RoundInvariant, PTL

-----------------------------------------------------------------------------
(***************************************************************************)
(* The samples taken under load.                                           *)
(***************************************************************************)
LEMMA LateStep == TypeOK /\ OrderInv /\ LateInv /\ [Next]_vars => LateInv'
<1> SUFFICES ASSUME TypeOK, OrderInv, LateInv, [Next]_vars PROVE LateInv'
  OBVIOUS
<1> USE DEF LateInv
<1>1. CASE \/ Start \/ EndIdle \/ \E p \in Phase : EndPhase(p)
  <2>1. (\E p \in Phase \cup {"done"} : Enter(p)) \/ FreshPingLoop(TRUE)
    BY <1>1 DEF Start, EndIdle, EndPhase, NextPhase, Phase, P!Phase
  <2>2. late' = 0
    BY <2>1 DEF Enter, FreshPingLoop
  <2> QED
    BY <2>2
<1>2. CASE (\E n \in 1 .. MaxWire : Transfer(n)) \/ TransferEnds
  BY <1>2 DEF Transfer, P!Move, TransferEnds, P!Succeed, P!Fail, LoadEnded, pingLoop
<1>3. CASE FirstProbe \/ SleepOver
  BY <1>3 DEF FirstProbe, SleepOver, Probe, LoadEnded, provider, TypeOK
<1>4. CASE ProbeReturns \/ Cancelled
  BY <1>4 DEF ProbeReturns, Cancelled, LoadEnded, provider
<1>5. CASE Tick \/ UNCHANGED vars
  BY <1>5 DEF Tick, vars, LoadEnded, provider, pingLoop
<1> QED
  BY <1>1, <1>2, <1>3, <1>4, <1>5 DEF Next, PingLoop

\* Of the samples of a loaded phase at most one begins after the load is over,
\* whichever side of join! and whichever branch of select! runs first
\* (run_ping_loop).
THEOREM OneLateSample == Spec => []AtMostOneLateSample
<1>1. Init => LateInv
  BY DEF Init, LateInv
<1>2. RoundInv /\ LateInv /\ [Next]_vars => LateInv'
  BY LateStep DEF RoundInv
<1>3. LateInv => AtMostOneLateSample
  BY DEF LateInv, AtMostOneLateSample
<1> QED
  BY <1>1, <1>2, <1>3, RoundInvariant, PTL DEF Spec

-----------------------------------------------------------------------------
(* Notify: every cooldown, every set of limits and readings, any number of  *)
(* rounds and edits.                                                        *)

\* What the app remembers of a threshold is what the user heard of it: quiet is
\* a history of the toasts, last_fired the record evaluate goes by.
HeardIsRemembered == last_fired = quiet

NotifyInv == NotifyTypeOK /\ HeardIsRemembered

LEMMA NotifyInvInit == InitNotify => NotifyInv
<1> SUFFICES ASSUME InitNotify PROVE NotifyInv
  OBVIOUS
<1>1. [kind \in ThresholdKind |-> Cooldown] \in [ThresholdKind -> Ages]
  BY NotifyConstants DEF Ages
<1>2. NotifyTypeOK
  BY <1>1 DEF InitNotify, NotifyTypeOK
<1> QED
  BY <1>2 DEF InitNotify, NotifyInv, HeardIsRemembered

\* A step keeps the types and what is remembered.
LEMMA NotifyInvStep == NotifyInv /\ [NextNotify]_notifyVars => NotifyInv'
<1> SUFFICES ASSUME NotifyInv, [NextNotify]_notifyVars PROVE NotifyInv'
  OBVIOUS
<1> USE DEF NotifyInv, HeardIsRemembered, NotifyTypeOK
<1>1. ASSUME NEW result \in RoundResult, notify_thresholds(result) PROVE NotifyInv'
  <2>1. due(result) \subseteq ThresholdKind
    BY DEF due, candidates
  <2>2. 0 \in Ages
    BY NotifyConstants DEF Ages
  <2>3. last_fired' \in [ThresholdKind -> Ages] /\ quiet' \in [ThresholdKind -> Ages]
    BY <1>1, <2>2 DEF notify_thresholds, mark_fired
  <2>4. last_fired' = quiet'
    BY <1>1 DEF notify_thresholds, mark_fired
  <2> QED
    BY <1>1, <2>1, <2>3, <2>4 DEF notify_thresholds
<1>2. CASE SwitchMaster
  BY <1>2 DEF SwitchMaster
<1>3. ASSUME NEW kind \in ThresholdKind, SetThreshold(kind) PROVE NotifyInv'
  <2>1. enabled' \in [ThresholdKind -> BOOLEAN] /\ limit' \in [ThresholdKind -> Limits]
    BY <1>3 DEF SetThreshold
  <2> QED
    BY <1>3, <2>1 DEF SetThreshold
<1>4. CASE TimePasses
  <2>1. \A a \in Ages : Later(a) \in Ages
    BY NotifyConstants DEF Later, Ages
  <2>2. last_fired' \in [ThresholdKind -> Ages] /\ quiet' \in [ThresholdKind -> Ages]
    BY <1>4, <2>1 DEF TimePasses
  <2>3. last_fired' = quiet'
    BY <1>4 DEF TimePasses
  <2> QED
    BY <1>4, <2>2, <2>3 DEF TimePasses
<1>5. CASE UNCHANGED notifyVars
  BY <1>5 DEF notifyVars
<1> QED
  BY <1>1, <1>2, <1>3, <1>4, <1>5 DEF NextNotify

\* An age is below the cooldown or is the cooldown.
LEMMA QuietLongEnough == ASSUME NEW a \in Ages PROVE ~(a < Cooldown) <=> a = Cooldown
BY NotifyConstants DEF Ages

\* NotifiesOncePerCooldown, for a step: what evaluate lets through is exactly
\* what crosses a limit that is on and was not heard for the whole cooldown.
LEMMA NotifiesStep ==
  ASSUME NotifyInv, [NextNotify]_notifyVars, ~UNCHANGED notifyVars, finished' # Missing
  PROVE  \A kind \in ThresholdKind :
           kind \in shown' <=>
             /\ notify_master /\ enabled[kind] /\ Crosses(finished', kind)
             /\ quiet[kind] = Cooldown
<1>1. PICK result \in RoundResult : notify_thresholds(result)
  BY DEF NextNotify, SwitchMaster, SetThreshold, TimePasses
<1>2. finished' = result /\ shown' = due(result)
  BY <1>1 DEF notify_thresholds
<1> SUFFICES ASSUME NEW kind \in ThresholdKind
             PROVE  kind \in due(result) <=>
                      /\ notify_master /\ enabled[kind] /\ Crosses(result, kind)
                      /\ quiet[kind] = Cooldown
  BY <1>2
<1>3. last_fired[kind] = quiet[kind] /\ quiet[kind] \in Ages
  BY DEF NotifyInv, NotifyTypeOK, HeardIsRemembered
<1>4. ~is_on_cooldown(kind) <=> quiet[kind] = Cooldown
  BY <1>3, QuietLongEnough DEF is_on_cooldown
<1>5. kind \in candidates(result) <=> enabled[kind] /\ Crosses(result, kind)
  BY DEF candidates
<1> QED
  BY <1>4, <1>5 DEF due

\* Every variable of the notifications keeps its type, whatever the user
\* switches and the rounds measure.
THEOREM NotifyTypeCorrect == SpecNotify => []NotifyTypeOK
<1>1. InitNotify => NotifyInv
  BY NotifyInvInit
<1>2. NotifyInv /\ [NextNotify]_notifyVars => NotifyInv'
  BY NotifyInvStep
<1>3. NotifyInv => NotifyTypeOK
  BY DEF NotifyInv
<1> QED
  BY <1>1, <1>2, <1>3, PTL DEF SpecNotify

\* A crossed limit is heard exactly once per cooldown (NotifyState::evaluate):
\* neither repeated early nor silenced by rounds that raised nothing.
THEOREM NotifiedOnce == SpecNotify => NotifiesOncePerCooldown
<1>1. InitNotify => NotifyInv
  BY NotifyInvInit
<1>2. NotifyInv /\ [NextNotify]_notifyVars => NotifyInv'
  BY NotifyInvStep
<1>3. NotifyInv /\ [NextNotify]_notifyVars =>
        [finished' # Missing =>
           \A kind \in ThresholdKind :
             kind \in shown' <=>
               /\ notify_master /\ enabled[kind] /\ Crosses(finished', kind)
               /\ quiet[kind] = Cooldown]_notifyVars
  BY NotifiesStep
<1> QED
  BY <1>1, <1>2, <1>3, PTL DEF SpecNotify, NotifiesOncePerCooldown

-----------------------------------------------------------------------------
(* UpdateCheck: any number of requests on their way, any answers and any    *)
(* order of consents and answers.                                           *)

\* Without consent nothing is offered and nothing is waited for.
Consented == ~check_updates => available_update = NoRelease /\ ~update_checking

\* What is offered may be offered.
Offered == available_update # NoRelease => is_newer(Current, available_update)

ReleaseInv == available_update \in Tags \cup {NoRelease} /\ Offered

\* What check passes on is no release, or a newer one GitHub answered with.
LEMMA ReleasedIsNewer ==
  ASSUME NEW tag \in Tags \cup {NoRelease}
  PROVE  /\ Released(tag) \in Tags \cup {NoRelease}
         /\ Released(tag) # NoRelease => is_newer(Current, Released(tag))
BY DEF Released

\* Consent and offer, through a step of the app.
LEMMA ConsentedStep ==
  ASSUME Consented, [NextUpdate]_updateVars
  PROVE  Consented'
<1> USE DEF Consented
<1>1. ASSUME NEW value \in BOOLEAN, CheckUpdates(value) PROVE Consented'
  BY <1>1 DEF CheckUpdates
<1>2. CASE AboutToggled
  BY <1>2 DEF AboutToggled, request_update_check, wants_update_check
<1>3. CASE CheckUpdatesNow
  BY <1>3 DEF CheckUpdatesNow, request_update_check, wants_update_check
<1>4. CASE UpdateChecked
  <2>1. PICK tag \in Tags \cup {NoRelease} :
          finish_update_check(IF Released(tag) = NoRelease THEN "latest" ELSE "available",
                              Released(tag))
    BY <1>4 DEF UpdateChecked
  <2> QED
    BY <2>1 DEF finish_update_check, wants_update_check
<1>5. CASE UpdateCheckFailed
  BY <1>5 DEF UpdateCheckFailed, finish_update_check, wants_update_check
<1>6. CASE UNCHANGED updateVars
  BY <1>6 DEF updateVars
<1> QED
  BY <1>1, <1>2, <1>3, <1>4, <1>5, <1>6 DEF NextUpdate, Answer

LEMMA ReleaseStep ==
  ASSUME ReleaseInv, [NextUpdate]_updateVars
  PROVE  ReleaseInv'
<1> USE DEF ReleaseInv, Offered
<1>1. ASSUME NEW value \in BOOLEAN, CheckUpdates(value) PROVE ReleaseInv'
  BY <1>1 DEF CheckUpdates
<1>2. CASE AboutToggled
  BY <1>2 DEF AboutToggled
<1>3. CASE CheckUpdatesNow
  BY <1>3 DEF CheckUpdatesNow
<1>4. CASE UpdateChecked
  <2>1. PICK tag \in Tags \cup {NoRelease} :
          finish_update_check(IF Released(tag) = NoRelease THEN "latest" ELSE "available",
                              Released(tag))
    BY <1>4 DEF UpdateChecked
  <2> QED
    BY <2>1, ReleasedIsNewer DEF finish_update_check
<1>5. CASE UpdateCheckFailed
  BY <1>5 DEF UpdateCheckFailed, finish_update_check
<1>6. CASE UNCHANGED updateVars
  BY <1>6 DEF updateVars
<1> QED
  BY <1>1, <1>2, <1>3, <1>4, <1>5, <1>6 DEF NextUpdate, Answer

\* The order in which versions are compared is that of their numbers, as long
\* as each part has two digits.
LEMMA ExceedsIsGreater ==
  ASSUME NEW a \in [1..3 -> 0..99], NEW b \in [1..3 -> 0..99], Exceeds(a, b)
  PROVE  Number(a) > Number(b)
<1>1. /\ a[1] \in 0..99 /\ a[2] \in 0..99 /\ a[3] \in 0..99
      /\ b[1] \in 0..99 /\ b[2] \in 0..99 /\ b[3] \in 0..99
  OBVIOUS
<1>2. PICK i \in 1..3 : a[i] > b[i] /\ \A j \in 1..(i - 1) : a[j] = b[j]
  BY DEF Exceeds
<1>3. PICK x1 \in 0..99, x2 \in 0..99, x3 \in 0..99 : a[1] = x1 /\ a[2] = x2 /\ a[3] = x3
  BY <1>1
<1>4. PICK y1 \in 0..99, y2 \in 0..99, y3 \in 0..99 : b[1] = y1 /\ b[2] = y2 /\ b[3] = y3
  BY <1>1
<1>5. x1 > y1 \/ (x1 = y1 /\ x2 > y2) \/ (x1 = y1 /\ x2 = y2 /\ x3 > y3)
  BY <1>2, <1>3, <1>4
<1>6. x1 * 10000 + x2 * 100 + x3 > y1 * 10000 + y2 * 100 + y3
  BY <1>5
<1>7. Number(a) = x1 * 10000 + x2 * 100 + x3
  BY <1>3 DEF Number
<1>8. Number(b) = y1 * 10000 + y2 * 100 + y3
  BY <1>4 DEF Number
<1> QED
  BY <1>6, <1>7, <1>8

\* However consents and answers interleave (request_update_check,
\* finish_update_check), nothing is offered or waited for without consent, and
\* only a finished version above the running one is offered.
THEOREM OffersAreConsentedAndNewer ==
  ASSUME \A tag \in Tags \cup {Current} : tag.core \in Seq(0..99)
  PROVE  SpecUpdate => []OffersAreConsented
<1>1. InitUpdate => Consented /\ ReleaseInv
  BY DEF InitUpdate, Consented, ReleaseInv, Offered, wants_update_check
<1>2. Consented /\ [NextUpdate]_updateVars => Consented'
  BY ConsentedStep
<1>3. ReleaseInv /\ [NextUpdate]_updateVars => ReleaseInv'
  BY ReleaseStep
<1>4. Consented /\ ReleaseInv => OffersAreConsented
  <2> SUFFICES ASSUME Consented, ReleaseInv, available_update # NoRelease
               PROVE  /\ Parses(available_update) /\ ~available_update.prerelease
                      /\ Number(available_update.core) > Number(Current.core)
    BY DEF OffersAreConsented, Consented
  <2>1. /\ Parses(Current) /\ Parses(available_update) /\ ~available_update.prerelease
        /\ Exceeds(available_update.core, Current.core)
    BY DEF ReleaseInv, Offered, is_newer
  <2>2. available_update.core \in Seq(0..99) /\ Current.core \in Seq(0..99)
    BY DEF ReleaseInv
  <2>3. available_update.core \in [1..3 -> 0..99] /\ Current.core \in [1..3 -> 0..99]
    BY <2>1, <2>2, LenProperties DEF Parses
  <2> QED
    BY <2>1, <2>3, ExceedsIsGreater
<1> QED
  BY <1>1, <1>2, <1>3, <1>4, PTL DEF SpecUpdate

-----------------------------------------------------------------------------
(* PingCommand: any targets, any texts of --target, any number of ticks,    *)
(* any interval and any time the resolver takes.                            *)

Doings == {"resolving", "asking", "waiting", "back", "joined"}

ProbeTypes == [doing: Doings, since: Nat, due: Nat, rtt: {Lost} \cup 0..Interval]

\* Every target is probed in a tick and none between ticks.
ProbesAreOfTheTick ==
  /\ DOMAIN probes = IF stage = "probing" THEN DOMAIN watched ELSE {}
  /\ \A i \in DOMAIN probes : probes[i] \in ProbeTypes

\* A probe that runs is not over its time, nor is that longer than the interval.
ProbesAreInTime ==
  \A i \in DOMAIN probes :
    /\ Running(probes[i]) => age <= probes[i].due /\ probes[i].due <= Interval
    /\ probes[i].doing = "waiting" => probes[i].due = Interval
    /\ probes[i].doing = "asking" => probes[i].since <= age

\* A probe is joined with one sample, and no sample is of a tick to come.
Done(t, i) == t < tick \/ stage # "probing" \/ probes[i].doing = "joined"

OneSampleEach ==
  /\ rows \cap unsaved = {}
  /\ \A row \in rows \cup unsaved :
       row.tick \in 1..tick /\ row.of \in DOMAIN watched /\ Done(row.tick, row.of)
  /\ \A row, other \in rows \cup unsaved : row.tick = other.tick /\ row.of = other.of => row = other
  /\ \A t \in 1..tick, i \in DOMAIN watched :
       Done(t, i) => \E row \in rows \cup unsaved : row.tick = t /\ row.of = i

Watching ==
  /\ IsFiniteSet(DOMAIN watched) /\ \A i \in DOMAIN watched : watched[i] \in TargetSpec

TicksTypeOK ==
  /\ seconds \in 1..(MaxSeconds + 1) /\ tick \in 0..seconds
  /\ stage \in {"between", "probing", "resting", "ended"}
  /\ stage = "between" => tick < seconds
  /\ stage = "probing" => tick >= 1
  /\ age \in Nat /\ age <= IF stage = "probing" THEN Interval + MaxStall ELSE Interval

OnThreads == {i \in DOMAIN watched : OnAThread(watched[i])}

\* A thread looks up a host for no longer than the resolver takes, and waits for
\* an echo for no longer than the interval.
ThreadsEnd ==
  \A thread \in threads :
    /\ thread \in [tick: Nat, of: OnThreads, age: Nat, since: Nat, doing: {"resolving", "echoing"}]
    /\ thread.tick <= tick
    /\ thread.doing = "resolving" => thread.age <= MaxResolve
    /\ thread.doing = "echoing" =>
         /\ thread.since <= thread.age /\ thread.since <= MaxResolve
         /\ thread.age <= thread.since + Interval

\* One that nobody waits for has held up its tick for the interval, and the rest
\* after it is one more.
ThreadsAreApart ==
  /\ \A one, other \in threads :
       /\ one.of = other.of /\ one.tick = other.tick => one = other
       /\ one.tick < other.tick => one.age >= other.age + 2 * Interval
  /\ \A thread \in threads :
       /\ thread.tick < tick /\ stage = "probing" => thread.age >= age + 2 * Interval
       /\ thread.tick < tick /\ stage # "probing" => thread.age >= 2 * Interval
       /\ thread.tick = tick /\ stage = "probing" =>
            /\ thread.age = age
            /\ probes[thread.of].doing # "waiting" => age >= Interval
       /\ thread.tick = tick /\ stage = "resting" => thread.age >= age + Interval
       /\ thread.tick = tick /\ stage \in {"between", "ended"} => thread.age >= 2 * Interval

CommandInv ==
  /\ Watching
  /\ TicksTypeOK
  /\ ProbesAreOfTheTick
  /\ ProbesAreInTime
  /\ OneSampleEach

ThreadsInv == ThreadsEnd /\ ThreadsAreApart

\* Of some positions, one is the first.
LEMMA FirstOfSome ==
  ASSUME NEW positions \in SUBSET Nat, positions # {}
  PROVE  First(positions) \in positions /\ \A j \in positions : First(positions) <= j
<1> DEFINE Less == OpToRel(<, Nat)
<1>1. \A x, y \in Nat : <<y, x>> \in Less <=> y < x
  BY DEF OpToRel
<1>2. IsWellFoundedOn(Less, Nat)
  BY NatLessThanWellFounded
<1> HIDE DEF Less
<1>3. PICK i \in positions : \A j \in positions : ~(<<j, i>> \in Less)
  BY <1>2, WFMin
<1>4. ASSUME NEW j \in positions PROVE i <= j
  <2>1. i \in Nat /\ j \in Nat
    OBVIOUS
  <2>2. ~(j < i)
    BY ONLY <1>1, <1>3, <2>1, j \in positions, Zenon
  <2> QED
    BY <2>1, <2>2
<1> QED
  BY <1>4 DEF First

\* What is watched are finitely many targets of the settings.
LEMMA ResolvedAreTargets ==
  ASSUME NEW wanted \in Asked
  PROVE  /\ IsFiniteSet(DOMAIN resolve_ping_targets(wanted))
         /\ \A i \in DOMAIN resolve_ping_targets(wanted) :
              resolve_ping_targets(wanted)[i] \in TargetSpec
<1>1. /\ DOMAIN Configured = 1..Len(Configured) /\ Len(Configured) \in Nat
      /\ \A i \in DOMAIN Configured : Configured[i] \in TargetSpec
  BY PingCommandConstants, LenProperties, ElementOfSeq
<1>2. wanted \in Seq(DOMAIN Holds) /\ DOMAIN wanted = 1..Len(wanted) /\ Len(wanted) \in Nat
  BY PingCommandConstants, LenProperties
<1>3. Enabled \subseteq DOMAIN Configured /\ DOMAIN Configured \subseteq Nat
  BY <1>1 DEF Enabled
<1>4. CASE wanted = <<>>
  <2>1. resolve_ping_targets(wanted) = [i \in Enabled |-> Configured[i]]
    BY <1>4 DEF resolve_ping_targets
  <2>2. IsFiniteSet(DOMAIN Configured)
    BY <1>1, FS_Interval
  <2> QED
    BY <1>1, <1>3, <2>1, <2>2, FS_Subset
<1>5. CASE wanted # <<>> /\ \E i \in DOMAIN wanted : Candidates(wanted[i]) = {}
  <2>1. resolve_ping_targets(wanted) = <<>>
    BY <1>5 DEF resolve_ping_targets
  <2> QED
    BY <2>1, FS_EmptySet
<1>6. CASE wanted # <<>> /\ \A i \in DOMAIN wanted : Candidates(wanted[i]) # {}
  <2>1. resolve_ping_targets(wanted) = [i \in DOMAIN wanted |-> Configured[First(Candidates(wanted[i]))]]
    BY <1>6 DEF resolve_ping_targets
  <2>2. ASSUME NEW i \in DOMAIN wanted PROVE Configured[First(Candidates(wanted[i]))] \in TargetSpec
    <3>1. Candidates(wanted[i]) \in SUBSET Nat /\ Candidates(wanted[i]) \subseteq DOMAIN Configured
      BY <1>3 DEF Candidates
    <3>2. First(Candidates(wanted[i])) \in Candidates(wanted[i])
      BY <1>6, <2>2, <3>1, FirstOfSome
    <3> QED
      BY <1>1, <3>1, <3>2
  <2>3. IsFiniteSet(DOMAIN wanted)
    BY <1>2, FS_Interval
  <2> QED
    BY <2>1, <2>2, <2>3
<1> QED
  BY <1>4, <1>5, <1>6

LEMMA CommandInvInit == InitCommand => CommandInv /\ ThreadsInv
<1> SUFFICES ASSUME InitCommand PROVE CommandInv /\ ThreadsInv
  OBVIOUS
<1>1. Watching
  BY ResolvedAreTargets DEF InitCommand, Watching
<1>2. /\ stage \in {"ended", "between"} /\ tick = 0 /\ age = 0
      /\ DOMAIN probes = {} /\ threads = {} /\ rows = {} /\ unsaved = {}
  BY DEF InitCommand
<1>3. seconds \in 1..(MaxSeconds + 1)
  BY PingCommandConstants DEF InitCommand
<1>4. TicksTypeOK
  BY <1>2, <1>3, PingCommandConstants DEF TicksTypeOK
<1>5. ProbesAreOfTheTick /\ ProbesAreInTime
  BY <1>2 DEF ProbesAreOfTheTick, ProbesAreInTime
<1>6. OneSampleEach
  BY <1>2 DEF OneSampleEach
<1> QED
  BY <1>1, <1>2, <1>4, <1>5, <1>6 DEF CommandInv, ThreadsInv, ThreadsEnd, ThreadsAreApart

\* What a probe that is not joined may become.
LEMMA ProbeBecomes ==
  ASSUME CommandInv, NEW i \in DOMAIN probes, NEW probe \in ProbeTypes, Becomes(i, probe),
         probes[i].doing # "joined", probe.doing # "joined",
         Running(probe) => age <= probe.due /\ probe.due <= Interval,
         probe.doing = "waiting" => probe.due = Interval,
         probe.doing = "asking" => probe.since <= age
  PROVE  CommandInv'
<1>1. /\ Watching /\ TicksTypeOK /\ ProbesAreOfTheTick /\ ProbesAreInTime /\ OneSampleEach
  BY DEF CommandInv
<1>2. /\ watched' = watched /\ seconds' = seconds /\ tick' = tick /\ stage' = stage /\ age' = age
      /\ threads' = threads /\ rows' = rows /\ unsaved' = unsaved /\ stage = "probing"
  BY DEF Becomes, commandVars
<1>3. /\ DOMAIN probes' = DOMAIN probes
      /\ probes'[i] = probe
      /\ \A j \in DOMAIN probes : j # i => probes'[j] = probes[j]
  BY DEF Becomes
<1>4. Watching' /\ TicksTypeOK'
  BY <1>1, <1>2 DEF Watching, TicksTypeOK
<1>5. ProbesAreOfTheTick'
  BY <1>1, <1>2, <1>3 DEF ProbesAreOfTheTick
<1>6. ProbesAreInTime'
  BY <1>1, <1>2, <1>3 DEF ProbesAreInTime, Running
<1>7. \A t, j : j \in DOMAIN watched => (Done(t, j)' <=> Done(t, j))
  BY <1>1, <1>2, <1>3 DEF Done, ProbesAreOfTheTick
<1>8. OneSampleEach'
  BY <1>1, <1>2, <1>7 DEF OneSampleEach
<1> QED
  BY <1>4, <1>5, <1>6, <1>8 DEF CommandInv

\* A probe that comes back, whatever it brings.
LEMMA ReturnedIsBack ==
  ASSUME NEW probe \in ProbeTypes, NEW rtt \in {Lost} \cup 0..Interval
  PROVE  /\ Returned(probe, rtt) \in ProbeTypes /\ Returned(probe, rtt).doing = "back"
         /\ Returned(probe, rtt).rtt = rtt
BY DEF Returned, ProbeTypes, Doings

LEMMA ProbeBringsBack ==
  ASSUME CommandInv, NEW i \in DOMAIN probes, NEW rtt \in {Lost} \cup 0..Interval,
         Becomes(i, Returned(probes[i], rtt)), probes[i].doing # "joined"
  PROVE  CommandInv'
<1> DEFINE back == Returned(probes[i], rtt)
<1>1. back \in ProbeTypes /\ back.doing = "back"
  BY ReturnedIsBack DEF CommandInv, ProbesAreOfTheTick
<1>2. Becomes(i, back)
  OBVIOUS
<1> HIDE DEF back
<1>3. ~Running(back) /\ back.doing # "waiting" /\ back.doing # "asking" /\ back.doing # "joined"
  BY <1>1 DEF Running
<1> QED
  BY <1>1, <1>2, <1>3, ProbeBecomes

LEMMA StepOfProbe ==
  ASSUME CommandInv, NEW i \in DOMAIN probes, TcpResolves(i) \/ TcpAnswers(i) \/ Elapsed(i)
  PROVE  CommandInv'
<1>1. /\ probes[i] \in ProbeTypes /\ stage = "probing" /\ age \in Nat
      /\ Running(probes[i]) => age <= probes[i].due /\ probes[i].due <= Interval
      /\ probes[i].doing = "asking" => probes[i].since <= age
  BY DEF CommandInv, ProbesAreOfTheTick, ProbesAreInTime, TicksTypeOK
<1>2. Interval \in Nat /\ Lost \in {Lost} \cup 0..Interval
  BY PingCommandConstants
<1>3. CASE TcpResolves(i)
  <2> DEFINE asking == [probes[i] EXCEPT !.doing = "asking", !.since = age, !.due = connect_by]
  <2>1. CASE age < Interval /\ Becomes(i, asking)
    <3>1. connect_by = Interval
      BY <1>1, <1>2 DEF connect_by
    <3>2. asking \in ProbeTypes /\ asking.doing = "asking" /\ asking.due = Interval /\ asking.since = age
      BY <1>1, <1>2, <3>1 DEF ProbeTypes, Doings
    <3>3. Becomes(i, asking)
      BY <2>1
    <3> HIDE DEF asking
    <3>4. asking.doing # "joined" /\ asking.doing # "waiting" /\ probes[i].doing # "joined"
      BY <1>3, <3>2 DEF TcpResolves
    <3>5. age <= asking.due /\ asking.due <= Interval /\ asking.since <= age
      BY <1>1, <1>2, <2>1, <3>2
    <3> QED
      BY <3>2, <3>3, <3>4, <3>5, ProbeBecomes
  <2>2. CASE Becomes(i, Returned(probes[i], Lost))
    BY <1>2, <1>3, <2>2, ProbeBringsBack DEF TcpResolves
  <2> QED
    BY <1>3, <2>1, <2>2 DEF TcpResolves
<1>4. CASE TcpAnswers(i)
  <2>1. PICK rtt \in {age - probes[i].since, Lost} : Becomes(i, Returned(probes[i], rtt))
    BY <1>4 DEF TcpAnswers
  <2>2. probes[i].doing = "asking" /\ probes[i].since \in Nat
    BY <1>1, <1>4 DEF TcpAnswers, ProbeTypes
  <2>3. age <= Interval /\ probes[i].since <= age
    BY <1>1, <1>2, <2>2 DEF Running, ProbeTypes
  <2>4. rtt \in {Lost} \cup 0..Interval
    BY <1>1, <1>2, <2>2, <2>3
  <2> QED
    BY <2>1, <2>2, <2>4, ProbeBringsBack
<1>5. CASE Elapsed(i)
  BY <1>2, <1>5, ProbeBringsBack DEF Elapsed, Running
<1> QED
  BY <1>3, <1>4, <1>5

\* A tick begins with a probe for every target.
ProbeBegun(probe) ==
  /\ probe \in ProbeTypes /\ probe.doing # "joined" /\ probe.since = 0
  /\ Running(probe) => probe.due = Interval
  /\ probe.doing = "waiting" => Running(probe)

LEMMA ProbesBegin ==
  ASSUME NEW target \in TargetSpec
  PROVE  /\ ProbeBegun(probe_once(target))
         /\ OnAThread(target) => probe_once(target).doing = "waiting"
<1>1. target.probe \in {"icmp", "tcp"} /\ target.literal \in BOOLEAN
  BY DEF TargetSpec
<1>2. Interval \in Nat
  BY PingCommandConstants
<1>3. \/ probe_once(target) = Probing("waiting", Interval, Lost)
      \/ probe_once(target) = Probing("back", 0, Lost) /\ ~OnAThread(target)
      \/ probe_once(target) = Probing("asking", Interval, Lost) /\ ~OnAThread(target)
      \/ probe_once(target) = Probing("resolving", Interval, Lost) /\ ~OnAThread(target)
  <2>1. CASE OnAThread(target)
    BY <1>1, <2>1 DEF probe_once, OnAThread
  <2>2. CASE ~OnAThread(target) /\ target.probe = "icmp"
    BY <1>1, <2>2, PingCommandConstants DEF probe_once, OnAThread
  <2>3. CASE target.probe = "tcp" /\ target.literal
    BY <1>1, <2>3 DEF probe_once, OnAThread
  <2>4. CASE target.probe = "tcp" /\ ~target.literal
    BY <1>1, <2>4 DEF probe_once, OnAThread
  <2> QED
    BY <1>1, <2>1, <2>2, <2>3, <2>4
<1>4. ASSUME NEW doing \in {"waiting", "asking", "resolving"}
      PROVE  ProbeBegun(Probing(doing, Interval, Lost))
  BY <1>2 DEF Probing, ProbeBegun, ProbeTypes, Doings, Running
<1>5. ProbeBegun(Probing("back", 0, Lost))
  BY <1>2 DEF Probing, ProbeBegun, ProbeTypes, Doings, Running
<1>6. Probing("waiting", Interval, Lost).doing = "waiting"
  BY DEF Probing
<1> QED
  BY <1>3, <1>4, <1>5, <1>6

LEMMA TickStarts == CommandInv /\ StartTick => CommandInv'
<1> SUFFICES ASSUME CommandInv, StartTick PROVE CommandInv'
  OBVIOUS
<1>1. /\ Watching /\ TicksTypeOK /\ OneSampleEach
  BY DEF CommandInv
<1>2. /\ stage = "between" /\ stage' = "probing" /\ tick' = tick + 1 /\ age' = 0
      /\ probes' = [i \in DOMAIN watched |-> probe_once(watched[i])]
      /\ watched' = watched /\ seconds' = seconds /\ rows' = rows /\ unsaved' = unsaved
  BY DEF StartTick
<1>3. Watching' /\ TicksTypeOK'
  BY <1>1, <1>2, PingCommandConstants DEF Watching, TicksTypeOK
<1>4. DOMAIN probes' = DOMAIN watched /\ \A i \in DOMAIN watched : ProbeBegun(probes'[i])
  BY <1>1, <1>2, ProbesBegin DEF Watching
<1>5. ProbesAreOfTheTick'
  BY <1>2, <1>4 DEF ProbesAreOfTheTick, ProbeBegun
<1>6. ProbesAreInTime'
  BY <1>2, <1>4, PingCommandConstants DEF ProbesAreInTime, ProbeBegun, Running
<1>7. tick \in Nat /\ \A i \in DOMAIN watched : probes'[i].doing # "joined"
  BY <1>1, <1>4, PingCommandConstants DEF TicksTypeOK, ProbeBegun
<1>8. ASSUME NEW t \in 1..(tick + 1), NEW i \in DOMAIN watched
      PROVE  Done(t, i)' <=> t \in 1..tick
  BY <1>2, <1>7 DEF Done
<1>9. \A t \in 1..tick : \A i : Done(t, i)
  BY <1>2 DEF Done
<1>10. OneSampleEach'
  <2>1. \A row \in rows \cup unsaved : row.tick \in 1..tick /\ row.of \in DOMAIN watched
    BY <1>1 DEF OneSampleEach
  <2>2. \A row \in rows \cup unsaved : row.tick \in 1..(tick + 1) /\ Done(row.tick, row.of)'
    BY <1>7, <1>8, <2>1
  <2> QED
    BY <1>1, <1>2, <1>8, <1>9, <2>1, <2>2 DEF OneSampleEach
<1> QED
  BY <1>3, <1>5, <1>6, <1>10 DEF CommandInv

\* The end of a thread is a probe's return at most.
LEMMA ThreadReturns ==
  ASSUME CommandInv, NEW thread, NEW rtt \in {Lost} \cup 0..Interval, ThreadEnds(thread, rtt)
  PROVE  CommandInv'
<1>1. /\ Watching /\ TicksTypeOK /\ ProbesAreOfTheTick /\ ProbesAreInTime /\ OneSampleEach
  BY DEF CommandInv
<1> DEFINE awaited(i) == /\ stage = "probing" /\ thread.tick = tick /\ thread.of = i
                         /\ probes[i].doing = "waiting"
<1>2. /\ probes' = [i \in DOMAIN probes |-> IF awaited(i) THEN Returned(probes[i], rtt) ELSE probes[i]]
      /\ watched' = watched /\ seconds' = seconds /\ tick' = tick /\ stage' = stage /\ age' = age
      /\ rows' = rows /\ unsaved' = unsaved
  BY DEF ThreadEnds
<1>3. DOMAIN probes' = DOMAIN probes
  BY <1>2
<1>4. ASSUME NEW i \in DOMAIN probes
      PROVE  \/ probes'[i] = probes[i]
             \/ /\ probes[i].doing = "waiting"
                /\ probes'[i] \in ProbeTypes /\ probes'[i].doing = "back"
  BY <1>1, <1>2, ReturnedIsBack DEF ProbesAreOfTheTick
<1>5. Watching' /\ TicksTypeOK'
  BY <1>1, <1>2 DEF Watching, TicksTypeOK
<1>6. ProbesAreOfTheTick'
  BY <1>1, <1>2, <1>3, <1>4 DEF ProbesAreOfTheTick
<1>7. ProbesAreInTime'
  BY <1>1, <1>2, <1>3, <1>4 DEF ProbesAreInTime, Running
<1>8. \A t, i : i \in DOMAIN watched => (Done(t, i)' <=> Done(t, i))
  BY <1>1, <1>2, <1>4 DEF Done, ProbesAreOfTheTick
<1>9. OneSampleEach'
  BY <1>1, <1>2, <1>8 DEF OneSampleEach
<1> QED
  BY <1>5, <1>6, <1>7, <1>9 DEF CommandInv

LEMMA StepOfThread ==
  ASSUME CommandInv, ThreadsEnd, NEW thread \in threads,
         ThreadResolves(thread) \/ ThreadEchoes(thread)
  PROVE  CommandInv'
<1>1. CASE ThreadResolves(thread) /\ UNCHANGED <<watched, seconds, tick, stage, age, probes, rows, unsaved>>
  BY <1>1 DEF CommandInv, Watching, TicksTypeOK, ProbesAreOfTheTick, ProbesAreInTime, OneSampleEach, Done
<1>2. CASE ThreadEnds(thread, Lost)
  BY <1>2, ThreadReturns
<1>3. CASE ThreadEchoes(thread)
  <2>1. PICK rtt \in {thread.age - thread.since, Lost} : ThreadEnds(thread, rtt)
    BY <1>3 DEF ThreadEchoes
  <2>2. /\ thread.age \in Nat /\ thread.since \in Nat
        /\ thread.since <= thread.age /\ thread.age <= thread.since + Interval
    BY <1>3 DEF ThreadEchoes, ThreadsEnd
  <2>3. rtt \in {Lost} \cup 0..Interval
    BY <2>1, <2>2, PingCommandConstants
  <2> QED
    BY <2>1, <2>3, ThreadReturns
<1> QED
  BY <1>1, <1>2, <1>3 DEF ThreadResolves

\* A sample joins those of its tick: the only one of its target.
LEMMA SampleJoins ==
  ASSUME CommandInv, NEW i \in DOMAIN probes, Join(i)
  PROVE  CommandInv'
<1>1. /\ Watching /\ TicksTypeOK /\ ProbesAreOfTheTick /\ ProbesAreInTime /\ OneSampleEach
  BY DEF CommandInv
<1> DEFINE new == Sample(i)
           joined == [probes[i] EXCEPT !.doing = "joined"]
           kept == rows \cup unsaved
<1>2. /\ stage = "probing" /\ probes[i].doing = "back"
      /\ probes' = [probes EXCEPT ![i] = joined]
      /\ \/ rows' = rows \cup {new} /\ unsaved' = unsaved
         \/ unsaved' = unsaved \cup {new} /\ rows' = rows
      /\ watched' = watched /\ seconds' = seconds /\ tick' = tick /\ stage' = stage /\ age' = age
  BY DEF Join
<1>3. probes[i] \in ProbeTypes /\ DOMAIN probes = DOMAIN watched /\ tick \in Nat /\ tick >= 1
  BY <1>1, <1>2, PingCommandConstants DEF ProbesAreOfTheTick, TicksTypeOK
<1>4. joined \in ProbeTypes /\ joined.doing = "joined"
  BY <1>3 DEF ProbeTypes, Doings
<1>5. new.tick = tick /\ new.of = i
  BY DEF Sample
<1> HIDE DEF new, joined
<1>6. /\ DOMAIN probes' = DOMAIN probes
      /\ probes'[i] = joined
      /\ \A j \in DOMAIN probes : j # i => probes'[j] = probes[j]
  BY <1>2
<1>7. Watching' /\ TicksTypeOK'
  BY <1>1, <1>2 DEF Watching, TicksTypeOK
<1>8. ProbesAreOfTheTick'
  BY <1>1, <1>2, <1>4, <1>6 DEF ProbesAreOfTheTick
<1>9. ProbesAreInTime'
  BY <1>1, <1>2, <1>4, <1>6 DEF ProbesAreInTime, Running
<1>10. /\ ~Done(tick, i) /\ \A t : t = tick => Done(t, i)'
       /\ \A t, j : j \in DOMAIN watched /\ j # i => (Done(t, j)' <=> Done(t, j))
       /\ \A t : Done(t, i) => Done(t, i)'
       /\ \A t : Done(t, i)' => Done(t, i) \/ ~(t < tick)
  BY <1>2, <1>3, <1>4, <1>6 DEF Done
<1>11. \A row \in kept : row.tick \in 1..tick /\ row.of \in DOMAIN watched /\ Done(row.tick, row.of)
  BY <1>1 DEF OneSampleEach
<1>12. \A row \in kept : ~(row.tick = tick /\ row.of = i)
  BY <1>10, <1>11
<1>13. (rows \cup unsaved)' = kept \cup {new} /\ new \notin kept
  BY <1>2, <1>5, <1>12
<1>14. OneSampleEach'
  <2>1. (rows \cap unsaved = {})'
    BY <1>1, <1>2, <1>13 DEF OneSampleEach
  <2>2. ASSUME NEW row \in kept \cup {new}
        PROVE  row.tick \in 1..tick /\ row.of \in DOMAIN watched /\ Done(row.tick, row.of)'
    <3>1. CASE row = new
      BY <1>3, <1>5, <1>10, <3>1
    <3>2. CASE row \in kept
      BY <1>10, <1>11, <3>2
    <3> QED
      BY <2>2, <3>1, <3>2
  <2>3. \A row, other \in kept \cup {new} : row.tick = other.tick /\ row.of = other.of => row = other
    BY <1>1, <1>5, <1>12 DEF OneSampleEach
  <2>4. ASSUME NEW t \in 1..tick, NEW j \in DOMAIN watched, Done(t, j)'
        PROVE  \E row \in kept \cup {new} : row.tick = t /\ row.of = j
    <3>1. CASE Done(t, j)
      BY <1>1, <3>1 DEF OneSampleEach
    <3>2. CASE ~Done(t, j)
      <4>1. j = i /\ t = tick
        BY <1>3, <1>10, <2>4, <3>2
      <4> QED
        BY <1>5, <4>1
    <3> QED
      BY <3>1, <3>2
  <2> HIDE DEF kept
  <2> QED
    BY <1>2, <1>13, <2>1, <2>2, <2>3, <2>4 DEF OneSampleEach
<1> QED
  BY <1>7, <1>8, <1>9, <1>14 DEF CommandInv

LEMMA CommandInvStep == CommandInv /\ ThreadsInv /\ [NextCommand]_commandVars => CommandInv'
<1> SUFFICES ASSUME CommandInv, ThreadsInv, [NextCommand]_commandVars PROVE CommandInv'
  OBVIOUS
<1>1. /\ Watching /\ TicksTypeOK /\ ProbesAreOfTheTick /\ ProbesAreInTime /\ OneSampleEach
      /\ ThreadsEnd
  BY DEF CommandInv, ThreadsInv
<1>2. CASE StartTick
  BY <1>2, TickStarts
<1>3. ASSUME NEW i \in DOMAIN probes, TcpResolves(i) \/ TcpAnswers(i) \/ Elapsed(i) \/ Join(i)
      PROVE  CommandInv'
  BY <1>3, StepOfProbe, SampleJoins
<1>4. ASSUME NEW thread \in threads, ThreadResolves(thread) \/ ThreadEchoes(thread)
      PROVE  CommandInv'
  BY <1>1, <1>4, StepOfThread
<1>5. CASE Rest
  <2>1. /\ stage = "probing" /\ stage' = "resting" /\ age' = 0 /\ DOMAIN probes' = {}
        /\ \A i \in DOMAIN probes : probes[i].doing = "joined"
        /\ watched' = watched /\ seconds' = seconds /\ tick' = tick
        /\ rows' = rows /\ unsaved' = unsaved
    BY <1>5 DEF Rest
  <2>2. Watching' /\ TicksTypeOK'
    BY <1>1, <2>1, PingCommandConstants DEF Watching, TicksTypeOK
  <2>3. ProbesAreOfTheTick' /\ ProbesAreInTime'
    BY <2>1 DEF ProbesAreOfTheTick, ProbesAreInTime
  <2>4. \A t, i : i \in DOMAIN watched => Done(t, i) /\ Done(t, i)'
    BY <1>1, <2>1 DEF Done, ProbesAreOfTheTick
  <2>5. OneSampleEach'
    BY <1>1, <2>1, <2>4 DEF OneSampleEach
  <2> QED
    BY <2>2, <2>3, <2>5 DEF CommandInv
<1>6. CASE RestOver
  <2>1. /\ stage = "resting" /\ stage' \in {"between", "ended"} /\ (stage' = "between" => tick < seconds)
        /\ watched' = watched /\ seconds' = seconds /\ tick' = tick /\ age' = age /\ probes' = probes
        /\ rows' = rows /\ unsaved' = unsaved
    BY <1>6 DEF RestOver
  <2>2. Watching' /\ TicksTypeOK'
    BY <1>1, <2>1 DEF Watching, TicksTypeOK
  <2>3. ProbesAreOfTheTick' /\ ProbesAreInTime'
    BY <1>1, <2>1 DEF ProbesAreOfTheTick, ProbesAreInTime
  <2>4. \A t, i : Done(t, i) /\ Done(t, i)'
    BY <2>1 DEF Done
  <2>5. OneSampleEach'
    BY <1>1, <2>1, <2>4 DEF OneSampleEach
  <2> QED
    BY <2>2, <2>3, <2>5 DEF CommandInv
<1>7. CASE TimePassesInCommand
  <2>1. /\ stage \in {"probing", "resting"} /\ age' = age + 1
        /\ stage = "probing" => /\ \A i \in DOMAIN probes : Running(probes[i]) => age < probes[i].due
                                /\ age < Interval + MaxStall
        /\ stage = "resting" => age < Interval
        /\ watched' = watched /\ seconds' = seconds /\ tick' = tick /\ stage' = stage
        /\ probes' = probes /\ rows' = rows /\ unsaved' = unsaved
    BY <1>7 DEF TimePassesInCommand, RestFor
  <2>2. Watching' /\ TicksTypeOK'
    BY <1>1, <2>1, PingCommandConstants DEF Watching, TicksTypeOK
  <2>3. ProbesAreOfTheTick'
    BY <1>1, <2>1 DEF ProbesAreOfTheTick
  <2>4. ProbesAreInTime'
    <3>1. age \in Nat /\ \A i \in DOMAIN probes : probes[i].due \in Nat /\ probes[i].since \in Nat
      BY <1>1 DEF TicksTypeOK, ProbesAreOfTheTick, ProbeTypes
    <3>2. DOMAIN probes # {} => stage = "probing"
      BY <1>1 DEF ProbesAreOfTheTick
    <3> QED
      BY <1>1, <2>1, <3>1, <3>2 DEF ProbesAreInTime, Running
  <2>5. OneSampleEach'
    BY <1>1, <2>1 DEF OneSampleEach, Done
  <2> QED
    BY <2>2, <2>3, <2>4, <2>5 DEF CommandInv
<1>8. CASE UNCHANGED commandVars
  BY <1>8 DEF commandVars, CommandInv, Watching, TicksTypeOK, ProbesAreOfTheTick, ProbesAreInTime,
              OneSampleEach, Done
<1> QED
  BY <1>2, <1>3, <1>4, <1>5, <1>6, <1>7, <1>8 DEF NextCommand

\* A probe that no longer waits for its thread has waited for the interval.
LEMMA ThreadsOfProbe ==
  ASSUME CommandInv, ThreadsInv, NEW i \in DOMAIN probes,
         TcpResolves(i) \/ TcpAnswers(i) \/ Elapsed(i) \/ Join(i)
  PROVE  ThreadsInv'
<1>1. /\ TicksTypeOK /\ ProbesAreOfTheTick /\ ProbesAreInTime /\ ThreadsEnd /\ ThreadsAreApart
  BY DEF CommandInv, ThreadsInv
<1>2. /\ stage = "probing" /\ watched' = watched /\ tick' = tick /\ stage' = stage /\ age' = age
      /\ threads' = threads
      /\ \A j \in DOMAIN probes : j # i => probes'[j] = probes[j]
      /\ probes[i].doing # "waiting" \/ age >= Interval
  <2>1. CASE TcpResolves(i) \/ TcpAnswers(i)
    BY <2>1 DEF TcpResolves, TcpAnswers, Becomes
  <2>2. CASE Elapsed(i)
    <3>1. age >= probes[i].due
      BY <2>2 DEF Elapsed
    <3>2. probes[i].doing = "waiting" => age >= Interval
      BY <1>1, <3>1 DEF ProbesAreInTime
    <3> QED
      BY <2>2, <3>2 DEF Elapsed, Becomes
  <2>3. CASE Join(i)
    BY <2>3 DEF Join
  <2> QED
    BY <2>1, <2>2, <2>3
<1>3. OnThreads' = OnThreads
  BY <1>2 DEF OnThreads
<1>4. ThreadsEnd'
  BY <1>1, <1>2, <1>3 DEF ThreadsEnd
<1>5. ThreadsAreApart'
  <2>1. ASSUME NEW thread \in threads, thread.tick = tick, probes'[thread.of].doing # "waiting"
        PROVE  age >= Interval
    <3>1. thread.of \in DOMAIN probes
      BY <1>1, <1>2 DEF ThreadsEnd, OnThreads, ProbesAreOfTheTick
    <3>2. probes[thread.of].doing # "waiting" => age >= Interval
      BY <1>1, <1>2, <2>1 DEF ThreadsAreApart
    <3> QED
      BY <1>2, <2>1, <3>1, <3>2
  <2> QED
    BY <1>1, <1>2, <2>1 DEF ThreadsAreApart
<1> QED
  BY <1>4, <1>5 DEF ThreadsInv

\* The threads of a tick begin when all others are two intervals old.
LEMMA ThreadsBegin ==
  ASSUME CommandInv, ThreadsInv, StartTick
  PROVE  ThreadsInv'
<1>1. /\ TicksTypeOK /\ Watching /\ ThreadsEnd /\ ThreadsAreApart
  BY DEF CommandInv, ThreadsInv
<1> DEFINE begun == {spawn_blocking(i) : i \in OnThreads}
<1>2. /\ stage = "between" /\ stage' = "probing" /\ tick' = tick + 1 /\ age' = 0
      /\ watched' = watched
      /\ threads' = threads \cup begun
      /\ probes' = [i \in DOMAIN watched |-> probe_once(watched[i])]
  BY DEF StartTick, OnThreads
<1>3. OnThreads' = OnThreads /\ tick \in Nat /\ Interval \in Nat /\ MaxResolve \in Nat
  BY <1>1, <1>2, PingCommandConstants DEF OnThreads, TicksTypeOK
<1>4. ASSUME NEW thread \in begun
      PROVE  /\ thread \in [tick: Nat, of: OnThreads, age: Nat, since: Nat, doing: {"resolving", "echoing"}]
             /\ thread.tick = tick + 1 /\ thread.age = 0 /\ thread.since = 0
  BY <1>2, <1>3 DEF spawn_blocking
<1>5. \A one, other \in begun : one.of = other.of => one = other
  BY DEF spawn_blocking
<1> HIDE DEF begun
<1>6. ASSUME NEW thread \in threads
      PROVE  thread.tick \in Nat /\ thread.age \in Nat /\ thread.tick <= tick /\ thread.age >= 2 * Interval
  <2>1. thread.tick \in Nat /\ thread.tick <= tick /\ thread.age \in Nat
    BY <1>1 DEF ThreadsEnd
  <2>2. /\ thread.tick < tick => thread.age >= 2 * Interval
        /\ thread.tick = tick => thread.age >= 2 * Interval
    BY <1>1, <1>2 DEF ThreadsAreApart
  <2> QED
    BY <1>3, <2>1, <2>2
<1>7. ThreadsEnd'
  <2> SUFFICES ASSUME NEW thread \in threads \cup begun
               PROVE  /\ thread \in [tick: Nat, of: OnThreads, age: Nat, since: Nat, doing: {"resolving", "echoing"}]
                      /\ thread.tick <= tick + 1
                      /\ thread.doing = "resolving" => thread.age <= MaxResolve
                      /\ thread.doing = "echoing" =>
                           /\ thread.since <= thread.age /\ thread.since <= MaxResolve
                           /\ thread.age <= thread.since + Interval
    BY <1>2, <1>3 DEF ThreadsEnd
  <2>1. CASE thread \in begun
    BY <1>3, <1>4, <2>1
  <2>2. CASE thread \in threads
    BY <1>1, <1>3, <1>6, <2>2 DEF ThreadsEnd
  <2> QED
    BY <2>1, <2>2
<1>8. \A i \in OnThreads : probes'[i].doing = "waiting"
  BY <1>1, <1>2, ProbesBegin DEF OnThreads, Watching
<1>9. ThreadsAreApart'
  <2>1. ASSUME NEW one \in threads', NEW other \in threads'
        PROVE  /\ one.of = other.of /\ one.tick = other.tick => one = other
               /\ one.tick < other.tick => one.age >= other.age + 2 * Interval
    <3>1. CASE one \in threads /\ other \in threads
      BY <1>1, <3>1 DEF ThreadsAreApart
    <3>2. CASE one \in begun /\ other \in begun
      BY <1>3, <1>4, <1>5, <3>2
    <3>3. CASE one \in threads /\ other \in begun
      BY <1>3, <1>4, <1>6, <3>3
    <3>4. CASE one \in begun /\ other \in threads
      BY <1>3, <1>4, <1>6, <3>4
    <3> QED
      BY <1>2, <3>1, <3>2, <3>3, <3>4
  <2>2. ASSUME NEW thread \in threads'
        PROVE  /\ thread.tick < tick + 1 => thread.age >= 2 * Interval
               /\ thread.tick = tick + 1 => thread.age = 0 /\ thread.of \in OnThreads
    <3>1. CASE thread \in threads
      BY <1>3, <1>6, <3>1
    <3>2. CASE thread \in begun
      BY <1>3, <1>4, <3>2
    <3> QED
      BY <1>2, <3>1, <3>2
  <2>3. \A thread \in threads' : thread.tick < tick' => thread.age >= age' + 2 * Interval
    BY <1>2, <1>3, <2>2
  <2> QED
    BY <1>2, <1>8, <2>1, <2>2, <2>3 DEF ThreadsAreApart
<1> QED
  BY <1>7, <1>9 DEF ThreadsInv

\* Of a target and a tick there is one thread: its end ends what is waited for.
LEMMA ThreadsOfThread ==
  ASSUME CommandInv, ThreadsInv, NEW thread \in threads,
         ThreadResolves(thread) \/ ThreadEchoes(thread)
  PROVE  ThreadsInv'
<1>1. /\ TicksTypeOK /\ ProbesAreOfTheTick /\ ThreadsEnd /\ ThreadsAreApart
  BY DEF CommandInv, ThreadsInv
<1> DEFINE echoing == [thread EXCEPT !.doing = "echoing", !.since = thread.age]
<1>2. CASE /\ thread.doing = "resolving"
           /\ threads' = (threads \ {thread}) \cup {echoing}
           /\ UNCHANGED <<watched, seconds, tick, stage, age, probes, rows, unsaved>>
  <2>1. /\ thread \in [tick: Nat, of: OnThreads, age: Nat, since: Nat, doing: {"resolving", "echoing"}]
        /\ thread.age <= MaxResolve /\ thread.tick <= tick
    BY <1>1, <1>2 DEF ThreadsEnd
  <2>2. /\ echoing \in [tick: Nat, of: OnThreads, age: Nat, since: Nat, doing: {"resolving", "echoing"}]
        /\ echoing.tick = thread.tick /\ echoing.of = thread.of /\ echoing.age = thread.age
        /\ echoing.since = thread.age /\ echoing.doing = "echoing"
    BY <2>1
  <2>3. threads' = (threads \ {thread}) \cup {echoing}
    BY <1>2
  <2> HIDE DEF echoing
  <2>4. /\ watched' = watched /\ tick' = tick /\ stage' = stage /\ age' = age /\ probes' = probes
        /\ OnThreads' = OnThreads
    BY <1>2 DEF OnThreads
  <2>5. ThreadsEnd'
    <3>1. /\ echoing.tick <= tick /\ echoing.since <= echoing.age /\ echoing.since <= MaxResolve
          /\ echoing.age <= echoing.since + Interval
      BY <2>1, <2>2, PingCommandConstants
    <3> QED
      BY <1>1, <2>2, <2>3, <2>4, <3>1 DEF ThreadsEnd
  <2>6. ASSUME NEW one \in threads'
        PROVE  \E was \in threads : /\ was.tick = one.tick /\ was.of = one.of /\ was.age = one.age
                                    /\ one = IF was = thread THEN echoing ELSE was
    BY <2>2, <2>3
  <2>7. ASSUME NEW one \in threads', NEW other \in threads'
        PROVE  /\ one.of = other.of /\ one.tick = other.tick => one = other
               /\ one.tick < other.tick => one.age >= other.age + 2 * Interval
    <3>1. PICK was \in threads : /\ was.tick = one.tick /\ was.of = one.of /\ was.age = one.age
                                 /\ one = IF was = thread THEN echoing ELSE was
      BY <2>6
    <3>2. PICK were \in threads : /\ were.tick = other.tick /\ were.of = other.of /\ were.age = other.age
                                  /\ other = IF were = thread THEN echoing ELSE were
      BY <2>6
    <3>3. /\ was.of = were.of /\ was.tick = were.tick => was = were
          /\ was.tick < were.tick => was.age >= were.age + 2 * Interval
      BY <1>1 DEF ThreadsAreApart
    <3> QED
      BY <3>1, <3>2, <3>3
  <2>8. ThreadsAreApart'
    BY <1>1, <2>4, <2>6, <2>7 DEF ThreadsAreApart
  <2> QED
    BY <2>5, <2>8 DEF ThreadsInv
<1>3. ASSUME NEW rtt, ThreadEnds(thread, rtt) PROVE ThreadsInv'
  <2>1. /\ threads' = threads \ {thread}
        /\ watched' = watched /\ tick' = tick /\ stage' = stage /\ age' = age
        /\ \A i \in DOMAIN probes : ~(thread.tick = tick /\ thread.of = i) => probes'[i] = probes[i]
    BY <1>3 DEF ThreadEnds
  <2>2. OnThreads' = OnThreads
    BY <2>1 DEF OnThreads
  <2>3. ThreadsEnd'
    BY <1>1, <2>1, <2>2 DEF ThreadsEnd
  <2>4. ASSUME NEW other \in threads', other.tick = tick, stage = "probing"
        PROVE  probes'[other.of] = probes[other.of]
    <3>1. other \in threads /\ other # thread /\ other.of \in DOMAIN probes
      BY <1>1, <2>1, <2>4 DEF ThreadsEnd, OnThreads, ProbesAreOfTheTick
    <3>2. ~(thread.tick = tick /\ thread.of = other.of)
      BY <1>1, <2>4, <3>1 DEF ThreadsAreApart
    <3> QED
      BY <2>1, <3>1, <3>2
  <2>5. ThreadsAreApart'
    BY <1>1, <2>1, <2>4 DEF ThreadsAreApart
  <2> QED
    BY <2>3, <2>5 DEF ThreadsInv
<1> QED
  BY <1>2, <1>3 DEF ThreadResolves, ThreadEchoes

LEMMA ThreadsInvStep == CommandInv /\ ThreadsInv /\ [NextCommand]_commandVars => ThreadsInv'
<1> SUFFICES ASSUME CommandInv, ThreadsInv, [NextCommand]_commandVars PROVE ThreadsInv'
  OBVIOUS
<1>1. /\ TicksTypeOK /\ ProbesAreOfTheTick /\ ThreadsEnd /\ ThreadsAreApart
  BY DEF CommandInv, ThreadsInv
<1>2. age \in Nat /\ Interval \in Nat /\ MaxResolve \in Nat /\ \A thread \in threads : thread.age \in Nat
  BY <1>1, PingCommandConstants DEF TicksTypeOK, ThreadsEnd
<1>3. CASE StartTick
  BY <1>3, ThreadsBegin
<1>4. ASSUME NEW i \in DOMAIN probes, TcpResolves(i) \/ TcpAnswers(i) \/ Elapsed(i) \/ Join(i)
      PROVE  ThreadsInv'
  BY <1>4, ThreadsOfProbe
<1>5. ASSUME NEW thread \in threads, ThreadResolves(thread) \/ ThreadEchoes(thread)
      PROVE  ThreadsInv'
  BY <1>5, ThreadsOfThread
<1>6. CASE Rest
  <2>1. /\ stage = "probing" /\ stage' = "resting" /\ age' = 0
        /\ \A i \in DOMAIN probes : probes[i].doing = "joined"
        /\ watched' = watched /\ tick' = tick /\ threads' = threads
    BY <1>6 DEF Rest
  <2>2. OnThreads' = OnThreads
    BY <2>1 DEF OnThreads
  <2>3. ThreadsEnd'
    BY <1>1, <2>1, <2>2 DEF ThreadsEnd
  <2>4. ASSUME NEW thread \in threads
        PROVE  /\ thread.tick < tick => thread.age >= 2 * Interval
               /\ thread.tick = tick => thread.age >= 0 + Interval
    <3>1. thread.of \in DOMAIN probes
      BY <1>1, <2>1 DEF ThreadsEnd, OnThreads, ProbesAreOfTheTick
    <3>2. /\ thread.tick < tick => thread.age >= age + 2 * Interval
          /\ thread.tick = tick => thread.age = age /\ age >= Interval
      BY <1>1, <2>1, <3>1 DEF ThreadsAreApart
    <3> QED
      BY <1>2, <3>2
  <2>5. ThreadsAreApart'
    BY <1>1, <2>1, <2>4 DEF ThreadsAreApart
  <2> QED
    BY <2>3, <2>5 DEF ThreadsInv
<1>7. CASE RestOver
  <2>1. /\ stage = "resting" /\ stage' \in {"between", "ended"} /\ age >= Interval
        /\ watched' = watched /\ tick' = tick /\ threads' = threads
    BY <1>7 DEF RestOver, RestFor
  <2>2. OnThreads' = OnThreads
    BY <2>1 DEF OnThreads
  <2>3. ThreadsEnd'
    BY <1>1, <2>1, <2>2 DEF ThreadsEnd
  <2>4. ASSUME NEW thread \in threads
        PROVE  /\ thread.tick < tick => thread.age >= 2 * Interval
               /\ thread.tick = tick => thread.age >= 2 * Interval
    <3>1. /\ thread.tick < tick => thread.age >= 2 * Interval
          /\ thread.tick = tick => thread.age >= age + Interval
      BY <1>1, <2>1 DEF ThreadsAreApart
    <3> QED
      BY <1>2, <2>1, <3>1
  <2>5. ThreadsAreApart'
    BY <1>1, <2>1, <2>4 DEF ThreadsAreApart
  <2> QED
    BY <2>3, <2>5 DEF ThreadsInv
<1>8. CASE TimePassesInCommand
  <2> DEFINE older(thread) == [thread EXCEPT !.age = @ + 1]
  <2>1. /\ stage \in {"probing", "resting"} /\ age' = age + 1
        /\ threads' = {older(thread) : thread \in threads}
        /\ \A thread \in threads :
             thread.age < IF thread.doing = "resolving" THEN MaxResolve ELSE thread.since + Interval
        /\ watched' = watched /\ tick' = tick /\ stage' = stage /\ probes' = probes
    BY <1>8 DEF TimePassesInCommand
  <2>2. OnThreads' = OnThreads
    BY <2>1 DEF OnThreads
  <2>3. ASSUME NEW thread \in threads
        PROVE  /\ older(thread) \in [tick: Nat, of: OnThreads, age: Nat, since: Nat, doing: {"resolving", "echoing"}]
               /\ older(thread).tick = thread.tick /\ older(thread).of = thread.of
               /\ older(thread).age = thread.age + 1
               /\ older(thread).since = thread.since /\ older(thread).doing = thread.doing
    <3>1. thread \in [tick: Nat, of: OnThreads, age: Nat, since: Nat, doing: {"resolving", "echoing"}]
      BY <1>1 DEF ThreadsEnd
    <3> QED
      BY <3>1
  <2> HIDE DEF older
  <2>4. ThreadsEnd'
    <3> SUFFICES ASSUME NEW thread \in threads
                 PROVE  /\ older(thread).tick <= tick
                        /\ older(thread).doing = "resolving" => older(thread).age <= MaxResolve
                        /\ older(thread).doing = "echoing" =>
                             /\ older(thread).since <= older(thread).age /\ older(thread).since <= MaxResolve
                             /\ older(thread).age <= older(thread).since + Interval
      BY <2>1, <2>2, <2>3 DEF ThreadsEnd
    <3>1. /\ thread.tick <= tick /\ thread.since \in Nat /\ thread.age \in Nat
          /\ thread.doing = "echoing" => thread.since <= thread.age /\ thread.since <= MaxResolve
      BY <1>1 DEF ThreadsEnd
    <3>2. /\ thread.doing = "resolving" => thread.age < MaxResolve
          /\ thread.doing = "echoing" => thread.age < thread.since + Interval
      BY <2>1
    <3> QED
      BY <1>2, <2>3, <3>1, <3>2
  <2>5. ThreadsAreApart'
    <3>1. ASSUME NEW one \in threads, NEW other \in threads
          PROVE  /\ older(one).of = older(other).of /\ older(one).tick = older(other).tick
                      => older(one) = older(other)
                 /\ older(one).tick < older(other).tick
                      => older(one).age >= older(other).age + 2 * Interval
      <4>1. /\ one.of = other.of /\ one.tick = other.tick => one = other
            /\ one.tick < other.tick => one.age >= other.age + 2 * Interval
        BY <1>1 DEF ThreadsAreApart
      <4> QED
        BY <1>2, <2>3, <4>1
    <3>2. ASSUME NEW thread \in threads
          PROVE  /\ older(thread).tick < tick /\ stage = "probing" =>
                      older(thread).age >= (age + 1) + 2 * Interval
                 /\ older(thread).tick < tick /\ stage # "probing" => older(thread).age >= 2 * Interval
                 /\ older(thread).tick = tick /\ stage = "probing" =>
                      /\ older(thread).age = age + 1
                      /\ probes[older(thread).of].doing # "waiting" => age + 1 >= Interval
                 /\ older(thread).tick = tick /\ stage = "resting" =>
                      older(thread).age >= (age + 1) + Interval
      <4>1. /\ thread.tick < tick /\ stage = "probing" => thread.age >= age + 2 * Interval
            /\ thread.tick < tick /\ stage # "probing" => thread.age >= 2 * Interval
            /\ thread.tick = tick /\ stage = "probing" =>
                 /\ thread.age = age
                 /\ probes[thread.of].doing # "waiting" => age >= Interval
            /\ thread.tick = tick /\ stage = "resting" => thread.age >= age + Interval
        BY <1>1 DEF ThreadsAreApart
      <4> QED
        BY <1>2, <2>3, <4>1
    <3> QED
      BY <2>1, <3>1, <3>2 DEF ThreadsAreApart
  <2> QED
    BY <2>4, <2>5 DEF ThreadsInv
<1>9. CASE UNCHANGED commandVars
  BY <1>9 DEF commandVars, ThreadsInv, ThreadsEnd, ThreadsAreApart, OnThreads
<1> QED
  BY <1>3, <1>4, <1>5, <1>6, <1>7, <1>8, <1>9 DEF NextCommand

\* Numbers a divisor apart have quotients apart, and quotients grow.
LEMMA QuotientsApart ==
  ASSUME NEW a \in Nat, NEW b \in Nat, NEW d \in Nat \ {0}
  PROVE  /\ a \div d \in Nat
         /\ a >= b + d => a \div d # b \div d
         /\ a <= b => a \div d <= b \div d
<1> DEFINE p == a \div d
           q == b \div d
<1>1. p \in Nat /\ d * p <= a /\ a < d * p + d
  OBVIOUS
<1>2. q \in Nat /\ d * q <= b /\ b < d * q + d
  OBVIOUS
<1> HIDE DEF p, q
<1>3. ASSUME a >= b + d PROVE p # q
  BY <1>1, <1>2, <1>3
<1>4. ASSUME a <= b, q < p PROVE FALSE
  <2>1. q + 1 <= p
    BY <1>1, <1>2, <1>4
  <2>2. d * (q + 1) <= d * p
    BY <1>1, <1>2, <2>1
  <2>3. d * (q + 1) = d * q + d
    BY <1>2
  <2> QED
    BY <1>1, <1>2, <1>4, <2>2, <2>3
<1> QED
  BY <1>1, <1>2, <1>3, <1>4 DEF p, q

\* The threads of a target are of different periods of two intervals, and there
\* are only so many until the resolver and the echo are over.
LEMMA FewThreads == ThreadsInv /\ CommandInv => ThreadsAreFew
<1> SUFFICES ASSUME ThreadsEnd, ThreadsAreApart, Watching PROVE ThreadsAreFew
  BY DEF ThreadsInv, CommandInv
<1> DEFINE period == 2 * Interval
           longest == MaxResolve + Interval
           Periods == 0..(longest \div period)
           place == [thread \in threads |-> <<thread.of, thread.age \div period>>]
<1>1. period \in Nat \ {0} /\ longest \in Nat /\ Interval \in Nat /\ MaxResolve \in Nat
  BY PingCommandConstants
<1>2. longest \div period \in Nat
  BY <1>1, QuotientsApart
<1>3. ASSUME NEW thread \in threads
      PROVE  /\ thread.of \in OnThreads /\ thread.age \in Nat /\ thread.tick \in Nat
             /\ thread.age <= longest
  BY <1>1, <1>3 DEF ThreadsEnd
<1>4. ASSUME NEW one \in threads, NEW other \in threads
      PROVE  /\ one.of = other.of /\ one.tick = other.tick => one = other
             /\ one.tick < other.tick => one.age >= other.age + period
  BY DEF ThreadsAreApart
<1> HIDE DEF period, longest
<1>5. ASSUME NEW thread \in threads PROVE thread.age \div period \in Periods
  <2>1. thread.age \div period \in Nat /\ thread.age \div period <= longest \div period
    BY <1>1, <1>3, QuotientsApart
  <2> QED
    BY <1>2, <2>1
<1>6. ASSUME NEW one \in threads, NEW other \in threads, place[one] = place[other]
      PROVE  one = other
  <2>1. one.of = other.of /\ one.age \div period = other.age \div period
    BY <1>6
  <2>2. ~(one.age >= other.age + period) /\ ~(other.age >= one.age + period)
    BY <1>1, <1>3, <2>1, QuotientsApart
  <2>3. one.tick = other.tick
    BY <1>3, <1>4, <2>2
  <2> QED
    BY <1>4, <2>1, <2>3
<1>7. place \in Injection(threads, OnThreads \X Periods)
  <2>1. place \in [threads -> OnThreads \X Periods]
    BY <1>3, <1>5
  <2> QED
    BY <1>6, <2>1 DEF Injection, IsInjective
<1>8. IsFiniteSet(OnThreads) /\ Cardinality(OnThreads) \in Nat
  BY FS_Subset, FS_CardinalityType DEF Watching, OnThreads
<1>9. IsFiniteSet(Periods) /\ Cardinality(Periods) = 1 + (longest \div period)
  BY <1>2, FS_Interval
<1> HIDE DEF Periods, place
<1>10. /\ IsFiniteSet(OnThreads \X Periods)
       /\ Cardinality(OnThreads \X Periods) = Cardinality(OnThreads) * Cardinality(Periods)
  BY <1>8, <1>9, FS_Product
<1>11. Cardinality(threads) <= Cardinality(OnThreads) * (1 + (longest \div period))
  BY <1>7, <1>9, <1>10, FS_Injection
<1> QED
  BY <1>11 DEF ThreadsAreFew, OnThreads, longest, period

LEMMA WholeTicks == CommandInv => TickIsWhole
<1> SUFFICES ASSUME TicksTypeOK, ProbesAreOfTheTick, ProbesAreInTime, OneSampleEach
             PROVE  TickIsWhole
  BY DEF CommandInv
<1>1. age \in Nat /\ Interval \in Nat /\ tick \in Nat
  BY PingCommandConstants DEF TicksTypeOK
<1>2. ASSUME NEW t \in 1..(IF stage = "probing" THEN tick - 1 ELSE tick), NEW i \in DOMAIN watched
      PROVE  Cardinality({row \in rows \cup unsaved : row.tick = t /\ row.of = i}) = 1
  <2>1. Done(t, i) /\ t \in 1..tick
    BY <1>1, <1>2 DEF Done
  <2>2. PICK row \in rows \cup unsaved : row.tick = t /\ row.of = i
    BY <2>1 DEF OneSampleEach
  <2>3. {other \in rows \cup unsaved : other.tick = t /\ other.of = i} = {row}
    BY <2>2 DEF OneSampleEach
  <2> QED
    BY <2>3, FS_Singleton
<1>3. ASSUME stage = "probing", age > Interval, NEW i \in DOMAIN probes PROVE ~Running(probes[i])
  BY <1>1, <1>3 DEF ProbesAreInTime, ProbesAreOfTheTick, ProbeTypes
<1> QED
  BY <1>2, <1>3 DEF TickIsWhole

\* The types, with the same invariants.
THEOREM CommandTypeCorrect == SpecCommand => []CommandTypeOK
<1>1. ASSUME CommandInv PROVE CommandTypeOK
  <2>1. Interval \in Nat /\ MaxStall \in Nat /\ MaxSeconds \in Nat
    BY PingCommandConstants
  <2>2. age \in 0..(2 * Interval + MaxStall)
    BY <1>1, <2>1 DEF CommandInv, TicksTypeOK
  <2>3. \A i \in DOMAIN probes : probes[i].rtt = Lost \/ probes[i].rtt \in 0..Interval
    BY <1>1 DEF CommandInv, ProbesAreOfTheTick, ProbeTypes
  <2> QED
    BY <1>1, <2>2, <2>3 DEF CommandTypeOK, CommandInv, Watching, TicksTypeOK, OneSampleEach
<1> QED
  BY <1>1, CommandInvInit, CommandInvStep, ThreadsInvStep, PTL DEF SpecCommand

\* Every tick that is over has one sample of each target, in however many ticks
\* and for any interval and any targets.
THEOREM TicksAreWhole == SpecCommand => []TickIsWhole
BY WholeTicks, CommandInvInit, CommandInvStep, ThreadsInvStep, PTL DEF SpecCommand

\* The threads that nobody waits for stay few for as long as the command runs: a
\* bound of the targets and the resolver alone.
THEOREM ThreadsStayFew == SpecCommand => []ThreadsAreFew
BY FewThreads, CommandInvInit, CommandInvStep, ThreadsInvStep, PTL DEF SpecCommand

-----------------------------------------------------------------------------
(* ContinuousScreen: any rounds, any number of reads on their way, any      *)
(* order of their answers.                                                  *)

ChartTasks ==
  [kind: {"chart"}, asked: {Nothing}, answer: {Nothing} \cup Answers, overtaken: BOOLEAN]

\* The rows hold every round of the app that is not older than a week by now.
Fresh(drawn) ==
  \A row \in rounds : row.by = "app" /\ row.at >= Back(clock, "Week") => row \in drawn

ReadsTypeOK ==
  /\ clock \in Instants
  /\ rounds \subseteq Rounds /\ IsFiniteSet(rounds)
  /\ tasks \in Seq(ChartTasks)
  /\ ChartTypeOK

\* Nothing is stored ahead of its time, nothing is read that is not stored.
ReadsAreStored ==
  /\ \A row \in rounds : row.at <= clock
  /\ \A i \in DOMAIN tasks : tasks[i].answer # Nothing => tasks[i].answer.rows \subseteq rounds

\* With a question, all before it are overtaken.
OvertakenInOrder ==
  \A i, j \in DOMAIN tasks : i < j /\ tasks[j].overtaken => tasks[i].overtaken

\* The answer to the question asked last is fresh: a round of the app finished
\* after it was asked would have asked another.
LastIsFresh ==
  \A i \in DOMAIN tasks :
    /\ i = Len(tasks) /\ ~tasks[i].overtaken
    /\ tasks[i].answer # Nothing /\ tasks[i].answer.ok
    => Fresh(tasks[i].answer.rows)

\* So is the chart once that answer has been applied: what is still on its way
\* was asked before.
ChartIsFresh ==
  /\ \A i \in DOMAIN tasks : tasks[i].overtaken
  /\ chart_read # Nothing /\ chart_read.ok /\ ~chart_read.overtaken
  => Fresh(chart_rows)

ChartInv ==
  /\ ReadsTypeOK
  /\ ReadsAreStored
  /\ OvertakenInOrder
  /\ LastIsFresh
  /\ ChartIsFresh

\* The start of a range lies a fixed time before its end, or at zero.
LEMMA BackIsBefore ==
  ASSUME NEW range \in {"Hour", "SixHours", "Day", "Week"}
  PROVE  /\ range_duration(range) \in Nat
         /\ \A at \in Nat : Back(at, range) \in Nat /\ Back(at, range) <= at
         /\ \A at, later \in Nat : at <= later => Back(at, range) <= Back(later, range)
         /\ \A at, newer \in Nat : newer - at <= range_duration(range) => at >= Back(newer, range)
<1>1. range_duration(range) \in Nat
  BY DEF range_duration
<1> DEFINE length == range_duration(range)
<1> HIDE DEF length
<1>2. length \in Nat
  BY <1>1 DEF length
<1>3. \A at : Back(at, range) = IF at > length THEN at - length ELSE 0
  BY DEF Back, length
<1> QED
  BY <1>1, <1>2, <1>3 DEF length

\* Removing an element moves the later ones down by one.
LEMMA RemovedMoves ==
  ASSUME NEW S, NEW seq \in Seq(S), NEW i \in 1..Len(seq)
  PROVE  /\ RemoveAt(seq, i) \in Seq(S)
         /\ Len(RemoveAt(seq, i)) = Len(seq) - 1
         /\ \A j \in 1..(Len(seq) - 1) :
              RemoveAt(seq, i)[j] = IF j < i THEN seq[j] ELSE seq[j + 1]
<1> DEFINE head == SubSeq(seq, 1, i - 1)
           tail == SubSeq(seq, i + 1, Len(seq))
<1>1. /\ head \in Seq(S) /\ Len(head) = i - 1
      /\ \A j \in 1..(i - 1) : head[j] = seq[j]
  <2>1. \A j \in 1..(i - 1) : seq[j] \in S
    BY ElementOfSeq
  <2> QED
    BY <2>1, SubSeqProperties
<1>2. /\ tail \in Seq(S) /\ Len(tail) = Len(seq) - i
      /\ \A j \in 1..(Len(seq) - i) : tail[j] = seq[i + j]
  <2>1. \A j \in (i + 1)..Len(seq) : seq[j] \in S
    BY ElementOfSeq
  <2> QED
    BY <2>1, SubSeqProperties
<1> HIDE DEF head, tail
<1>3. head \o tail \in Seq(S) /\ Len(head \o tail) = Len(seq) - 1
  BY <1>1, <1>2, ConcatProperties
<1>4. \A j \in 1..(Len(seq) - 1) : (head \o tail)[j] = IF j < i THEN seq[j] ELSE seq[j + 1]
  BY <1>1, <1>2, ConcatProperties
<1>5. RemoveAt(seq, i) = head \o tail
  BY DEF RemoveAt, head, tail
<1> QED
  BY <1>3, <1>4, <1>5

\* A question of the chart, from now on the last one.
LEMMA AskedIsLast ==
  ASSUME tasks \in Seq(ChartTasks), tasks' = Append(tasks, load_chart_task)
  PROVE  /\ tasks' \in Seq(ChartTasks)
         /\ Len(tasks') = Len(tasks) + 1
         /\ \A i \in DOMAIN tasks : i \in DOMAIN tasks' /\ tasks'[i] = tasks[i]
         /\ \A i \in DOMAIN tasks' :
              \/ i \in DOMAIN tasks /\ i < Len(tasks')
              \/ i = Len(tasks') /\ tasks'[i] = load_chart_task
<1>1. load_chart_task \in ChartTasks
  BY DEF load_chart_task, Task, ChartTasks
<1>2. /\ tasks' \in Seq(ChartTasks)
      /\ Len(tasks') = Len(tasks) + 1
      /\ \A i \in 1..Len(tasks) : tasks'[i] = tasks[i]
      /\ tasks'[Len(tasks) + 1] = load_chart_task
  BY <1>1, AppendProperties
<1>3. DOMAIN tasks = 1..Len(tasks) /\ DOMAIN tasks' = 1..Len(tasks') /\ Len(tasks) \in Nat
  BY <1>2, LenProperties
<1> HIDE DEF load_chart_task
<1> QED
  BY <1>2, <1>3

LEMMA ChartInvInit ==
  ASSUME InitRounds, tasks = <<load_chart_task>>, InitChart
  PROVE  ChartInv
<1>1. clock \in Instants /\ rounds = {}
  BY DEF InitRounds
<1>2. tasks \in Seq(ChartTasks) /\ Len(tasks) = 1 /\ tasks[1] = load_chart_task /\ DOMAIN tasks = {1}
  BY DEF load_chart_task, Task, ChartTasks
<1>3. chart_rows = {} /\ chart_read = Nothing /\ ChartTypeOK
  BY <1>1 DEF InitChart, ChartTypeOK, Memories
<1>4. tasks[1].answer = Nothing /\ ~tasks[1].overtaken
  BY <1>2 DEF load_chart_task, Task
<1>5. ReadsTypeOK
  BY <1>1, <1>2, <1>3, FS_EmptySet DEF ReadsTypeOK
<1> QED
  BY <1>1, <1>2, <1>3, <1>4, <1>5
     DEF ChartInv, ReadsAreStored, OvertakenInOrder, LastIsFresh, ChartIsFresh

\* A stored round is one of Rounds, of this moment.
LEMMA StoredIsRound ==
  ASSUME NEW writer \in Writers, insert_round(writer), ReadsTypeOK, ReadsAreStored
  PROVE  /\ rounds' \subseteq Rounds /\ IsFiniteSet(rounds')
         /\ rounds \subseteq rounds' /\ clock' = clock
         /\ \A row \in rounds' : row \in rounds \/ row.by = writer
         /\ \A row \in rounds' : row.at <= clock
<1> DEFINE new == [id |-> Cardinality(rounds) + 1, at |-> clock, by |-> writer]
<1>1. rounds' = rounds \cup {new} /\ clock' = clock /\ Cardinality(rounds) < MaxRounds
  BY DEF insert_round
<1>2. IsFiniteSet(rounds) /\ rounds \subseteq Rounds /\ clock \in Instants
  BY DEF ReadsTypeOK
<1>3. Cardinality(rounds) \in Nat /\ IsFiniteSet(rounds \cup {new})
  BY <1>2, FS_CardinalityType, FS_AddElement
<1>4. new \in Rounds
  BY <1>1, <1>2, <1>3, StoredRoundsConstants DEF Rounds
<1>5. new.at = clock /\ new.by = writer /\ clock \in Nat
  BY <1>2, StoredRoundsConstants
<1>6. \A row \in rounds : row.at <= clock
  BY DEF ReadsAreStored
<1> HIDE DEF new
<1> QED
  BY <1>1, <1>2, <1>3, <1>4, <1>5, <1>6

\* Asking once more keeps all of it, whatever is stored with the question: the
\* answer that has to be fresh is yet to come.
LEMMA AskedKeeps ==
  ASSUME ChartInv, tasks' = Append(tasks, load_chart_task),
         clock' = clock, rounds' \subseteq Rounds, IsFiniteSet(rounds'), rounds \subseteq rounds',
         \A row \in rounds' : row.at <= clock,
         UNCHANGED <<time_range, chart_rows, load_error, chart_read>>
  PROVE  ChartInv'
<1>1. ReadsTypeOK /\ ReadsAreStored /\ OvertakenInOrder
  BY DEF ChartInv
<1>2. /\ tasks' \in Seq(ChartTasks)
      /\ Len(tasks') = Len(tasks) + 1
      /\ \A i \in DOMAIN tasks : i \in DOMAIN tasks' /\ tasks'[i] = tasks[i]
      /\ \A i \in DOMAIN tasks' :
           \/ i \in DOMAIN tasks /\ i < Len(tasks')
           \/ i = Len(tasks') /\ tasks'[i] = load_chart_task
  BY <1>1, AskedIsLast DEF ReadsTypeOK
<1>3. load_chart_task.answer = Nothing /\ load_chart_task.overtaken = FALSE
  BY DEF load_chart_task, Task
<1>4. ReadsTypeOK'
  BY <1>1, <1>2 DEF ReadsTypeOK, ChartTypeOK
<1>5. DOMAIN tasks = 1..Len(tasks) /\ DOMAIN tasks' = 1..Len(tasks')
      /\ Len(tasks) \in Nat
  BY <1>1, <1>2, LenProperties DEF ReadsTypeOK
<1>6. ReadsAreStored'
  <2>1. \A row \in rounds' : row.at <= clock'
    OBVIOUS
  <2>2. ASSUME NEW i \in DOMAIN tasks', tasks'[i].answer # Nothing
        PROVE  tasks'[i].answer.rows \subseteq rounds'
    BY <1>1, <1>2, <1>3, <2>2 DEF ReadsAreStored
  <2> QED
    BY <2>1, <2>2 DEF ReadsAreStored
<1>7. OvertakenInOrder'
  <2> SUFFICES ASSUME NEW i \in DOMAIN tasks', NEW j \in DOMAIN tasks', i < j, tasks'[j].overtaken
               PROVE  tasks'[i].overtaken
    BY DEF OvertakenInOrder
  <2>1. j \in DOMAIN tasks /\ tasks'[j] = tasks[j]
    BY <1>2, <1>3
  <2>2. i \in DOMAIN tasks /\ tasks'[i] = tasks[i]
    BY <1>2, <1>5, <2>1
  <2> QED
    BY <1>1, <2>1, <2>2 DEF OvertakenInOrder
<1>8. LastIsFresh'
  <2>1. \A i \in DOMAIN tasks' : i = Len(tasks') => tasks'[i].answer = Nothing
    BY <1>2, <1>3, <1>5
  <2> QED
    BY <2>1 DEF LastIsFresh
<1>9. ChartIsFresh'
  <2>1. Len(tasks') \in DOMAIN tasks' /\ ~tasks'[Len(tasks')].overtaken
    BY <1>2, <1>3, <1>5
  <2> QED
    BY <2>1 DEF ChartIsFresh
<1> QED
  BY <1>4, <1>6, <1>7, <1>8, <1>9 DEF ChartInv

LEMMA ChartFinished == ChartInv /\ on_round_finished => ChartInv'
<1> SUFFICES ASSUME ChartInv, on_round_finished PROVE ChartInv'
  OBVIOUS
<1>1. ReadsTypeOK /\ ReadsAreStored /\ OvertakenInOrder
  BY DEF ChartInv
<1>2. /\ insert_round("app") /\ tasks' = Append(tasks, load_chart_task)
      /\ UNCHANGED <<time_range, chart_rows, load_error, chart_read>>
  BY DEF on_round_finished
<1>3. /\ rounds' \subseteq Rounds /\ IsFiniteSet(rounds')
      /\ rounds \subseteq rounds' /\ clock' = clock
      /\ \A row \in rounds' : row.at <= clock
  BY <1>1, <1>2, StoredIsRound DEF Writers
<1> QED
  BY <1>1, <1>2, <1>3, AskedKeeps

LEMMA ChartStored == ChartInv /\ CliStores => ChartInv'
<1> SUFFICES ASSUME ChartInv, CliStores PROVE ChartInv'
  OBVIOUS
<1>1. ReadsTypeOK /\ ReadsAreStored /\ OvertakenInOrder /\ LastIsFresh /\ ChartIsFresh
  BY DEF ChartInv
<1>2. /\ insert_round("cli")
      /\ tasks' = tasks /\ time_range' = time_range
      /\ chart_rows' = chart_rows /\ load_error' = load_error /\ chart_read' = chart_read
  BY DEF CliStores
<1>3. /\ rounds' \subseteq Rounds /\ IsFiniteSet(rounds')
      /\ rounds \subseteq rounds' /\ clock' = clock
      /\ \A row \in rounds' : row \in rounds \/ row.by = "cli"
      /\ \A row \in rounds' : row.at <= clock
  BY <1>1, <1>2, StoredIsRound DEF Writers
<1>4. \A drawn : Fresh(drawn) => Fresh(drawn)'
  BY <1>3 DEF Fresh
<1>5. ReadsTypeOK'
  BY <1>1, <1>2, <1>3 DEF ReadsTypeOK, ChartTypeOK
<1>6. ReadsAreStored' /\ OvertakenInOrder'
  BY <1>1, <1>2, <1>3 DEF ReadsAreStored, OvertakenInOrder
<1>7. LastIsFresh'
  BY <1>1, <1>2, <1>4 DEF LastIsFresh
<1>8. ChartIsFresh'
  BY <1>1, <1>2, <1>4 DEF ChartIsFresh
<1> QED
  BY <1>5, <1>6, <1>7, <1>8 DEF ChartInv

LEMMA ChartPassed == ChartInv /\ TimePassesOnChart => ChartInv'
<1> SUFFICES ASSUME ChartInv, TimePassesOnChart PROVE ChartInv'
  OBVIOUS
<1>1. ReadsTypeOK /\ ReadsAreStored /\ OvertakenInOrder /\ LastIsFresh /\ ChartIsFresh
  BY DEF ChartInv
<1>2. /\ clock' \in Instants /\ clock' > clock
      /\ rounds' = rounds /\ tasks' = tasks /\ time_range' = time_range
      /\ chart_rows' = chart_rows /\ load_error' = load_error /\ chart_read' = chart_read
  BY DEF TimePassesOnChart, Pass
<1>3. /\ clock \in Nat /\ clock' \in Nat /\ \A row \in rounds : row.at \in Nat
  BY <1>1, <1>2, StoredRoundsConstants DEF ReadsTypeOK, Rounds
<1>4. \A drawn : Fresh(drawn) => Fresh(drawn)'
  <2> DEFINE earlier == Back(clock, "Week")
             after == Back(clock', "Week")
  <2>1. earlier \in Nat /\ after \in Nat /\ earlier <= after
    <3>1. /\ \A at \in Nat : Back(at, "Week") \in Nat
          /\ \A at, later \in Nat : at <= later => Back(at, "Week") <= Back(later, "Week")
      BY BackIsBefore
    <3>2. clock <= clock'
      BY <1>2, <1>3
    <3> QED
      BY <1>3, <3>1, <3>2
  <2> SUFFICES ASSUME NEW drawn, Fresh(drawn), NEW row \in rounds, row.by = "app", row.at >= after
               PROVE  row \in drawn
    BY <1>2 DEF Fresh
  <2>2. row.at >= earlier
    <3> HIDE DEF earlier, after
    <3> QED BY <1>3, <2>1
  <2> QED
    BY <2>2 DEF Fresh
<1>5. ReadsTypeOK'
  BY <1>1, <1>2 DEF ReadsTypeOK, ChartTypeOK
<1>6. ReadsAreStored' /\ OvertakenInOrder'
  BY <1>1, <1>2, <1>3 DEF ReadsAreStored, OvertakenInOrder
<1>7. LastIsFresh'
  BY <1>1, <1>2, <1>4 DEF LastIsFresh
<1>8. ChartIsFresh'
  BY <1>1, <1>2, <1>4 DEF ChartIsFresh
<1> QED
  BY <1>5, <1>6, <1>7, <1>8 DEF ChartInv

\* A read finds what the app has stored within the week.
LEMMA ReadIsFresh ==
  ASSUME ReadsTypeOK, ReadsAreStored
  PROVE  Fresh(rounds_between([from |-> Back(clock, "Week"), to |-> clock]))
BY DEF ReadsTypeOK, ReadsAreStored, Fresh, rounds_between

LEMMA ChartAnswered ==
  ASSUME ChartInv, NEW i \in DOMAIN tasks, load_recent_rounds(i)
  PROVE  ChartInv'
<1>1. ReadsTypeOK /\ ReadsAreStored /\ OvertakenInOrder /\ LastIsFresh /\ ChartIsFresh
  BY DEF ChartInv
<1> DEFINE week == rounds_between([from |-> Back(clock, "Week"), to |-> clock])
           given(ok) == [ok |-> ok, rows |-> IF ok THEN week ELSE {},
                         stored |-> IF ok THEN rounds ELSE {}]
<1>2. PICK ok \in BOOLEAN : tasks' = [tasks EXCEPT ![i].answer = given(ok)]
  BY DEF load_recent_rounds, Answer_
<1>3. /\ clock' = clock /\ rounds' = rounds /\ time_range' = time_range
      /\ chart_rows' = chart_rows /\ load_error' = load_error /\ chart_read' = chart_read
  BY DEF load_recent_rounds, Answer_
<1>4. Fresh(week) /\ week \subseteq rounds /\ \A drawn : Fresh(drawn)' = Fresh(drawn)
  BY <1>1, <1>3, ReadIsFresh DEF rounds_between, Fresh
<1>5. rounds \subseteq Rounds
  BY <1>1 DEF ReadsTypeOK
<1> HIDE DEF week
<1>6. given(ok) \in Answers /\ given(ok).rows \subseteq rounds /\ (given(ok).ok => given(ok).rows = week)
  BY <1>4, <1>5 DEF Answers
<1> HIDE DEF given
<1>7. /\ tasks \in Seq(ChartTasks) /\ DOMAIN tasks = 1..Len(tasks) /\ Len(tasks) \in Nat
      /\ \A j \in DOMAIN tasks : tasks[j] \in ChartTasks
  BY <1>1, LenProperties, ElementOfSeq DEF ReadsTypeOK
<1>8. /\ tasks' \in Seq(ChartTasks)
      /\ DOMAIN tasks' = DOMAIN tasks /\ Len(tasks') = Len(tasks)
      /\ \A j \in DOMAIN tasks : tasks'[j].overtaken = tasks[j].overtaken
      /\ tasks'[i].answer = given(ok)
      /\ \A j \in DOMAIN tasks : j # i => tasks'[j] = tasks[j]
  <2>1. /\ DOMAIN tasks' = DOMAIN tasks
        /\ tasks'[i] = [tasks[i] EXCEPT !.answer = given(ok)]
        /\ \A j \in DOMAIN tasks : j # i => tasks'[j] = tasks[j]
    BY <1>2, <1>7
  <2>2. [tasks[i] EXCEPT !.answer = given(ok)] \in ChartTasks
    BY <1>6, <1>7 DEF ChartTasks
  <2>3. /\ [tasks[i] EXCEPT !.answer = given(ok)].answer = given(ok)
        /\ [tasks[i] EXCEPT !.answer = given(ok)].overtaken = tasks[i].overtaken
    BY <1>7 DEF ChartTasks
  <2>4. tasks' = [j \in 1..Len(tasks) |-> tasks'[j]] /\ \A j \in 1..Len(tasks) : tasks'[j] \in ChartTasks
    BY <1>2, <1>7, <2>1, <2>2
  <2>5. tasks' \in Seq(ChartTasks)
    BY <1>7, <2>4, SeqDef
  <2>6. Len(tasks') = Len(tasks)
    BY <1>7, <2>1, <2>5, LenProperties
  <2> QED
    BY <2>1, <2>3, <2>5, <2>6
<1>9. ReadsTypeOK'
  BY <1>1, <1>3, <1>8 DEF ReadsTypeOK, ChartTypeOK
<1>10. ReadsAreStored' /\ OvertakenInOrder'
  BY <1>1, <1>3, <1>6, <1>8 DEF ReadsAreStored, OvertakenInOrder
<1>11. LastIsFresh'
  BY <1>1, <1>3, <1>4, <1>6, <1>8 DEF LastIsFresh
<1>12. ChartIsFresh'
  BY <1>1, <1>3, <1>4, <1>8 DEF ChartIsFresh
<1> QED
  BY <1>9, <1>10, <1>11, <1>12 DEF ChartInv

\* Where an answer is taken from: the tasks before it are overtaken, those
\* behind it move down.
LEMMA DeliveredMoves ==
  ASSUME tasks \in Seq(ChartTasks), NEW i \in DOMAIN tasks, Delivered(i, "chart")
  PROVE  /\ tasks' \in Seq(ChartTasks)
         /\ Len(tasks') = Len(tasks) - 1
         /\ \A j \in DOMAIN tasks' :
              /\ j < i => /\ j \in DOMAIN tasks
                          /\ tasks'[j].overtaken /\ tasks'[j].answer = tasks[j].answer
              /\ j >= i => j + 1 \in DOMAIN tasks /\ tasks'[j] = tasks[j + 1]
<1> DEFINE marked(j) == [tasks[j] EXCEPT !.overtaken = TRUE]
           seq == [j \in DOMAIN tasks |->
                     IF j < i /\ tasks[j].kind = "chart" THEN marked(j) ELSE tasks[j]]
<1>1. tasks' = RemoveAt(seq, i)
  BY DEF Delivered
<1>2. /\ DOMAIN tasks = 1..Len(tasks) /\ Len(tasks) \in Nat
      /\ \A j \in DOMAIN tasks : tasks[j] \in ChartTasks
  BY LenProperties, ElementOfSeq
<1>3. \A j \in DOMAIN tasks : /\ marked(j) \in ChartTasks /\ marked(j).overtaken
                              /\ marked(j).answer = tasks[j].answer
                              /\ tasks[j].kind = "chart"
  BY <1>2 DEF ChartTasks
<1> HIDE DEF marked
<1>4. \A j \in DOMAIN tasks : seq[j] = IF j < i THEN marked(j) ELSE tasks[j]
  BY <1>3
<1>5. seq \in Seq(ChartTasks) /\ Len(seq) = Len(tasks)
  <2>1. seq = [j \in 1..Len(tasks) |-> seq[j]] /\ \A j \in 1..Len(tasks) : seq[j] \in ChartTasks
    BY <1>2, <1>3, <1>4
  <2>2. seq \in Seq(ChartTasks)
    BY <1>2, <2>1, SeqDef
  <2> QED
    BY <1>2, <2>1, <2>2, LenProperties
<1> HIDE DEF seq
<1>6. /\ tasks' \in Seq(ChartTasks) /\ Len(tasks') = Len(tasks) - 1
      /\ \A j \in 1..(Len(tasks) - 1) : tasks'[j] = IF j < i THEN seq[j] ELSE seq[j + 1]
  BY <1>1, <1>2, <1>5, RemovedMoves
<1>7. DOMAIN tasks' = 1..(Len(tasks) - 1)
  BY <1>6, LenProperties
<1>8. ASSUME NEW j \in DOMAIN tasks', j < i
      PROVE  /\ j \in DOMAIN tasks /\ tasks'[j].overtaken /\ tasks'[j].answer = tasks[j].answer
  <2>1. j \in DOMAIN tasks /\ tasks'[j] = marked(j)
    BY <1>2, <1>4, <1>6, <1>7, <1>8
  <2> QED
    BY <1>3, <2>1
<1>9. ASSUME NEW j \in DOMAIN tasks', j >= i
      PROVE  j + 1 \in DOMAIN tasks /\ tasks'[j] = tasks[j + 1]
  <2>1. j \in Nat /\ j + 1 \in DOMAIN tasks /\ ~(j < i) /\ ~(j + 1 < i)
    BY <1>2, <1>7, <1>9
  <2> QED
    BY <1>4, <1>6, <1>7, <2>1
<1> QED
  BY <1>6, <1>8, <1>9

LEMMA ChartApplied ==
  ASSUME ChartInv, NEW i \in DOMAIN tasks, ChartLoaded(i)
  PROVE  ChartInv'
<1>1. ReadsTypeOK /\ ReadsAreStored /\ OvertakenInOrder /\ LastIsFresh /\ ChartIsFresh
  BY DEF ChartInv
<1> DEFINE answer == tasks[i].answer
           memory == Remembered(tasks[i])
<1>2. /\ clock' = clock /\ rounds' = rounds /\ time_range' = time_range
      /\ chart_rows' = (IF answer.ok THEN answer.rows ELSE chart_rows)
      /\ load_error' = ~answer.ok
      /\ chart_read' = memory
      /\ answer # Nothing
      /\ Delivered(i, "chart")
  BY DEF ChartLoaded, Delivered
<1>3. /\ tasks \in Seq(ChartTasks) /\ DOMAIN tasks = 1..Len(tasks) /\ Len(tasks) \in Nat
      /\ tasks[i] \in ChartTasks
  BY <1>1, LenProperties, ElementOfSeq DEF ReadsTypeOK
<1>4. answer \in Answers /\ tasks[i].overtaken \in BOOLEAN /\ answer.rows \subseteq rounds
  BY <1>1, <1>2, <1>3 DEF ChartTasks, ReadsAreStored
<1>5. /\ memory \in Memories
      /\ memory.ok = answer.ok /\ memory.overtaken = tasks[i].overtaken
  BY <1>4 DEF Remembered, Memories, Answers
<1>6. /\ tasks' \in Seq(ChartTasks)
      /\ Len(tasks') = Len(tasks) - 1
      /\ \A j \in DOMAIN tasks' :
           /\ j < i => /\ j \in DOMAIN tasks
                       /\ tasks'[j].overtaken /\ tasks'[j].answer = tasks[j].answer
           /\ j >= i => j + 1 \in DOMAIN tasks /\ tasks'[j] = tasks[j + 1]
  BY <1>2, <1>3, DeliveredMoves
<1>7. DOMAIN tasks' = 1..Len(tasks')
  BY <1>6, LenProperties
<1>8. \A drawn : Fresh(drawn)' = Fresh(drawn)
  BY <1>2 DEF Fresh
<1>9. answer.ok \in BOOLEAN
  BY <1>4 DEF Answers
<1> HIDE DEF answer, memory
<1>10. ReadsTypeOK'
  <2>1. chart_rows' \subseteq rounds /\ load_error' \in BOOLEAN /\ chart_read' \in Memories
    BY <1>1, <1>2, <1>4, <1>5 DEF ReadsTypeOK, ChartTypeOK
  <2> QED
    BY <1>1, <1>2, <1>6, <2>1 DEF ReadsTypeOK, ChartTypeOK
<1>11. ReadsAreStored'
  <2>1. ASSUME NEW j \in DOMAIN tasks', tasks'[j].answer # Nothing
        PROVE  tasks'[j].answer.rows \subseteq rounds
    <3>1. CASE j < i
      BY <1>1, <1>6, <2>1, <3>1 DEF ReadsAreStored
    <3>2. CASE j >= i
      BY <1>1, <1>6, <2>1, <3>2 DEF ReadsAreStored
    <3> QED
      BY <1>3, <1>7, <3>1, <3>2
  <2> QED
    BY <1>1, <1>2, <2>1 DEF ReadsAreStored
<1>12. OvertakenInOrder'
  <2> SUFFICES ASSUME NEW j \in DOMAIN tasks', NEW k \in DOMAIN tasks', j < k, tasks'[k].overtaken
               PROVE  tasks'[j].overtaken
    BY DEF OvertakenInOrder
  <2>1. CASE j < i
    BY <1>6, <2>1
  <2>2. CASE j >= i
    <3>1. k >= i /\ j + 1 < k + 1
      BY <1>3, <1>7, <2>2
    <3> QED
      BY <1>1, <1>6, <2>2, <3>1 DEF OvertakenInOrder
  <2> QED
    BY <1>3, <1>7, <2>1, <2>2
<1>13. LastIsFresh'
  <2> SUFFICES ASSUME NEW j \in DOMAIN tasks', j = Len(tasks'), ~tasks'[j].overtaken,
                      tasks'[j].answer # Nothing, tasks'[j].answer.ok
               PROVE  Fresh(tasks'[j].answer.rows)
    BY <1>8 DEF LastIsFresh
  <2>1. j >= i
    BY <1>3, <1>6, <1>7
  <2>2. j + 1 \in DOMAIN tasks /\ tasks'[j] = tasks[j + 1] /\ j + 1 = Len(tasks)
    BY <1>3, <1>6, <2>1
  <2> QED
    BY <1>1, <2>2 DEF LastIsFresh
<1>14. ChartIsFresh'
  <2> SUFFICES ASSUME \A j \in DOMAIN tasks' : tasks'[j].overtaken,
                      answer.ok, ~tasks[i].overtaken
               PROVE  Fresh(answer.rows)
    BY <1>2, <1>5, <1>8 DEF ChartIsFresh
  <2>1. i = Len(tasks)
    <3> SUFFICES ASSUME i < Len(tasks) PROVE FALSE
      BY <1>3
    <3>1. Len(tasks') \in DOMAIN tasks' /\ Len(tasks') >= i /\ Len(tasks') + 1 = Len(tasks)
      BY <1>3, <1>6, <1>7
    <3>2. tasks[Len(tasks)].overtaken /\ Len(tasks) \in DOMAIN tasks
      BY <1>6, <3>1
    <3> QED
      BY <1>1, <3>2 DEF OvertakenInOrder
  <2> QED
    BY <1>1, <1>2, <2>1 DEF LastIsFresh, answer
<1> QED
  BY <1>10, <1>11, <1>12, <1>13, <1>14 DEF ChartInv

LEMMA ChartInvStep == ChartInv /\ [NextChart]_chartVars => ChartInv'
<1> SUFFICES ASSUME ChartInv, [NextChart]_chartVars PROVE ChartInv'
  OBVIOUS
<1>1. CASE on_round_finished
  BY <1>1, ChartFinished
<1>2. CASE CliStores
  BY <1>2, ChartStored
<1>3. CASE Resume
  <2>1. /\ tasks' = Append(tasks, load_chart_task) /\ clock' = clock /\ rounds' = rounds
        /\ UNCHANGED <<time_range, chart_rows, load_error, chart_read>>
    BY <1>3 DEF Resume
  <2>2. rounds \subseteq Rounds /\ IsFiniteSet(rounds) /\ \A row \in rounds : row.at <= clock
    BY DEF ChartInv, ReadsTypeOK, ReadsAreStored
  <2> QED
    BY <2>1, <2>2, AskedKeeps
<1>4. ASSUME NEW range \in Ranges, RangeSelected(range) PROVE ChartInv'
  BY <1>4 DEF RangeSelected, roundVars, ChartInv, ReadsTypeOK, ChartTypeOK, ReadsAreStored,
              OvertakenInOrder, LastIsFresh, ChartIsFresh, Fresh
<1>5. ASSUME NEW i \in DOMAIN tasks, load_recent_rounds(i) \/ ChartLoaded(i) PROVE ChartInv'
  BY <1>5, ChartAnswered, ChartApplied
<1>6. CASE TimePassesOnChart
  BY <1>6, ChartPassed
<1>7. CASE UNCHANGED chartVars
  BY <1>7 DEF chartVars, roundVars, ChartInv, ReadsTypeOK, ChartTypeOK, ReadsAreStored,
              OvertakenInOrder, LastIsFresh, ChartIsFresh, Fresh
<1> QED
  BY <1>1, <1>2, <1>3, <1>4, <1>5, <1>6, <1>7 DEF NextChart

\* Without a question left, the rows of the chart are fresh, and those of the
\* range are among them.
LEMMA FreshCatchesUp == ChartInv => ChartCatchesUp
<1> SUFFICES ASSUME ChartInv, Settled("chart", chart_read),
                    NEW row \in rounds, row.by = "app", row.at >= Back(clock, "Week"),
                    \A newer \in rounds : newer.at - row.at <= range_duration(time_range)
             PROVE  row \in bucket(chart_rows, time_range)
  BY DEF ChartCatchesUp
<1>1. ReadsTypeOK /\ ChartIsFresh /\ chart_rows \subseteq rounds
  BY DEF ChartInv, ReadsTypeOK, ChartTypeOK
<1>2. DOMAIN tasks = {}
  <2>1. \A i \in DOMAIN tasks : tasks[i] \in ChartTasks
    BY <1>1, ElementOfSeq, LenProperties DEF ReadsTypeOK
  <2>2. \A i \in DOMAIN tasks : tasks[i].kind = "chart"
    BY <2>1 DEF ChartTasks
  <2> QED
    BY <2>2 DEF Settled
<1>3. row \in chart_rows
  BY <1>1, <1>2 DEF Settled, ChartIsFresh, Fresh
<1>4. /\ time_range \in {"Hour", "SixHours", "Day", "Week"}
      /\ \A other \in rounds : other.at \in Nat
  BY <1>1, ContinuousScreenConstants, StoredRoundsConstants DEF ReadsTypeOK, ChartTypeOK, Rounds
<1>5. ASSUME NEW newer \in chart_rows PROVE row.at >= Back(newer.at, time_range)
  <2>1. newer.at \in Nat /\ row.at \in Nat /\ newer.at - row.at <= range_duration(time_range)
    BY <1>1, <1>4, <1>5
  <2> QED
    BY <1>4, <2>1, BackIsBefore
<1> QED
  BY <1>3, <1>5 DEF bucket

\* ContinuousScreen's types, for any instants and any number of rounds.
THEOREM ChartTypeCorrect == SpecChart => []ChartTypeOK
<1>1. InitRounds /\ tasks = <<load_chart_task>> /\ InitChart => ChartInv
  BY ChartInvInit
<1>2. ChartInv => ChartTypeOK
  BY DEF ChartInv, ReadsTypeOK
<1> QED
  BY <1>1, <1>2, ChartInvStep, PTL DEF SpecChart

\* The chart catches up: whichever order its reads come back in, and whoever
\* stores rounds meanwhile, it draws the app's rounds of the selected range once
\* the answer to the last question has been applied last.
THEOREM ChartCatchesUpAlways == SpecChart => []ChartCatchesUp
<1>1. InitRounds /\ tasks = <<load_chart_task>> /\ InitChart => ChartInv
  BY ChartInvInit
<1> QED
  BY <1>1, FreshCatchesUp, ChartInvStep, PTL DEF SpecChart

-----------------------------------------------------------------------------
(* HomeScreen: any rounds, of either program and any version, in any order  *)
(* of their times, with any number of restarts.                             *)

HomeResults == Measurable \cup OtherRounds

HomeRows ==
  {StoredRow(result, at) : result \in HomeResults, at \in Times}
  \cup {FromV1(StoredRow(result, at)) : result \in HomeResults, at \in Times}
  \cup {FromV2(StoredRow(result, at)) : result \in HomeResults, at \in Times}

\* A live round with an id is the one in the row of that id.
HomeInv ==
  /\ now \in Times
  /\ stored \in Seq(HomeRows)
  /\ last_round # Absent /\ last_round.live /\ Saved(last_round.id) =>
       /\ last_round.id \in DOMAIN stored
       /\ last_round.result \in Measurable
       /\ \E at \in Times : stored[last_round.id] = StoredRow(last_round.result, at)

\* A window that ran has a length, a phase without one has no rate, and a loop of
\* samples has a loss.
PhaseSays(phase) ==
  /\ phase.ping # Absent => phase.ping.loss_pct # Absent
  /\ phase.load # Absent => phase.load.ms # Absent
  /\ phase.load = Absent => phase.rate = Absent

LEMMA PhasesSay ==
  ASSUME NEW label, NEW runs, runs = SampleRuns \/ runs = {<<>>},
         NEW phase \in Phases(label, runs)
  PROVE  PhaseSays(phase)
<1>1. ASSUME NEW samples \in runs, NEW ms \in Loads, NEW rate, NEW capped, NEW failure,
             phase = Ran(label, samples, ms, rate, capped, failure)
      PROVE  PhaseSays(phase)
  <2>1. Len(samples) \in Nat /\ (samples \in SampleRuns \/ Len(samples) = 0)
    BY HomeConstants
  <2>2. ms \in Nat
    BY HomeConstants
  <2>3. phase.load = [ms |-> ms, ping_samples |-> Len(samples)]
    BY <1>1 DEF Ran
  <2>4. phase.load # Absent /\ phase.load.ms # Absent
    BY <2>1, <2>2, <2>3, HomeConstants
  <2>5. phase.ping = IF Len(samples) >= MIN_UNDER_LOAD_SAMPLES THEN stats(samples) ELSE Absent
    BY <1>1 DEF Ran
  <2>6. phase.ping # Absent => phase.ping.loss_pct # Absent
    BY <2>1, <2>5, LossAssumption DEF MIN_UNDER_LOAD_SAMPLES
  <2> QED
    BY <2>4, <2>6 DEF PhaseSays
<1>2. CASE phase = NotRun
  BY <1>2 DEF NotRun, PhaseSays
<1> QED
  <2> DEFINE ran == {Ran(label, samples, ms, rating[1], rating[2], "discarded") :
                       samples \in runs, ms \in Loads, rating \in Ratings}
  <2>1. phase = NotRun \/ phase \in ran
    BY SMT DEF Phases
  <2>2. phase \in ran => PhaseSays(phase)
    BY <1>1, SMT
  <2> QED
    BY <1>2, <2>1, <2>2

\* What a round that was measured may look like.
ResultSays(result) ==
  /\ PhaseSays(result.phase["download"]) /\ PhaseSays(result.phase["upload"])
  /\ result.ping_idle # Absent => result.ping_idle.loss_pct # Absent

LEMMA RoundsSay ==
  ASSUME NEW result \in Measurable
  PROVE  ResultSays(result)
<1>1. ASSUME NEW runs, runs = SampleRuns \/ runs = {<<>>}, NEW phases \in BothPhases(runs)
      PROVE  PhaseSays(phases["download"]) /\ PhaseSays(phases["upload"])
  <2>1. PICK d \in Phases("download", runs), u \in Phases("upload", runs) :
          phases = [label \in PhaseLabel |-> IF label = "download" THEN d ELSE u]
    BY DEF BothPhases
  <2>2. phases["download"] = d /\ phases["upload"] = u
    BY <2>1 DEF PhaseLabel
  <2> QED
    BY <1>1, <2>2, PhasesSay
<1>2. ASSUME NEW idle, NEW why, NEW phases, NEW plan,
             result = RoundOf(idle, why, phases, plan)
      PROVE  result.ping_idle = idle /\ result.phase = phases
  BY <1>2 DEF RoundOf
<1>3. CASE \E idle \in SampleRuns, phases \in BothPhases(SampleRuns) :
             result = RoundOf(stats(idle), {}, phases, {})
  BY <1>1, <1>2, <1>3, LossAssumption DEF ResultSays
<1>4. CASE \E why \in NoTargets, phases \in BothPhases({<<>>}) :
             result = RoundOf(Absent, why, phases, {})
  BY <1>1, <1>2, <1>4 DEF ResultSays
<1>5. CASE \E idle \in SampleRuns :
             result = RoundOf(stats(idle), {}, [label \in PhaseLabel |-> NotRun], Exhausted)
  <2>1. PhaseSays(NotRun)
    BY DEF PhaseSays, NotRun
  <2> QED
    BY <1>2, <1>5, <2>1, LossAssumption DEF ResultSays, PhaseLabel
<1> QED
  <2> DEFINE loaded == {RoundOf(stats(idle), {}, phases, {}) :
                          idle \in SampleRuns, phases \in BothPhases(SampleRuns)}
             unpinged == {RoundOf(Absent, why, phases, {}) :
                            why \in NoTargets, phases \in BothPhases({<<>>})}
             spent == {RoundOf(stats(idle), {}, [label \in PhaseLabel |-> NotRun], Exhausted) :
                         idle \in SampleRuns}
  <2>1. result \in loaded \/ result \in unpinged \/ result \in spent
    BY SMT DEF Measurable
  <2>2. result \in loaded => ResultSays(result)
    BY <1>3, SMT
  <2>3. result \in unpinged => ResultSays(result)
    BY <1>4, SMT
  <2>4. result \in spent => ResultSays(result)
    BY <1>5, SMT
  <2> QED
    BY <2>1, <2>2, <2>3, <2>4

\* The five values of a row are those of the round it was made of.
LEMMA RowTellsTheRound ==
  ASSUME NEW result, ResultSays(result), NEW at
  PROVE  stored_values(StoredRow(result, at)) = live_values(result)
<1> DEFINE row == StoredRow(result, at)
<1>1. /\ row.bps = [label \in PhaseLabel |-> result.phase[label].rate]
      /\ row.ping_idle_ms = ping_avg(result.ping_idle)
      /\ row.ping_ms = [label \in PhaseLabel |-> ping_avg(result.phase[label].ping)]
      /\ row.loss_pct = ping_loss(result.ping_idle)
      /\ row.loss_idle_pct = ping_loss(result.ping_idle)
      /\ row.phase_loss_pct = [label \in PhaseLabel |-> ping_loss(result.phase[label].ping)]
      /\ row.load_ms = [label \in PhaseLabel |->
           IF result.phase[label].load = Absent THEN Absent ELSE result.phase[label].load.ms]
      /\ row.ping_samples = [label \in PhaseLabel |->
           IF result.phase[label].load = Absent THEN Absent
           ELSE result.phase[label].load.ping_samples]
      /\ row.skipped_reason = result.skipped_reason
  BY DEF StoredRow
<1> HIDE DEF row
<1>2. \A label \in PhaseLabel : stored_speed(row, label) = throughput_value(result, label)
  BY <1>1 DEF stored_speed, throughput_value
<1>3. StoredLoss(row) = ping_loss(result.ping_idle)
  BY <1>1 DEF StoredLoss
<1>4. (result.ping_idle = Absent <=> ping_loss(result.ping_idle) = Absent)
      /\ (result.ping_idle = Absent => ping_avg(result.ping_idle) = Absent)
  BY DEF ResultSays, ping_loss, ping_avg
<1> DEFINE pings == [label \in PhaseLabel |-> result.phase[label].ping]
           loads == [label \in PhaseLabel |-> result.phase[label].load]
<1>5. [label \in PhaseLabel |-> ping_avg(pings[label])] = row.ping_ms
  BY <1>1
<1>6. under_load_missing_reason(pings, loads) = stored_load_reason(row)
  <2>1. /\ row.phase_loss_pct["download"] = ping_loss(pings["download"])
        /\ row.phase_loss_pct["upload"] = ping_loss(pings["upload"])
        /\ row.load_ms["download"] =
             (IF loads["download"] = Absent THEN Absent ELSE loads["download"].ms)
        /\ row.load_ms["upload"] =
             (IF loads["upload"] = Absent THEN Absent ELSE loads["upload"].ms)
        /\ row.ping_samples["download"] =
             (IF loads["download"] = Absent THEN Absent ELSE loads["download"].ping_samples)
        /\ row.ping_samples["upload"] =
             (IF loads["upload"] = Absent THEN Absent ELSE loads["upload"].ping_samples)
        /\ row.bps["download"] = result.phase["download"].rate
        /\ row.bps["upload"] = result.phase["upload"].rate
    BY <1>1 DEF PhaseLabel
  <2>2. \A label \in {"download", "upload"} :
          /\ pings[label] # Absent => pings[label].loss_pct # Absent
          /\ loads[label] # Absent => loads[label].ms # Absent
          /\ loads[label] = Absent => result.phase[label].rate = Absent
    BY DEF ResultSays, PhaseSays, PhaseLabel
  <2> HIDE DEF pings, loads
  <2>3. FirstOf(pings) # Absent <=> FirstOf(row.phase_loss_pct) # Absent
    BY <2>1, <2>2 DEF FirstOf, ping_loss
  <2>4. FirstOf(pings) # Absent => FirstOf(pings).loss_pct = FirstOf(row.phase_loss_pct)
    BY <2>1, <2>2 DEF FirstOf, ping_loss
  <2>5. FirstOf(loads) # Absent <=> FirstOf(row.load_ms) # Absent
    BY <2>1, <2>2 DEF FirstOf
  <2>6. ASSUME FirstOf(loads) # Absent, NEW label,
               label = IF row.load_ms["download"] # Absent THEN "download" ELSE "upload"
        PROVE  /\ row.ping_samples[label] = FirstOf(loads).ping_samples
               /\ row.load_ms[label] = FirstOf(loads).ms
    BY <2>1, <2>2, <2>6 DEF FirstOf
  <2>7. FirstOf(loads) = Absent => FirstOf(row.bps) = Absent
    BY <2>1, <2>2 DEF FirstOf
  <2> QED
    BY <2>3, <2>4, <2>5, <2>6, <2>7 DEF under_load_missing_reason, stored_load_reason
<1>7. ping_under_load_value(result) =
        IF ping_load_ms(row) # <<>> THEN Figure(ping_load_ms(row)) ELSE stored_load_reason(row)
  BY <1>5, <1>6 DEF ping_under_load_value, ping_load_ms
<1>8. ping_idle_value(result) =
        CASE row.ping_idle_ms # Absent -> Figure(<<row.ping_idle_ms>>)
          [] row.ping_idle_ms = Absent /\ StoredLoss(row) # Absent -> NoAnswer(StoredLoss(row))
          [] OTHER -> missing_reason(row.skipped_reason, "ping")
  BY <1>1, <1>3, <1>4 DEF ping_idle_value, ping_avg, ping_loss
<1>9. loss_value(result) =
        CASE StoredLoss(row) # Absent -> Figure(<<StoredLoss(row)>>)
          [] StoredLoss(row) = Absent /\ row.ping_idle_ms # Absent ->
               Gap("loss not stored for this round", <<>>)
          [] OTHER -> missing_reason(row.skipped_reason, "ping")
  BY <1>1, <1>3, <1>4 DEF loss_value, ping_loss, ping_avg
<1>10. stored_values(row) = live_values(result)
  BY <1>2, <1>7, <1>8, <1>9 DEF stored_values, live_values, PhaseLabel
<1> QED
  BY <1>10 DEF row

\* Appending is of the rows, and what was stored stays where it was.
LEMMA StoredAppends ==
  ASSUME NEW row \in HomeRows, stored \in Seq(HomeRows)
  PROVE  /\ Append(stored, row) \in Seq(HomeRows)
         /\ Len(Append(stored, row)) \in DOMAIN Append(stored, row)
         /\ Append(stored, row)[Len(Append(stored, row))] = row
         /\ \A i \in DOMAIN stored :
              i \in DOMAIN Append(stored, row) /\ Append(stored, row)[i] = stored[i]
<1>1. /\ Append(stored, row) \in Seq(HomeRows)
      /\ Len(Append(stored, row)) = Len(stored) + 1
      /\ \A i \in 1..Len(stored) : Append(stored, row)[i] = stored[i]
      /\ Append(stored, row)[Len(stored) + 1] = row
  BY AppendProperties
<1>2. DOMAIN stored = 1..Len(stored) /\ Len(stored) \in Nat
      /\ DOMAIN Append(stored, row) = 1..Len(Append(stored, row))
  BY <1>1, LenProperties
<1> QED
  BY <1>1, <1>2

\* Every row says when it was measured.
LEMMA RowsAreOfATime ==
  ASSUME NEW row \in HomeRows
  PROVE  row.started_at \in Times
<1>1. PICK result \in HomeResults, at \in Times :
        \/ row = StoredRow(result, at)
        \/ row = FromV1(StoredRow(result, at))
        \/ row = FromV2(StoredRow(result, at))
  <2> DEFINE new == {StoredRow(result, at) : result \in HomeResults, at \in Times}
             first == {FromV1(StoredRow(result, at)) : result \in HomeResults, at \in Times}
             second == {FromV2(StoredRow(result, at)) : result \in HomeResults, at \in Times}
  <2>1. row \in new \/ row \in first \/ row \in second
    BY SMT DEF HomeRows
  <2>2. row \in new => \E result \in HomeResults, at \in Times : row = StoredRow(result, at)
    BY SMT
  <2>3. row \in first =>
          \E result \in HomeResults, at \in Times : row = FromV1(StoredRow(result, at))
    BY SMT
  <2>4. row \in second =>
          \E result \in HomeResults, at \in Times : row = FromV2(StoredRow(result, at))
    BY SMT
  <2> QED
    BY <2>1, <2>2, <2>3, <2>4
<1>2. StoredRow(result, at).started_at = at
  BY DEF StoredRow
<1>3. FromV2(StoredRow(result, at)).started_at = at
  BY DEF StoredRow, FromV2
<1>4. FromV1(StoredRow(result, at)).started_at = at
  BY DEF StoredRow, FromV1, FromV2
<1> QED
  BY <1>1, <1>2, <1>3, <1>4

LEMMA HomeInvInit == ASSUME InitHome PROVE HomeInv
<1>1. now \in Times
  BY DEF InitHome
<1>2. PICK result \in OtherRounds, version \in 0..2 :
        stored = CASE version = 0 -> <<>>
                   [] version = 1 -> <<FromV1(StoredRow(result, now))>>
                   [] version = 2 -> <<FromV2(StoredRow(result, now))>>
  BY DEF InitHome
<1>3. \A row \in {FromV1(StoredRow(result, now)), FromV2(StoredRow(result, now))} : row \in HomeRows
  BY <1>1 DEF HomeRows, HomeResults
<1>4. stored \in Seq(HomeRows)
  <2>1. CASE version = 0
    BY <1>2, <2>1
  <2>2. CASE version = 1
    BY <1>2, <1>3, <2>2
  <2>3. CASE version = 2
    BY <1>2, <1>3, <2>3
  <2> QED
    BY <2>1, <2>2, <2>3
<1>5. last_round # Absent => ~last_round.live
  BY DEF InitHome, load_latest_round, Stored_
<1> QED
  BY <1>1, <1>4, <1>5 DEF HomeInv

LEMMA HomeInvStep == ASSUME HomeInv, [NextHome]_homeVars PROVE HomeInv'
<1>1. ASSUME NEW result \in Measurable, HomeRoundFinished(result) PROVE HomeInv'
  <2>1. StoredRow(result, now) \in HomeRows
    BY DEF HomeInv, HomeRows, HomeResults
  <2>2. ASSUME stored' = Append(stored, StoredRow(result, now)),
               last_round' = Live(result, Len(stored')), now' = now
        PROVE  HomeInv'
    <3>1. /\ stored' \in Seq(HomeRows) /\ Len(stored') \in DOMAIN stored'
          /\ stored'[Len(stored')] = StoredRow(result, now)
      BY <2>1, <2>2, StoredAppends DEF HomeInv
    <3>2. last_round'.id = Len(stored') /\ last_round'.result = result
      BY <2>2 DEF Live
    <3> QED
      BY <2>2, <3>1, <3>2 DEF HomeInv
  <2>3. ASSUME stored' = stored, last_round' = Live(result, 0), now' = now
        PROVE  HomeInv'
    <3>1. ~Saved(last_round'.id)
      BY <2>3 DEF Live, Saved
    <3> QED
      BY <2>3, <3>1 DEF HomeInv
  <2> QED
    BY <1>1, <2>2, <2>3 DEF HomeRoundFinished
<1>2. ASSUME CommandLineStores PROVE HomeInv'
  <2>1. PICK result \in OtherRounds : stored' = Append(stored, StoredRow(result, now))
    BY <1>2 DEF CommandLineStores
  <2>2. StoredRow(result, now) \in HomeRows
    BY DEF HomeInv, HomeRows, HomeResults
  <2>3. /\ stored' \in Seq(HomeRows)
        /\ \A i \in DOMAIN stored : i \in DOMAIN stored' /\ stored'[i] = stored[i]
    BY <2>1, <2>2, StoredAppends DEF HomeInv
  <2>4. now' = now /\ last_round' = last_round
    BY <1>2 DEF CommandLineStores
  <2> QED
    BY <2>3, <2>4 DEF HomeInv
<1>3. ASSUME BootHome PROVE HomeInv'
  <2>1. last_round' # Absent => ~last_round'.live
    BY <1>3 DEF BootHome, load_latest_round, Stored_
  <2> QED
    BY <1>3, <2>1 DEF HomeInv, BootHome
<1>4. CASE ClockReads
  BY <1>4 DEF HomeInv, ClockReads
<1>5. CASE UNCHANGED homeVars
  BY <1>5 DEF HomeInv, homeVars
<1> QED
  BY <1>1, <1>2, <1>3, <1>4, <1>5 DEF NextHome

\* No two rows are the newest.
LEMMA OneIsNewest ==
  ASSUME HomeInv, NEW i, NEW j, Newest(i), Newest(j)
  PROVE  i = j
<1>1. i \in DOMAIN stored /\ j \in DOMAIN stored
  BY DEF Newest, Readable
<1>2. i \in Nat /\ j \in Nat /\ stored[i] \in HomeRows /\ stored[j] \in HomeRows
  BY <1>1, LenProperties, ElementOfSeq DEF HomeInv
<1>3. stored[i].started_at \in Nat /\ stored[j].started_at \in Nat
  BY <1>2, RowsAreOfATime, HomeConstants
<1>4. i # j => After(i, j) /\ After(j, i)
  BY DEF Newest
<1> QED
  BY <1>2, <1>3, <1>4 DEF After

\* A restart reads back what was shown, whatever is stored with it: a round that
\* was saved and is still the newest keeps its five values, its kind and its
\* banner (load_latest_round, home.rs).
THEOREM RestartTellsTheSame == SpecHome => RestartShowsTheSame
<1>1. ASSUME HomeInv, BootHome, last_round' # Absent,
             last_round # Absent, last_round.live, Saved(last_round.id), Newest(last_round.id)
      PROVE  /\ round_values(last_round') = round_values(last_round)
             /\ round_metadata(last_round') = round_metadata(last_round)
             /\ IsCapped(last_round') = IsCapped(last_round)
  <2> DEFINE id == last_round.id
  <2>1. PICK at \in Times : stored[id] = StoredRow(last_round.result, at)
    BY <1>1 DEF HomeInv
  <2>2. last_round.result \in Measurable
    BY <1>1 DEF HomeInv
  <2>3. (CHOOSE i \in Readable : Newest(i)) = id
    <3>1. id \in Readable /\ Newest(id)
      BY <1>1 DEF Newest
    <3> QED
      BY <1>1, <3>1, OneIsNewest
  <2>4. last_round' = Stored_(stored[id], id)
    <3>1. Readable # {}
      BY <1>1 DEF Newest
    <3> QED
      BY <1>1, <2>3, <3>1 DEF BootHome, load_latest_round
  <2>5. ~last_round'.live /\ last_round'.row = StoredRow(last_round.result, at)
    BY <2>1, <2>4 DEF Stored_
  <2>6. stored_values(StoredRow(last_round.result, at)) = live_values(last_round.result)
    BY <2>2, RoundsSay, RowTellsTheRound
  <2>7. /\ StoredRow(last_round.result, at).mode = last_round.result.kind
        /\ StoredRow(last_round.result, at).capped = last_round.result.capped
    BY DEF StoredRow
  <2> QED
    BY <1>1, <2>5, <2>6, <2>7 DEF round_values, round_metadata, IsCapped
<1>2. [NextHome]_homeVars /\ boots' # boots => BootHome
  BY DEF NextHome, HomeRoundFinished, CommandLineStores, ClockReads, homeVars
<1>3. HomeInv /\ [NextHome]_homeVars =>
        [boots' # boots /\ last_round # Absent /\ last_round' # Absent =>
           (last_round.live /\ Saved(last_round.id) /\ Newest(last_round.id) =>
              /\ round_values(last_round') = round_values(last_round)
              /\ round_metadata(last_round') = round_metadata(last_round)
              /\ IsCapped(last_round') = IsCapped(last_round))]_homeVars
  BY <1>1, <1>2
<1> QED
  BY <1>3, HomeInvInit, HomeInvStep, PTL DEF SpecHome, RestartShowsTheSame

-----------------------------------------------------------------------------
(* HistoryScreen: the calendar.                                             *)

\* The Gregorian calendar as it is usually told.
IsLeap(year) == (year % 4 = 0 /\ year % 100 # 0) \/ year % 400 = 0

DaysIn(year, month) ==
  IF month = 2 THEN IF IsLeap(year) THEN 29 ELSE 28
  ELSE IF month \in {4, 6, 9, 11} THEN 30 ELSE 31

RealDates == {date \in Nat \X (1..12) \X (1..31) : date[3] <= DaysIn(date[1], date[2])}

Tomorrow(date) ==
  IF date[3] < DaysIn(date[1], date[2]) THEN <<date[1], date[2], date[3] + 1>>
  ELSE IF date[2] < 12 THEN <<date[1], date[2] + 1, 1>>
  ELSE <<date[1] + 1, 1, 1>>

\* The days of the years before, and those of the year before the month, both
\* from the first of March.
YearsOf(year) == 365 * year + (year \div 4) - (year \div 100) + (year \div 400)
MonthsOf(month) == (153 * (month + IF month > 2 THEN -3 ELSE 9) + 2) \div 5
MarchYear(year, month) == IF month <= 2 THEN year - 1 ELSE year

\* From the first of March of the year 0 to the first of January 1970.
Epoch == 719468

LEMMA EpochIsInt == Epoch \in Int
BY SMT DEF Epoch

\* An era of 400 years has one day more than its 97 leap days and 400 years give.
LEMMA DaysAreCounted ==
  ASSUME NEW year \in Nat, NEW month \in 1..12, NEW day \in 1..31
  PROVE  days_from_civil(<<year, month, day>>) =
           YearsOf(MarchYear(year, month)) + MonthsOf(month) + day - 1 - Epoch
<1> DEFINE Y == MarchYear(year, month)
           era == Y \div 400
           M == MonthsOf(month)
<1>1. Y \in Int /\ M \in Int
  BY SMT DEF MarchYear, MonthsOf
<1>2. days_from_civil(<<year, month, day>>) =
        era * 146097
        + ((Y - era * 400) * 365 + ((Y - era * 400) \div 4) - ((Y - era * 400) \div 100) + (M + day - 1))
        - Epoch
  BY SMT DEF days_from_civil, MarchYear, MonthsOf, Epoch
<1> HIDE DEF Y, M
<1>3. /\ (Y - era * 400) \div 4 = (Y \div 4) - era * 100
      /\ (Y - era * 400) \div 100 = (Y \div 100) - era * 4
  BY <1>1, SMT
<1>4. era \in Int
  BY <1>1, SMT
<1> HIDE DEF era
<1>5. YearsOf(Y) = 365 * Y + (Y \div 4) - (Y \div 100) + era
  BY SMT DEF YearsOf, era
<1>6. (Y \div 4) \in Int /\ (Y \div 100) \in Int
  BY <1>1, SMT
<1> QED
  BY <1>1, <1>2, <1>3, <1>4, <1>5, <1>6, EpochIsInt, SMT DEF Y, M

\* A year from March to March has a leap day when it ends in a leap year.
LEMMA YearsGoOn ==
  ASSUME NEW year \in Int, year >= -1
  PROVE  /\ YearsOf(year) \in Int
         /\ YearsOf(year + 1) = YearsOf(year) + IF IsLeap(year + 1) THEN 366 ELSE 365
BY SMT DEF YearsOf, IsLeap

LEMMA YearsInOrder ==
  ASSUME NEW one \in Int, NEW other \in Int, one <= other
  PROVE  YearsOf(one) <= YearsOf(other)
BY SMT DEF YearsOf

\* The months of a year from March on.
LEMMA MonthsGoOn ==
  /\ MonthsOf(3) = 0 /\ MonthsOf(4) = 31 /\ MonthsOf(5) = 61 /\ MonthsOf(6) = 92
  /\ MonthsOf(7) = 122 /\ MonthsOf(8) = 153 /\ MonthsOf(9) = 184 /\ MonthsOf(10) = 214
  /\ MonthsOf(11) = 245 /\ MonthsOf(12) = 275 /\ MonthsOf(1) = 306 /\ MonthsOf(2) = 337
BY SMT DEF MonthsOf

\* The first of January.
LEMMA NewYear ==
  ASSUME NEW year \in Nat
  PROVE  days_from_civil(<<year, 1, 1>>) = YearsOf(year - 1) + 306 - Epoch
<1>1. PICK month \in 1..12, day \in 1..31 : month = 1 /\ day = 1
  BY SMT
<1>2. days_from_civil(<<year, month, day>>) =
        YearsOf(MarchYear(year, month)) + MonthsOf(month) + day - 1 - Epoch
  BY DaysAreCounted, Zenon
<1>3. <<year, month, day>> = <<year, 1, 1>> /\ MonthsOf(month) = 306
  BY <1>1, MonthsGoOn, Zenon
<1>4. MarchYear(year, month) = year - 1 /\ YearsOf(year - 1) \in Int
  BY <1>1, YearsGoOn, SMT DEF MarchYear
<1> QED
  BY <1>1, <1>2, <1>3, <1>4, EpochIsInt, SMT

\* The count begins on the first of January 1970.
LEMMA CalendarStarts == days_from_civil(<<1970, 1, 1>>) = 0
<1>1. YearsOf(1969) = 719162
  BY SMT DEF YearsOf
<1> QED
  <2>1. days_from_civil(<<1970, 1, 1>>) = YearsOf(1970 - 1) + 306 - Epoch
    BY NewYear, SMT
  <2> QED
    BY <1>1, <2>1, SMT DEF Epoch

\* Each day counts one more than the day before.
LEMMA CalendarGoesOn ==
  ASSUME NEW date \in RealDates
  PROVE  days_from_civil(Tomorrow(date)) = days_from_civil(date) + 1
<1>1. PICK year \in Nat, month \in 1..12, day \in 1..31 :
        date = <<year, month, day>> /\ day <= DaysIn(year, month)
  BY SMT DEF RealDates
<1>2. days_from_civil(date) =
        YearsOf(MarchYear(year, month)) + MonthsOf(month) + day - 1 - Epoch
  BY <1>1, DaysAreCounted, Zenon
<1>3. YearsOf(year) \in Int /\ YearsOf(year - 1) \in Int
  BY YearsGoOn, SMT
<1>4. CASE day < DaysIn(year, month)
  <2>1. Tomorrow(date) = <<year, month, day + 1>> /\ day + 1 \in 1..31
    BY <1>1, <1>4, SMT DEF Tomorrow, DaysIn
  <2>2. YearsOf(MarchYear(year, month)) \in Int /\ MonthsOf(month) \in Int
    BY <1>3, SMT DEF MarchYear, MonthsOf
  <2>3. days_from_civil(<<year, month, day + 1>>) =
          YearsOf(MarchYear(year, month)) + MonthsOf(month) + (day + 1) - 1 - Epoch
    BY <2>1, DaysAreCounted, Zenon
  <2> QED
    BY <1>2, <2>1, <2>2, <2>3, EpochIsInt, SMT
<1>5. CASE day = DaysIn(year, month) /\ month < 12
  <2>1. Tomorrow(date) = <<year, month + 1, 1>> /\ month + 1 \in 1..12 /\ 1 \in 1..31
    BY <1>1, <1>5, SMT DEF Tomorrow
  <2>2. days_from_civil(<<year, month + 1, 1>>) =
          YearsOf(MarchYear(year, month + 1)) + MonthsOf(month + 1) + 1 - 1 - Epoch
    BY <2>1, DaysAreCounted, Zenon
  <2>3. YearsOf(year) = YearsOf(year - 1) + IF IsLeap(year) THEN 366 ELSE 365
    <3>1. year - 1 \in Int /\ year - 1 >= -1 /\ (year - 1) + 1 = year
      BY SMT
    <3> QED
      BY <3>1, YearsGoOn, SMT
  <2>4. CASE month = 2
    BY <1>2, <1>3, <1>5, <2>1, <2>2, <2>3, <2>4, MonthsGoOn, EpochIsInt, SMT DEF MarchYear, DaysIn
  <2>5. CASE month # 2
    <3>1. MarchYear(year, month + 1) = MarchYear(year, month)
      BY <2>5, SMT DEF MarchYear
    <3>2. MonthsOf(month + 1) = MonthsOf(month) + DaysIn(year, month)
      BY <1>5, <2>5, MonthsGoOn, SMT DEF DaysIn
    <3>3. YearsOf(MarchYear(year, month)) \in Int /\ MonthsOf(month) \in Int
      BY <1>3, SMT DEF MarchYear, MonthsOf
    <3> QED
      BY <1>2, <1>5, <2>1, <2>2, <3>1, <3>2, <3>3, EpochIsInt, SMT
  <2> QED
    BY <2>4, <2>5, SMT
<1>6. CASE day = DaysIn(year, month) /\ month = 12
  <2>1. Tomorrow(date) = <<year + 1, 1, 1>> /\ year + 1 \in Nat
    BY <1>1, <1>6, SMT DEF Tomorrow
  <2>2. days_from_civil(<<year + 1, 1, 1>>) = YearsOf((year + 1) - 1) + 306 - Epoch
    BY <2>1, NewYear, Zenon
  <2>3. (year + 1) - 1 = year /\ MarchYear(year, month) = year
    BY <1>6, SMT DEF MarchYear
  <2> QED
    BY <1>2, <1>3, <1>6, <2>1, <2>2, <2>3, MonthsGoOn, EpochIsInt, SMT DEF DaysIn
<1>7. day < DaysIn(year, month) \/ day = DaysIn(year, month)
  BY <1>1, SMT DEF DaysIn
<1> QED
  BY <1>4, <1>5, <1>6, <1>7, SMT

\* A date before another in writing: by year, then month, then day.
Written(year, month, day, year2, month2, day2) ==
  \/ year < year2
  \/ year = year2 /\ month < month2
  \/ year = year2 /\ month = month2 /\ day <= day2

LEMMA WrittenOrder ==
  ASSUME NEW year \in Nat, NEW month \in Nat, NEW day \in Nat,
         NEW year2 \in Nat, NEW month2 \in Nat, NEW day2 \in Nat
  PROVE  NotAfter(<<year, month, day>>, <<year2, month2, day2>>) <=>
           Written(year, month, day, year2, month2, day2)
<1> DEFINE a == <<year, month, day>>
           b == <<year2, month2, day2>>
           Decides(i) == a[i] < b[i] /\ \A j \in 1..(i - 1) : a[j] = b[j]
<1>1. /\ a[1] = year /\ a[2] = month /\ a[3] = day
      /\ b[1] = year2 /\ b[2] = month2 /\ b[3] = day2
  BY SMT
<1>2. a = b <=> year = year2 /\ month = month2 /\ day = day2
  BY SMT
<1>3. NotAfter(a, b) <=> a = b \/ \E i \in 1..3 : Decides(i)
  BY Zenon DEF NotAfter
<1> HIDE DEF a, b
<1>4. Decides(1) <=> a[1] < b[1]
  BY SMT
<1>5. Decides(2) <=> a[2] < b[2] /\ a[1] = b[1]
  <2>1. (\A j \in 1..(2 - 1) : a[j] = b[j]) <=> a[1] = b[1]
    BY SMT
  <2> QED
    BY <2>1, Zenon
<1>6. Decides(3) <=> a[3] < b[3] /\ a[1] = b[1] /\ a[2] = b[2]
  <2>1. (\A j \in 1..(3 - 1) : a[j] = b[j]) <=> a[1] = b[1] /\ a[2] = b[2]
    <3>1. \A j \in 1..(3 - 1) : j = 1 \/ j = 2
      BY SMT
    <3>2. 1 \in 1..(3 - 1) /\ 2 \in 1..(3 - 1)
      BY SMT
    <3> QED
      BY <3>1, <3>2, Zenon
  <2> QED
    BY <2>1, Zenon
<1> HIDE DEF Decides
<1>7. (\E i \in 1..3 : Decides(i)) <=> (Decides(1) \/ Decides(2) \/ Decides(3))
  <2>1. \A i \in 1..3 : i = 1 \/ i = 2 \/ i = 3
    BY SMT
  <2>2. 1 \in 1..3 /\ 2 \in 1..3 /\ 3 \in 1..3
    BY SMT
  <2> QED
    BY <2>1, <2>2, Zenon
<1>8. NotAfter(a, b) <=>
        \/ year = year2 /\ month = month2 /\ day = day2
        \/ year < year2 \/ (month < month2 /\ year = year2)
        \/ day < day2 /\ year = year2 /\ month = month2
  BY <1>1, <1>2, <1>3, <1>4, <1>5, <1>6, <1>7, Zenon
<1>9. NotAfter(a, b) <=> Written(year, month, day, year2, month2, day2)
  BY <1>8, SMT DEF Written
<1> QED
  BY <1>9, Zenon DEF a, b

\* The day of the year from March on.
DayOfYear(month, day) == MonthsOf(month) + day - 1

LEMMA DaysOfADate ==
  ASSUME NEW year \in Nat, NEW month \in 1..12, NEW day \in 1..31, day <= DaysIn(year, month),
         NEW Y, Y = MarchYear(year, month)
  PROVE  /\ Y \in Int /\ Y >= -1
         /\ days_from_civil(<<year, month, day>>) = YearsOf(Y) + DayOfYear(month, day) - Epoch
         /\ DayOfYear(month, day) \in Nat
         /\ YearsOf(Y) + DayOfYear(month, day) < YearsOf(Y + 1)
<1>1. Y \in Int /\ Y >= -1
  BY SMT DEF MarchYear
<1>2. days_from_civil(<<year, month, day>>) = YearsOf(Y) + MonthsOf(month) + day - 1 - Epoch
  BY DaysAreCounted, Zenon
<1>3. MonthsOf(month) \in Nat
  BY MonthsGoOn, SMT
<1>4. YearsOf(Y) \in Int /\ YearsOf(Y + 1) = YearsOf(Y) + IF IsLeap(Y + 1) THEN 366 ELSE 365
  BY <1>1, YearsGoOn, SMT
<1>5. MonthsOf(month) + DaysIn(year, month) <= IF month = 2 /\ IsLeap(year) THEN 366 ELSE 365
  BY MonthsGoOn, SMT DEF DaysIn
<1>6. DaysIn(year, month) \in Nat
  BY SMT DEF DaysIn
<1>7. month = 2 => Y + 1 = year
  BY SMT DEF MarchYear
<1>8. (IF month = 2 /\ IsLeap(year) THEN 366 ELSE 365) <= (IF IsLeap(Y + 1) THEN 366 ELSE 365)
  BY <1>7, SMT
<1> QED
  BY <1>1, <1>2, <1>3, <1>4, <1>5, <1>6, <1>8, EpochIsInt, SMT DEF DayOfYear

\* Within the years from March to March, days come in the order they are written
\* in, but for January and February, which end such a year.
LEMMA DaysInOrder ==
  ASSUME NEW year \in Nat, NEW month \in 1..12, NEW day \in 1..31, day <= DaysIn(year, month),
         NEW month2 \in 1..12, NEW day2 \in 1..31,
         \/ month < month2 /\ (month <= 2 <=> month2 <= 2)
         \/ month > 2 /\ month2 <= 2
  PROVE  DayOfYear(month, day) < DayOfYear(month2, day2)
<1>1. /\ MonthsOf(month) \in Nat /\ MonthsOf(month2) \in Nat
      /\ MonthsOf(month) + DaysIn(year, month) <= MonthsOf(month2)
  BY MonthsGoOn, SMT DEF DaysIn
<1>2. DaysIn(year, month) \in Nat
  BY SMT DEF DaysIn
<1> QED
  BY <1>1, <1>2, SMT DEF DayOfYear

LEMMA MarchOrder ==
  ASSUME NEW year \in Nat, NEW month \in 1..12, NEW day \in 1..31, day <= DaysIn(year, month),
         NEW year2 \in Nat, NEW month2 \in 1..12, NEW day2 \in 1..31,
         day2 <= DaysIn(year2, month2)
  PROVE  Written(year, month, day, year2, month2, day2) <=>
           \/ MarchYear(year, month) < MarchYear(year2, month2)
           \/ /\ MarchYear(year, month) = MarchYear(year2, month2)
              /\ DayOfYear(month, day) <= DayOfYear(month2, day2)
<1>1. DayOfYear(month, day) \in Nat /\ DayOfYear(month2, day2) \in Nat
  BY DaysOfADate, Zenon
<1>2. CASE month = month2
  <2>1. MonthsOf(month) \in Nat
    BY MonthsGoOn, SMT
  <2>2. DayOfYear(month, day) <= DayOfYear(month2, day2) <=> day <= day2
    BY <1>2, <2>1, SMT DEF DayOfYear
  <2> QED
    BY <1>2, <2>2, SMT DEF Written, MarchYear
<1>3. CASE month < month2 /\ (month <= 2 <=> month2 <= 2)
  <2>1. DayOfYear(month, day) < DayOfYear(month2, day2)
    BY <1>3, DaysInOrder, Zenon
  <2> QED
    BY <1>1, <1>3, <2>1, SMT DEF Written, MarchYear
<1>4. CASE month2 < month /\ (month <= 2 <=> month2 <= 2)
  <2>1. DayOfYear(month2, day2) < DayOfYear(month, day)
    BY <1>4, DaysInOrder, Zenon
  <2> QED
    BY <1>1, <1>4, <2>1, SMT DEF Written, MarchYear
<1>5. CASE month > 2 /\ month2 <= 2
  <2>1. DayOfYear(month, day) < DayOfYear(month2, day2)
    BY <1>5, DaysInOrder, Zenon
  <2> QED
    BY <1>1, <1>5, <2>1, SMT DEF Written, MarchYear
<1>6. CASE month <= 2 /\ month2 > 2
  <2>1. DayOfYear(month2, day2) < DayOfYear(month, day)
    BY <1>6, DaysInOrder, Zenon
  <2> QED
    BY <1>1, <1>6, <2>1, SMT DEF Written, MarchYear
<1> QED
  BY <1>2, <1>3, <1>4, <1>5, <1>6, SMT

\* The count orders real dates as they are written.
LEMMA CalendarInOrder ==
  ASSUME NEW a \in RealDates, NEW b \in RealDates
  PROVE  NotAfter(a, b) <=> days_from_civil(a) <= days_from_civil(b)
<1>1. PICK year \in Nat, month \in 1..12, day \in 1..31 :
        a = <<year, month, day>> /\ day <= DaysIn(year, month)
  BY SMT DEF RealDates
<1>2. PICK year2 \in Nat, month2 \in 1..12, day2 \in 1..31 :
        b = <<year2, month2, day2>> /\ day2 <= DaysIn(year2, month2)
  BY SMT DEF RealDates
<1> DEFINE Y == MarchYear(year, month)
           Z == MarchYear(year2, month2)
           d == DayOfYear(month, day)
           e == DayOfYear(month2, day2)
<1>3. /\ Y \in Int /\ Z \in Int /\ d \in Nat /\ e \in Nat
      /\ days_from_civil(a) = YearsOf(Y) + d - Epoch
      /\ days_from_civil(b) = YearsOf(Z) + e - Epoch
      /\ YearsOf(Y) + d < YearsOf(Y + 1) /\ YearsOf(Z) + e < YearsOf(Z + 1)
  <2>1. /\ Y \in Int /\ d \in Nat
        /\ days_from_civil(<<year, month, day>>) = YearsOf(Y) + d - Epoch
        /\ YearsOf(Y) + d < YearsOf(Y + 1)
    BY <1>1, DaysOfADate, Zenon
  <2>2. /\ Z \in Int /\ e \in Nat
        /\ days_from_civil(<<year2, month2, day2>>) = YearsOf(Z) + e - Epoch
        /\ YearsOf(Z) + e < YearsOf(Z + 1)
    BY <1>2, DaysOfADate, Zenon
  <2> QED
    BY <1>1, <1>2, <2>1, <2>2, Zenon
<1>4. NotAfter(a, b) <=> Y < Z \/ (Y = Z /\ d <= e)
  <2>1. /\ month \in Nat /\ day \in Nat /\ month2 \in Nat /\ day2 \in Nat
    BY SMT
  <2>2. NotAfter(a, b) <=> Written(year, month, day, year2, month2, day2)
    BY <1>1, <1>2, <2>1, WrittenOrder, Zenon
  <2> QED
    BY <1>1, <1>2, <2>2, MarchOrder, Zenon
<1> HIDE DEF Y, Z, d, e
<1>5. YearsOf(Y) \in Int /\ YearsOf(Z) \in Int /\ YearsOf(Y + 1) \in Int /\ YearsOf(Z + 1) \in Int
  BY <1>3, SMT DEF YearsOf
<1>6. CASE Y < Z
  <2>1. YearsOf(Y + 1) <= YearsOf(Z)
    BY <1>3, <1>6, YearsInOrder, SMT
  <2> QED
    BY <1>3, <1>4, <1>5, <1>6, <2>1, EpochIsInt, SMT
<1>7. CASE Y = Z
  BY <1>3, <1>4, <1>5, <1>7, EpochIsInt, SMT
<1>8. CASE Z < Y
  <2>1. YearsOf(Z + 1) <= YearsOf(Y)
    BY <1>3, <1>8, YearsInOrder, SMT
  <2> QED
    BY <1>3, <1>4, <1>5, <1>8, <2>1, EpochIsInt, SMT
<1> QED
  BY <1>3, <1>6, <1>7, <1>8, SMT

-----------------------------------------------------------------------------
(* HistoryScreen: any dates, any number of reads and exports on their way,  *)
(* any order of their answers.                                              *)

HistoryTasks ==
  [kind: {"history", "export"}, asked: [from: Int, to: Int],
   answer: {Nothing} \cup Answers, overtaken: BOOLEAN]

\* The rows of some that a span covers.
Within(span, some) == {row \in some : span.from <= row.at /\ row.at <= span.to}

HistoryReadsTypeOK ==
  /\ clock \in Instants
  /\ rounds \subseteq Rounds /\ IsFiniteSet(rounds)
  /\ tasks \in Seq(HistoryTasks)
  /\ history_from \in Texts /\ history_to \in Texts

Asks(i) == tasks[i].kind = "history"

\* An answer is what its question covers of what was stored.
AnswersAreWhole ==
  \A i \in DOMAIN tasks : Asks(i) /\ tasks[i].answer # Nothing /\ tasks[i].answer.ok =>
    tasks[i].answer.rows = Within(tasks[i].asked, tasks[i].answer.stored)

HistoryOvertakenInOrder ==
  \A i, j \in DOMAIN tasks :
    i < j /\ Asks(i) /\ Asks(j) /\ tasks[j].overtaken => tasks[i].overtaken

\* The question asked last is about the dates on the screen, when they are dates.
LastIsOfTheDates ==
  \A i \in DOMAIN tasks :
    /\ Asks(i) /\ ~tasks[i].overtaken
    /\ \A j \in DOMAIN tasks : i < j => ~Asks(j)
    /\ ValidBounds(history_from, history_to)
    => tasks[i].asked = Span(history_from, history_to)

\* So is the table, once the answer to that question has been applied.
TableIsRead ==
  /\ \A i \in DOMAIN tasks : Asks(i) => tasks[i].overtaken
  /\ history_read # Nothing /\ history_read.ok /\ ~history_read.overtaken
  /\ ValidBounds(history_from, history_to)
  => /\ history_read.stored \subseteq Rounds
     /\ history_rows = Within(Span(history_from, history_to), history_read.stored)

HistoryInv ==
  /\ HistoryReadsTypeOK
  /\ AnswersAreWhole
  /\ HistoryOvertakenInOrder
  /\ LastIsOfTheDates
  /\ TableIsRead

LEMMA DaysAreNumbers ==
  ASSUME NEW date \in Nat \X (1..12) \X (1..31)
  PROVE  days_from_civil(date) \in Int
<1>1. PICK year \in Nat, month \in 1..12, day \in 1..31 : date = <<year, month, day>>
  BY SMT
<1>2. MarchYear(year, month) \in Int /\ MonthsOf(month) \in Int
  BY SMT DEF MarchYear, MonthsOf
<1>3. YearsOf(MarchYear(year, month)) \in Int
  BY <1>2, SMT DEF YearsOf
<1>4. days_from_civil(date) =
        YearsOf(MarchYear(year, month)) + MonthsOf(month) + day - 1 - Epoch
  BY <1>1, DaysAreCounted, Zenon
<1> QED
  BY <1>2, <1>3, <1>4, EpochIsInt, SMT

LEMMA SpansAreOfNumbers ==
  ASSUME NEW from \in Dates, NEW to \in Dates
  PROVE  Span(from, to) \in [from: Int, to: Int]
<1>1. days_from_civil(from) \in Int /\ days_from_civil(to) \in Int
  BY DaysAreNumbers, HistoryScreenConstants
<1>2. DaySeconds \in Int
  BY SMT DEF DaySeconds
<1>3. parse_day_start(from) \in Int /\ parse_day_end(to) \in Int
  BY <1>1, <1>2, SMT DEF parse_day_start, parse_day_end
<1> QED
  BY <1>3 DEF Span

LEMMA ValidSpans ==
  ASSUME NEW from \in Texts, NEW to \in Texts, ValidBounds(from, to)
  PROVE  Span(from, to) \in [from: Int, to: Int]
BY SpansAreOfNumbers DEF ValidBounds, IsDateText, Texts

LEMMA HistoryInvInit ==
  ASSUME InitRounds, tasks = FirstHistory, InitHistory
  PROVE  HistoryInv
<1> DEFINE task == load_history_task(FirstDates[1], FirstDates[2])
<1>1. clock \in Instants /\ rounds = {}
  BY DEF InitRounds
<1>2. /\ history_from = FirstDates[1] /\ history_to = FirstDates[2] /\ history_read = Nothing
      /\ history_from \in Dates /\ history_to \in Dates
  BY HistoryScreenConstants DEF InitHistory
<1>3. /\ task.kind = "history" /\ task.asked = Span(history_from, history_to)
      /\ task.answer = Nothing /\ task.overtaken = FALSE
      /\ task \in HistoryTasks
  BY <1>2, SpansAreOfNumbers DEF load_history_task, Task, HistoryTasks, Texts
<1> HIDE DEF task
<1>4. tasks = <<task>> /\ tasks \in Seq(HistoryTasks) /\ DOMAIN tasks = {1} /\ tasks[1] = task
  BY <1>3 DEF FirstHistory, task
<1>5. HistoryReadsTypeOK
  BY <1>1, <1>2, <1>4, FS_EmptySet DEF HistoryReadsTypeOK, Texts
<1>6. AnswersAreWhole /\ HistoryOvertakenInOrder
  BY <1>3, <1>4 DEF AnswersAreWhole, HistoryOvertakenInOrder
<1>7. LastIsOfTheDates /\ TableIsRead
  BY <1>2, <1>3, <1>4 DEF LastIsOfTheDates, TableIsRead, Asks
<1> QED
  BY <1>5, <1>6, <1>7 DEF HistoryInv

\* A task that is asked is behind all others.
LEMMA HistoryAppends ==
  ASSUME HistoryReadsTypeOK, NEW task \in HistoryTasks, tasks' = Append(tasks, task)
  PROVE  /\ tasks' \in Seq(HistoryTasks)
         /\ DOMAIN tasks = 1..Len(tasks) /\ Len(tasks) \in Nat
         /\ DOMAIN tasks' = 1..(Len(tasks) + 1)
         /\ tasks'[Len(tasks) + 1] = task
         /\ \A i \in 1..Len(tasks) : tasks'[i] = tasks[i]
<1>1. tasks \in Seq(HistoryTasks)
  BY DEF HistoryReadsTypeOK
<1>2. /\ tasks' \in Seq(HistoryTasks) /\ Len(tasks') = Len(tasks) + 1
      /\ \A i \in 1..Len(tasks) : tasks'[i] = tasks[i]
      /\ tasks'[Len(tasks) + 1] = task
  BY <1>1, AppendProperties
<1> QED
  BY <1>1, <1>2, LenProperties

\* Whatever the dates were, the new question is about those on the screen.
LEMMA HistoryAsked ==
  ASSUME HistoryInv, history_from' \in Texts, history_to' \in Texts,
         ValidBounds(history_from', history_to'),
         tasks' = Append(tasks, load_history_task(history_from', history_to')),
         UNCHANGED <<clock, rounds, history_rows, history_read>>
  PROVE  HistoryInv'
<1> DEFINE task == load_history_task(history_from', history_to')
<1>1. HistoryReadsTypeOK /\ AnswersAreWhole /\ HistoryOvertakenInOrder
  BY DEF HistoryInv
<1>2. /\ task.kind = "history" /\ task.asked = Span(history_from', history_to')
      /\ task.answer = Nothing /\ task.overtaken = FALSE
      /\ task \in HistoryTasks
  <2>1. Span(history_from', history_to') \in [from: Int, to: Int]
    BY ValidSpans, Zenon
  <2> QED
    BY <2>1 DEF load_history_task, Task, HistoryTasks
<1> HIDE DEF task
<1>3. /\ tasks' \in Seq(HistoryTasks)
      /\ DOMAIN tasks = 1..Len(tasks) /\ Len(tasks) \in Nat
      /\ DOMAIN tasks' = 1..(Len(tasks) + 1)
      /\ tasks'[Len(tasks) + 1] = task
      /\ \A i \in 1..Len(tasks) : tasks'[i] = tasks[i]
  BY <1>1, <1>2, HistoryAppends DEF task
<1>4. HistoryReadsTypeOK'
  BY <1>1, <1>3 DEF HistoryReadsTypeOK
<1>5. AnswersAreWhole' /\ HistoryOvertakenInOrder'
  <2>1. \A i \in DOMAIN tasks' :
          \/ i \in DOMAIN tasks /\ tasks'[i] = tasks[i]
          \/ i = Len(tasks) + 1 /\ tasks'[i].answer = Nothing /\ ~tasks'[i].overtaken
    BY <1>2, <1>3
  <2>2. \A i, j \in DOMAIN tasks' : i < j => i \in DOMAIN tasks
    BY <1>3
  <2> QED
    BY <1>1, <2>1, <2>2 DEF AnswersAreWhole, HistoryOvertakenInOrder, Asks
<1>6. LastIsOfTheDates'
  <2>1. \A i \in DOMAIN tasks' : i = Len(tasks) + 1 \/ i < Len(tasks) + 1
    BY <1>3
  <2>2. Len(tasks) + 1 \in DOMAIN tasks'
    BY <1>3
  <2> QED
    BY <1>2, <1>3, <2>1, <2>2 DEF LastIsOfTheDates, Asks
<1>7. TableIsRead'
  <2>1. Len(tasks) + 1 \in DOMAIN tasks'
    BY <1>3
  <2> QED
    BY <1>2, <1>3, <2>1 DEF TableIsRead, Asks
<1> QED
  BY <1>4, <1>5, <1>6, <1>7 DEF HistoryInv

\* An export is no question of the table.
LEMMA ExportAsked ==
  ASSUME HistoryInv, NEW span \in [from: Int, to: Int],
         tasks' = Append(tasks, Task("export", span)),
         UNCHANGED <<clock, rounds, history_from, history_to, history_rows, history_read>>
  PROVE  HistoryInv'
<1> DEFINE task == Task("export", span)
<1>1. /\ HistoryReadsTypeOK /\ AnswersAreWhole /\ HistoryOvertakenInOrder
      /\ LastIsOfTheDates /\ TableIsRead
  BY DEF HistoryInv
<1>2. task.kind = "export" /\ task \in HistoryTasks
  BY DEF Task, HistoryTasks
<1> HIDE DEF task
<1>3. /\ tasks' \in Seq(HistoryTasks)
      /\ DOMAIN tasks = 1..Len(tasks) /\ Len(tasks) \in Nat
      /\ DOMAIN tasks' = 1..(Len(tasks) + 1)
      /\ tasks'[Len(tasks) + 1] = task
      /\ \A i \in 1..Len(tasks) : tasks'[i] = tasks[i]
  BY <1>1, <1>2, HistoryAppends DEF task
<1>4. HistoryReadsTypeOK'
  BY <1>1, <1>3 DEF HistoryReadsTypeOK
<1>5. /\ \A i \in DOMAIN tasks' : tasks'[i].kind = "history" => i \in DOMAIN tasks
      /\ \A i \in DOMAIN tasks : i \in DOMAIN tasks' /\ tasks'[i] = tasks[i]
  BY <1>2, <1>3
<1>6. AnswersAreWhole' /\ HistoryOvertakenInOrder'
  BY <1>1, <1>5 DEF AnswersAreWhole, HistoryOvertakenInOrder, Asks
<1>7. LastIsOfTheDates'
  BY <1>1, <1>5 DEF LastIsOfTheDates, Asks
<1>8. TableIsRead'
  BY <1>1, <1>5 DEF TableIsRead, Asks
<1> QED
  BY <1>4, <1>6, <1>7, <1>8 DEF HistoryInv

LEMMA HistoryTyped ==
  ASSUME HistoryInv, NEW text \in Texts, HistoryFromChanged(text) \/ HistoryToChanged(text)
  PROVE  HistoryInv'
<1>1. /\ history_from' \in Texts /\ history_to' \in Texts
      /\ reload_history_if_valid
      /\ UNCHANGED <<clock, rounds, history_rows, history_read>>
  BY DEF HistoryInv, HistoryReadsTypeOK, HistoryFromChanged, HistoryToChanged
<1>2. CASE ValidBounds(history_from', history_to')
  <2>1. tasks' = Append(tasks, load_history_task(history_from', history_to'))
    BY <1>1, <1>2, Zenon DEF reload_history_if_valid
  <2> QED
    BY <1>1, <1>2, <2>1, HistoryAsked, Zenon
<1>3. CASE ~ValidBounds(history_from', history_to')
  <2>1. tasks' = tasks
    BY <1>1, <1>3, Zenon DEF reload_history_if_valid
  <2>2. ~ValidBounds(history_from, history_to)'
    BY <1>3
  <2>3. HistoryReadsTypeOK' /\ AnswersAreWhole' /\ HistoryOvertakenInOrder'
    BY <1>1, <2>1 DEF HistoryInv, HistoryReadsTypeOK, AnswersAreWhole, HistoryOvertakenInOrder, Asks
  <2> QED
    BY <2>2, <2>3, Zenon DEF HistoryInv, LastIsOfTheDates, TableIsRead
<1> QED
  BY <1>2, <1>3

LEMMA HistoryStored ==
  ASSUME HistoryInv, RoundStored
  PROVE  HistoryInv'
<1> DEFINE new == [id |-> Cardinality(rounds) + 1, at |-> clock, by |-> "app"]
<1>1. /\ Cardinality(rounds) < MaxRounds
      /\ rounds' = rounds \cup {new} /\ clock' = clock
      /\ UNCHANGED <<tasks, history_from, history_to, history_rows, history_read>>
  BY DEF RoundStored, insert_round
<1>2. /\ clock \in Instants /\ rounds \subseteq Rounds /\ IsFiniteSet(rounds)
  BY DEF HistoryInv, HistoryReadsTypeOK
<1>3. Cardinality(rounds) \in Nat /\ IsFiniteSet(rounds \cup {new})
  BY <1>2, FS_CardinalityType, FS_AddElement
<1>4. new \in Rounds
  BY <1>1, <1>2, <1>3, StoredRoundsConstants DEF Rounds, Writers
<1> HIDE DEF new
<1>5. HistoryReadsTypeOK'
  BY <1>1, <1>2, <1>3, <1>4 DEF HistoryInv, HistoryReadsTypeOK
<1> QED
  BY <1>1, <1>5 DEF HistoryInv, AnswersAreWhole, HistoryOvertakenInOrder, LastIsOfTheDates,
                    TableIsRead, Asks

\* A read answers its own question with what is stored when it runs.
LEMMA HistoryAnswered ==
  ASSUME HistoryInv, NEW i \in DOMAIN tasks, ReadRounds(i)
  PROVE  HistoryInv'
<1>1. /\ HistoryReadsTypeOK /\ AnswersAreWhole /\ HistoryOvertakenInOrder
      /\ LastIsOfTheDates /\ TableIsRead
  BY DEF HistoryInv
<1> DEFINE read == rounds_between(tasks[i].asked)
           given(ok) == [ok |-> ok, rows |-> IF ok THEN read ELSE {},
                         stored |-> IF ok THEN rounds ELSE {}]
<1>2. PICK ok \in BOOLEAN : tasks' = [tasks EXCEPT ![i].answer = given(ok)]
  BY DEF ReadRounds, Answer_
<1>3. UNCHANGED <<clock, rounds, history_from, history_to, history_rows, history_read>>
  BY DEF ReadRounds, Answer_
<1>4. read = Within(tasks[i].asked, rounds) /\ read \subseteq rounds
  BY DEF rounds_between, Within
<1>5. rounds \subseteq Rounds
  BY <1>1 DEF HistoryReadsTypeOK
<1> HIDE DEF read
<1>6. /\ given(ok) \in Answers
      /\ given(ok).ok => given(ok).rows = Within(tasks[i].asked, given(ok).stored)
  BY <1>4, <1>5 DEF Answers
<1> HIDE DEF given
<1>7. /\ tasks \in Seq(HistoryTasks) /\ DOMAIN tasks = 1..Len(tasks) /\ Len(tasks) \in Nat
      /\ \A j \in DOMAIN tasks : tasks[j] \in HistoryTasks
  BY <1>1, LenProperties, ElementOfSeq DEF HistoryReadsTypeOK
<1>8. /\ tasks' \in Seq(HistoryTasks) /\ DOMAIN tasks' = DOMAIN tasks
      /\ \A j \in DOMAIN tasks : /\ tasks'[j].kind = tasks[j].kind
                                 /\ tasks'[j].asked = tasks[j].asked
                                 /\ tasks'[j].overtaken = tasks[j].overtaken
      /\ tasks'[i].answer = given(ok)
      /\ \A j \in DOMAIN tasks : j # i => tasks'[j].answer = tasks[j].answer
  <2>1. /\ DOMAIN tasks' = DOMAIN tasks
        /\ tasks'[i] = [tasks[i] EXCEPT !.answer = given(ok)]
        /\ \A j \in DOMAIN tasks : j # i => tasks'[j] = tasks[j]
    BY <1>2, <1>7
  <2>2. [tasks[i] EXCEPT !.answer = given(ok)] \in HistoryTasks
    BY <1>6, <1>7 DEF HistoryTasks
  <2>3. /\ [tasks[i] EXCEPT !.answer = given(ok)].answer = given(ok)
        /\ [tasks[i] EXCEPT !.answer = given(ok)].overtaken = tasks[i].overtaken
        /\ [tasks[i] EXCEPT !.answer = given(ok)].kind = tasks[i].kind
        /\ [tasks[i] EXCEPT !.answer = given(ok)].asked = tasks[i].asked
    BY <1>7 DEF HistoryTasks
  <2>4. /\ tasks' = [j \in 1..Len(tasks) |-> tasks'[j]]
        /\ \A j \in 1..Len(tasks) : tasks'[j] \in HistoryTasks
    BY <1>2, <1>7, <2>1, <2>2
  <2>5. tasks' \in Seq(HistoryTasks)
    BY <1>7, <2>4, SeqDef
  <2> QED
    BY <2>1, <2>3, <2>5
<1>9. HistoryReadsTypeOK'
  BY <1>1, <1>3, <1>8 DEF HistoryReadsTypeOK
<1>10. AnswersAreWhole'
  BY <1>1, <1>6, <1>8 DEF AnswersAreWhole, Asks
<1>11. HistoryOvertakenInOrder' /\ LastIsOfTheDates' /\ TableIsRead'
  BY <1>1, <1>3, <1>8 DEF HistoryOvertakenInOrder, LastIsOfTheDates, TableIsRead, Asks
<1> QED
  BY <1>9, <1>10, <1>11 DEF HistoryInv

\* Where the task was that is at j once task i is gone.
Before(i, j) == IF j < i THEN j ELSE j + 1

\* Where an answer is taken from: the tasks of its kind before it are overtaken.
LEMMA HistoryMoves ==
  ASSUME tasks \in Seq(HistoryTasks), NEW i \in DOMAIN tasks,
         NEW kind \in {"history", "export"}, Delivered(i, kind)
  PROVE  /\ tasks' \in Seq(HistoryTasks)
         /\ \A j \in DOMAIN tasks' :
              /\ j \in Nat
              /\ Before(i, j) \in DOMAIN tasks
              /\ tasks'[j].kind = tasks[Before(i, j)].kind
              /\ tasks'[j].asked = tasks[Before(i, j)].asked
              /\ tasks'[j].answer = tasks[Before(i, j)].answer
              /\ tasks'[j].overtaken <=>
                   \/ tasks[Before(i, j)].overtaken
                   \/ Before(i, j) < i /\ tasks[Before(i, j)].kind = kind
         /\ \A k \in DOMAIN tasks \ {i} : \E j \in DOMAIN tasks' : k = Before(i, j)
<1> DEFINE marked(j) == [tasks[j] EXCEPT !.overtaken = TRUE]
           seq == [j \in DOMAIN tasks |->
                     IF j < i /\ tasks[j].kind = kind THEN marked(j) ELSE tasks[j]]
<1>1. tasks' = RemoveAt(seq, i)
  BY DEF Delivered
<1>2. /\ DOMAIN tasks = 1..Len(tasks) /\ Len(tasks) \in Nat
      /\ \A j \in DOMAIN tasks : tasks[j] \in HistoryTasks
  BY LenProperties, ElementOfSeq
<1>3. \A j \in DOMAIN tasks :
        /\ marked(j) \in HistoryTasks /\ marked(j).overtaken
        /\ marked(j).answer = tasks[j].answer
        /\ marked(j).kind = tasks[j].kind /\ marked(j).asked = tasks[j].asked
  BY <1>2 DEF HistoryTasks
<1> HIDE DEF marked
<1>4. \A j \in DOMAIN tasks :
        /\ seq[j] \in HistoryTasks
        /\ seq[j].kind = tasks[j].kind /\ seq[j].asked = tasks[j].asked
        /\ seq[j].answer = tasks[j].answer
        /\ seq[j].overtaken <=> tasks[j].overtaken \/ (j < i /\ tasks[j].kind = kind)
  BY <1>2, <1>3
<1>5. seq \in Seq(HistoryTasks) /\ Len(seq) = Len(tasks)
  <2>1. seq = [j \in 1..Len(tasks) |-> seq[j]] /\ \A j \in 1..Len(tasks) : seq[j] \in HistoryTasks
    BY <1>2, <1>4
  <2>2. seq \in Seq(HistoryTasks)
    BY <1>2, <2>1, SeqDef
  <2> QED
    BY <1>2, <2>1, <2>2, LenProperties
<1> HIDE DEF seq
<1>6. /\ tasks' \in Seq(HistoryTasks) /\ Len(tasks') = Len(tasks) - 1
      /\ \A j \in 1..(Len(tasks) - 1) : tasks'[j] = IF j < i THEN seq[j] ELSE seq[j + 1]
  BY <1>1, <1>2, <1>5, RemovedMoves
<1>7. DOMAIN tasks' = 1..(Len(tasks) - 1)
  BY <1>6, LenProperties
<1>8. \A j \in DOMAIN tasks' :
        /\ j \in Nat /\ Before(i, j) \in DOMAIN tasks
        /\ tasks'[j] = seq[Before(i, j)]
  BY <1>2, <1>6, <1>7 DEF Before
<1>9. \A k \in DOMAIN tasks \ {i} : \E j \in DOMAIN tasks' : k = Before(i, j)
  <2> SUFFICES ASSUME NEW k \in DOMAIN tasks, k # i
               PROVE  \E j \in DOMAIN tasks' : k = Before(i, j)
    OBVIOUS
  <2>1. CASE k < i
    BY <1>2, <1>7, <2>1 DEF Before
  <2>2. CASE k > i
    <3>1. k - 1 \in DOMAIN tasks' /\ Before(i, k - 1) = k
      BY <1>2, <1>7, <2>2 DEF Before
    <3> QED
      BY <3>1
  <2> QED
    BY <1>2, <2>1, <2>2
<1> QED
  BY <1>4, <1>6, <1>8, <1>9

LEMMA BeforeKeepsOrder ==
  ASSUME NEW i \in Nat, NEW j \in Nat, NEW k \in Nat
  PROVE  Before(i, j) # i /\ (Before(i, j) < Before(i, k) <=> j < k)
BY DEF Before

\* What the delivery of either kind leaves true, but for the table.
LEMMA DeliveredKeeps ==
  ASSUME HistoryInv, NEW i \in DOMAIN tasks,
         NEW kind \in {"history", "export"}, Delivered(i, kind),
         UNCHANGED <<history_from, history_to>>
  PROVE  /\ HistoryReadsTypeOK' /\ AnswersAreWhole'
         /\ HistoryOvertakenInOrder' /\ LastIsOfTheDates'
<1>1. /\ HistoryReadsTypeOK /\ AnswersAreWhole /\ HistoryOvertakenInOrder /\ LastIsOfTheDates
  BY DEF HistoryInv
<1>2. /\ tasks \in Seq(HistoryTasks) /\ DOMAIN tasks = 1..Len(tasks) /\ Len(tasks) \in Nat
  BY <1>1, LenProperties DEF HistoryReadsTypeOK
<1>3. tasks[i].kind = kind /\ UNCHANGED <<clock, rounds>>
  BY DEF Delivered
<1>4. /\ tasks' \in Seq(HistoryTasks)
      /\ \A j \in DOMAIN tasks' :
           /\ j \in Nat
           /\ Before(i, j) \in DOMAIN tasks
           /\ tasks'[j].kind = tasks[Before(i, j)].kind
           /\ tasks'[j].asked = tasks[Before(i, j)].asked
           /\ tasks'[j].answer = tasks[Before(i, j)].answer
           /\ tasks'[j].overtaken <=>
                \/ tasks[Before(i, j)].overtaken
                \/ Before(i, j) < i /\ tasks[Before(i, j)].kind = kind
      /\ \A k \in DOMAIN tasks \ {i} : \E j \in DOMAIN tasks' : k = Before(i, j)
  BY <1>2, HistoryMoves
<1>5. \A j, k \in DOMAIN tasks' : Before(i, j) # i /\ (Before(i, j) < Before(i, k) <=> j < k)
  BY <1>2, <1>4, BeforeKeepsOrder
<1>6. HistoryReadsTypeOK'
  BY <1>1, <1>3, <1>4 DEF HistoryReadsTypeOK
<1>7. AnswersAreWhole'
  BY <1>1, <1>4 DEF AnswersAreWhole, Asks
<1>8. HistoryOvertakenInOrder'
  <2> SUFFICES ASSUME NEW j \in DOMAIN tasks', NEW k \in DOMAIN tasks', j < k,
                      tasks'[j].kind = "history", tasks'[k].kind = "history", tasks'[k].overtaken
               PROVE  tasks'[j].overtaken
    BY DEF HistoryOvertakenInOrder, Asks
  <2> DEFINE b == Before(i, j)
             c == Before(i, k)
  <2>1. /\ b \in DOMAIN tasks /\ c \in DOMAIN tasks /\ b < c
        /\ tasks[b].kind = "history" /\ tasks[c].kind = "history"
    BY <1>4, <1>5
  <2>2. CASE tasks[c].overtaken
    BY <1>1, <1>4, <2>1, <2>2 DEF HistoryOvertakenInOrder, Asks
  <2>3. CASE c < i /\ tasks[c].kind = kind
    <3>1. b < i /\ tasks[b].kind = kind
      <4> HIDE DEF b, c
      <4> QED BY <1>2, <2>1, <2>3
    <3> QED
      BY <1>4, <3>1
  <2> QED
    BY <1>4, <2>2, <2>3
<1>9. LastIsOfTheDates'
  <2> SUFFICES ASSUME NEW j \in DOMAIN tasks', tasks'[j].kind = "history", ~tasks'[j].overtaken,
                      \A k \in DOMAIN tasks' : j < k => tasks'[k].kind # "history",
                      ValidBounds(history_from', history_to')
               PROVE  tasks'[j].asked = Span(history_from', history_to')
    BY DEF LastIsOfTheDates, Asks
  <2> DEFINE b == Before(i, j)
  <2>1. /\ b \in DOMAIN tasks /\ tasks[b].kind = "history" /\ ~tasks[b].overtaken
        /\ ~(b < i /\ tasks[b].kind = kind) /\ b # i
        /\ tasks'[j].asked = tasks[b].asked
    BY <1>4, <1>5
  <2>2. ASSUME NEW c \in DOMAIN tasks, b < c PROVE tasks[c].kind # "history"
    <3>1. CASE c = i
      <4> HIDE DEF b
      <4> QED BY <1>3, <2>1, <2>2, <3>1
    <3>2. CASE c # i
      <4>1. PICK k \in DOMAIN tasks' : c = Before(i, k)
        BY <1>4, <3>2
      <4>2. j < k
        BY <1>5, <2>2, <4>1
      <4> QED
        BY <1>4, <4>1, <4>2
    <3> QED
      BY <3>1, <3>2
  <2> HIDE DEF b
  <2>3. tasks[b].asked = Span(history_from, history_to)
    BY <1>1, <2>1, <2>2 DEF LastIsOfTheDates, Asks
  <2> QED
    BY <2>1, <2>3
<1> QED
  BY <1>6, <1>7, <1>8, <1>9

\* The last question's answer makes the table one of the dates; an answer before
\* it leaves a question open.
LEMMA HistoryApplied ==
  ASSUME HistoryInv, NEW i \in DOMAIN tasks, HistoryLoaded(i)
  PROVE  HistoryInv'
<1>1. /\ HistoryReadsTypeOK /\ AnswersAreWhole /\ HistoryOvertakenInOrder
      /\ LastIsOfTheDates /\ TableIsRead
  BY DEF HistoryInv
<1> DEFINE answer == tasks[i].answer
<1>2. /\ Delivered(i, "history") /\ UNCHANGED <<history_from, history_to>>
      /\ tasks[i].kind = "history" /\ answer # Nothing
      /\ history_read' = Remembered(tasks[i])
      /\ answer.ok => history_rows' = answer.rows
  BY DEF HistoryLoaded, Delivered
<1>3. /\ tasks \in Seq(HistoryTasks) /\ DOMAIN tasks = 1..Len(tasks) /\ Len(tasks) \in Nat
      /\ tasks[i] \in HistoryTasks
  BY <1>1, LenProperties, ElementOfSeq DEF HistoryReadsTypeOK
<1>4. /\ HistoryReadsTypeOK' /\ AnswersAreWhole'
      /\ HistoryOvertakenInOrder' /\ LastIsOfTheDates'
  BY <1>2, DeliveredKeeps
<1>5. /\ \A j \in DOMAIN tasks' :
           /\ j \in Nat
           /\ Before(i, j) \in DOMAIN tasks
           /\ tasks'[j].kind = tasks[Before(i, j)].kind
           /\ tasks'[j].overtaken <=>
                \/ tasks[Before(i, j)].overtaken
                \/ Before(i, j) < i /\ tasks[Before(i, j)].kind = "history"
      /\ \A k \in DOMAIN tasks \ {i} : \E j \in DOMAIN tasks' : k = Before(i, j)
  BY <1>2, <1>3, HistoryMoves
<1>6. answer \in Answers
  BY <1>2, <1>3 DEF HistoryTasks
<1>7. /\ Remembered(tasks[i]).ok = answer.ok
      /\ Remembered(tasks[i]).overtaken = tasks[i].overtaken
      /\ Remembered(tasks[i]).stored = answer.stored
      /\ answer.stored \subseteq Rounds
  BY <1>6 DEF Remembered, Answers
<1> HIDE DEF answer
<1>8. TableIsRead'
  <2> SUFFICES ASSUME \A j \in DOMAIN tasks' : tasks'[j].kind = "history" => tasks'[j].overtaken,
                      answer.ok, ~tasks[i].overtaken,
                      ValidBounds(history_from, history_to)
               PROVE  history_rows' = Within(Span(history_from, history_to), answer.stored)
    BY <1>2, <1>7 DEF TableIsRead, Asks
  <2>1. ASSUME NEW k \in DOMAIN tasks, i < k PROVE tasks[k].kind # "history"
    <3> SUFFICES ASSUME tasks[k].kind = "history" PROVE FALSE
      OBVIOUS
    <3>1. PICK j \in DOMAIN tasks' : k = Before(i, j)
      BY <1>3, <1>5, <2>1
    <3>2. tasks[k].overtaken
      BY <1>3, <1>5, <2>1, <3>1
    <3> QED
      BY <1>1, <1>2, <2>1, <3>2 DEF HistoryOvertakenInOrder, Asks
  <2>2. tasks[i].asked = Span(history_from, history_to)
    BY <1>1, <1>2, <2>1 DEF LastIsOfTheDates, Asks
  <2>3. answer.rows = Within(tasks[i].asked, answer.stored)
    BY <1>1, <1>2 DEF AnswersAreWhole, Asks, answer
  <2> QED
    BY <1>2, <2>2, <2>3
<1> QED
  BY <1>4, <1>8 DEF HistoryInv

LEMMA HistoryExported ==
  ASSUME HistoryInv, NEW i \in DOMAIN tasks, ExportFinished(i)
  PROVE  HistoryInv'
<1>1. HistoryReadsTypeOK /\ TableIsRead
  BY DEF HistoryInv
<1>2. /\ Delivered(i, "export") /\ tasks[i].kind = "export"
      /\ UNCHANGED <<history_from, history_to, history_rows, history_read>>
  BY DEF ExportFinished, Delivered
<1>3. tasks \in Seq(HistoryTasks)
  BY <1>1 DEF HistoryReadsTypeOK
<1>4. /\ HistoryReadsTypeOK' /\ AnswersAreWhole'
      /\ HistoryOvertakenInOrder' /\ LastIsOfTheDates'
  BY <1>2, DeliveredKeeps
<1>5. /\ \A j \in DOMAIN tasks' :
           /\ Before(i, j) \in DOMAIN tasks
           /\ tasks'[j].kind = tasks[Before(i, j)].kind
           /\ tasks'[j].overtaken <=>
                \/ tasks[Before(i, j)].overtaken
                \/ Before(i, j) < i /\ tasks[Before(i, j)].kind = "export"
      /\ \A k \in DOMAIN tasks \ {i} : \E j \in DOMAIN tasks' : k = Before(i, j)
  BY <1>2, <1>3, HistoryMoves
<1>6. ASSUME \A j \in DOMAIN tasks' : tasks'[j].kind = "history" => tasks'[j].overtaken,
             NEW k \in DOMAIN tasks, tasks[k].kind = "history"
      PROVE  tasks[k].overtaken
  <2>1. PICK j \in DOMAIN tasks' : k = Before(i, j)
    BY <1>2, <1>5, <1>6
  <2> QED
    BY <1>5, <1>6, <2>1
<1>7. TableIsRead'
  BY <1>1, <1>2, <1>6 DEF TableIsRead, Asks
<1> QED
  BY <1>4, <1>7 DEF HistoryInv

LEMMA HistoryInvStep == HistoryInv /\ [NextHistory]_historyVars => HistoryInv'
<1> SUFFICES ASSUME HistoryInv, [NextHistory]_historyVars PROVE HistoryInv'
  OBVIOUS
<1>1. ASSUME NEW text \in Texts, HistoryFromChanged(text) \/ HistoryToChanged(text)
      PROVE  HistoryInv'
  BY <1>1, HistoryTyped
<1>2. CASE start_export
  <2>1. CASE ValidBounds(history_from, history_to)
    <3>1. Span(history_from, history_to) \in [from: Int, to: Int]
      BY <2>1, ValidSpans DEF HistoryInv, HistoryReadsTypeOK
    <3>2. /\ tasks' = Append(tasks, Task("export", Span(history_from, history_to)))
          /\ UNCHANGED <<clock, rounds, history_from, history_to, history_rows, history_read>>
      BY <1>2, <2>1 DEF start_export
    <3> QED
      BY <3>1, <3>2, ExportAsked
  <2>2. CASE ~ValidBounds(history_from, history_to)
    <3>1. UNCHANGED <<roundVars, history_from, history_to, history_rows, history_read>>
      BY <1>2, <2>2 DEF start_export, roundVars
    <3> QED
      BY <3>1 DEF roundVars, HistoryInv, HistoryReadsTypeOK, AnswersAreWhole,
                  HistoryOvertakenInOrder, LastIsOfTheDates, TableIsRead, Asks
  <2> QED
    BY <2>1, <2>2
<1>3. CASE copy_diagnostics \/ DismissToast \/ UNCHANGED historyVars
  <2>1. UNCHANGED <<roundVars, history_from, history_to, history_rows, history_read>>
    BY <1>3 DEF copy_diagnostics, DismissToast, historyVars
  <2> QED
    BY <2>1 DEF roundVars, HistoryInv, HistoryReadsTypeOK, AnswersAreWhole,
                HistoryOvertakenInOrder, LastIsOfTheDates, TableIsRead, Asks
<1>4. CASE RoundStored
  BY <1>4, HistoryStored
<1>5. ASSUME NEW i \in DOMAIN tasks, ReadRounds(i) \/ HistoryLoaded(i) \/ ExportFinished(i)
      PROVE  HistoryInv'
  BY <1>5, HistoryAnswered, HistoryApplied, HistoryExported
<1>6. CASE TimePassesOnHistory
  <2>1. clock' \in Instants
        /\ UNCHANGED <<rounds, tasks, history_from, history_to, history_rows, history_read>>
    BY <1>6 DEF TimePassesOnHistory, Pass
  <2> QED
    BY <2>1 DEF HistoryInv, HistoryReadsTypeOK, AnswersAreWhole,
                HistoryOvertakenInOrder, LastIsOfTheDates, TableIsRead, Asks
<1> QED
  BY <1>1, <1>2, <1>3, <1>4, <1>5, <1>6, Zenon DEF NextHistory

\* What the calendar says of the instants: the date of each is a real one, and as
\* many days after the first of January 1970 as are full by then.  By
\* CalendarStarts and CalendarGoesOn there is one such date for each.
DatesAreOfTheCalendar ==
  \A at \in Instants : /\ DateOf[at] \in RealDates
                       /\ days_from_civil(DateOf[at]) = at \div DaySeconds

\* A second is within a span of dates when its date is between them.
LEMMA SecondsOfDates ==
  ASSUME NEW at \in Nat, NEW d \in Int
  PROVE  /\ d * DaySeconds <= at <=> d <= at \div DaySeconds
         /\ at <= d * DaySeconds + DaySeconds - 1 <=> at \div DaySeconds <= d
BY SMT DEF DaySeconds

\* The table shows the rounds of the dates above it, from the first second of the
\* one to the last of the other, whatever was typed, asked, exported and answered
\* in which order (reload_history_if_valid, parse_history_bounds).
THEOREM TableShowsItsDates ==
  ASSUME Dates \subseteq RealDates, DatesAreOfTheCalendar
  PROVE  SpecHistory => []TableIsOfTheDates
<1>1. ASSUME HistoryInv PROVE TableIsOfTheDates
  <2> SUFFICES ASSUME Settled("history", history_read), ValidBounds(history_from, history_to)
               PROVE  history_rows = {row \in history_read.stored :
                                        /\ NotAfter(history_from, DateOf[row.at])
                                        /\ NotAfter(DateOf[row.at], history_to)}
    BY DEF TableIsOfTheDates
  <2>1. /\ history_read.stored \subseteq Rounds
        /\ history_rows = Within(Span(history_from, history_to), history_read.stored)
    BY <1>1 DEF HistoryInv, TableIsRead, Settled, Asks
  <2>2. history_from \in RealDates /\ history_to \in RealDates
    BY <1>1 DEF HistoryInv, HistoryReadsTypeOK, ValidBounds, IsDateText, Texts
  <2>3. ASSUME NEW row \in history_read.stored
        PROVE  /\ parse_day_start(history_from) <= row.at <=> NotAfter(history_from, DateOf[row.at])
               /\ row.at <= parse_day_end(history_to) <=> NotAfter(DateOf[row.at], history_to)
    <3>1. row.at \in Instants /\ row.at \in Nat
      BY <2>1, <2>3, StoredRoundsConstants DEF Rounds
    <3>2. /\ DateOf[row.at] \in RealDates
          /\ days_from_civil(DateOf[row.at]) = row.at \div DaySeconds
      BY <3>1 DEF DatesAreOfTheCalendar
    <3>3. days_from_civil(history_from) \in Int /\ days_from_civil(history_to) \in Int
      BY <2>2, DaysAreNumbers DEF RealDates
    <3>4. /\ NotAfter(history_from, DateOf[row.at]) <=>
               days_from_civil(history_from) <= days_from_civil(DateOf[row.at])
          /\ NotAfter(DateOf[row.at], history_to) <=>
               days_from_civil(DateOf[row.at]) <= days_from_civil(history_to)
      BY <2>2, <3>2, CalendarInOrder
    <3>5. /\ parse_day_start(history_from) <= row.at <=>
               days_from_civil(history_from) <= row.at \div DaySeconds
          /\ row.at <= parse_day_end(history_to) <=>
               row.at \div DaySeconds <= days_from_civil(history_to)
      BY <3>1, <3>3, SecondsOfDates, Zenon DEF parse_day_start, parse_day_end
    <3> QED
      BY <3>2, <3>4, <3>5, Zenon
  <2>4. /\ Span(history_from, history_to).from = parse_day_start(history_from)
        /\ Span(history_from, history_to).to = parse_day_end(history_to)
    BY DEF Span
  <2> QED
    BY <2>1, <2>3, <2>4 DEF Within
<1>2. InitRounds /\ tasks = FirstHistory /\ InitHistory => HistoryInv
  BY HistoryInvInit
<1> QED
  BY <1>1, <1>2, HistoryInvStep, PTL DEF SpecHistory

=============================================================================
