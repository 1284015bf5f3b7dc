-------------------------------- MODULE Round --------------------------------
(***************************************************************************)
(* engine/src/round.rs, run_round: an idle ping, then a download and an    *)
(* upload phase, each with a ping loop beside the transfer that ends when  *)
(* the transfer does.                                                      *)
(*                                                                         *)
(* The transfer is any SpeedProvider (its contract, module SpeedProvider); *)
(* the ping loop is a second activity of the same task, joined with it.    *)
(* `elapsed' is the time since the current phase began; one ping interval  *)
(* is one unit of it.  A probe that is lost is a sample like any other.    *)
(***************************************************************************)
EXTENDS Integers

CONSTANTS
  None,
  MaxWire,         \* bound: bytes one phase can move
  Ceilings,        \* byte ceilings a plan may hand to the round
  IdlePing,        \* length of the idle phase
  PhaseBudget,     \* length a transfer is allowed, and the ping loop's bound
  Grace,           \* bound: how long past it the provider takes to return
  MinSamples,      \* MIN_UNDER_LOAD_SAMPLES
  ProviderFails    \* whether the provider may lose bytes or return an error

ASSUME CeilingAssumption == Ceilings \subseteq (1 .. MaxWire) \cup {None}
ASSUME LengthAssumption ==
  {IdlePing, PhaseBudget, Grace, MinSamples} \subseteq Nat \ {0}

VARIABLES
  metrics, byte_ceiling, has_target,   \* RoundConfig
  pc,             \* "start", "idle", "download", "upload" or "done"
  call, ceiling, moved, reply,         \* the provider
  pinger,         \* "off", "starting", "probing" or "sleeping"
  sent,           \* samples of the current ping loop
  late,           \* history: those of them begun after the load had ended
  wake,           \* when the sleeping loop takes its next sample
  elapsed,
  reading,        \* RoundResult::down and up
  window,         \* RoundResult::down_load and up_load
  under_load,     \* whether ping_down and ping_up are reported
  wire,           \* history: what each phase really moved
  reasons         \* skip_reasons

config == <<metrics, byte_ceiling, has_target>>
provider == <<call, ceiling, moved, reply>>
pingLoop == <<pinger, sent, late, wake>>
results == <<reading, window, under_load, wire, reasons>>
vars == <<config, pc, provider, pingLoop, elapsed, results>>

P == INSTANCE SpeedProvider
O == INSTANCE RoundOutcome

Phase == P!Phase
MetricSelection == [download : BOOLEAN, upload : BOOLEAN, ping : BOOLEAN]
Reading == [bytes : 0 .. MaxWire, capped : BOOLEAN]
LoadWindow == [bytes : 0 .. MaxWire, ping_samples : Nat]
\* Option::None is none of the values it stands for the absence of.
ASSUME NoneAssumption ==
  /\ MaxWire \in Nat /\ None \notin Int
  /\ None \notin Phase \cup Reading \cup LoadWindow \cup P!Throughput \cup {P!Failure}

Reason == {<<"ping", "no targets">>} \cup (Phase \X {"partial", "provider"})

TypeOK ==
  /\ metrics \in MetricSelection
  /\ byte_ceiling \in Ceilings
  /\ has_target \in BOOLEAN
  /\ pc \in Phase \cup {"start", "idle", "done"}
  /\ P!ProviderTypeOK
  /\ pinger \in {"off", "starting", "probing", "sleeping"}
  /\ {sent, late, wake, elapsed} \subseteq Nat
  /\ reading \in [Phase -> Reading \cup {None}]
  /\ window \in [Phase -> LoadWindow \cup {None}]
  /\ under_load \in [Phase -> BOOLEAN]
  /\ wire \in [Phase -> 0 .. MaxWire]
  /\ reasons \subseteq Reason

Init ==
  /\ metrics \in MetricSelection
  /\ byte_ceiling \in Ceilings
  /\ has_target \in BOOLEAN
  /\ pc = "start"
  /\ P!ProviderInit
  /\ pinger = "off" /\ sent = 0 /\ late = 0 /\ wake = 0
  /\ elapsed = 0
  /\ reading = [p \in Phase |-> None]
  /\ window = [p \in Phase |-> None]
  /\ under_load = [p \in Phase |-> FALSE]
  /\ wire = [p \in Phase |-> 0]
  /\ reasons = {}

-----------------------------------------------------------------------------
(***************************************************************************)
(* The order of the phases.                                                *)
(***************************************************************************)
Pinged == metrics.ping /\ has_target

\* Bytes a phase's window holds, zero when the phase did not run.
WindowBytes(windows, p) == IF windows[p] = None THEN 0 ELSE windows[p].bytes

\* Mutant: each phase may use the whole ceiling.
PhaseCeilingWhole(p, windows) == byte_ceiling

\* Mutant: only a reading that was kept counts against the upload.
PhaseCeilingOfReading(p, windows) ==
  LET spent == IF reading'["download"] = None THEN 0
               ELSE reading'["download"].bytes
  IN  IF byte_ceiling = None \/ p = "download" THEN byte_ceiling
      ELSE byte_ceiling - spent

\* The upload gets what the download's window left of the round's ceiling.
PhaseCeiling(p, windows) ==
  LET spent == WindowBytes(windows, "download")
  IN  IF byte_ceiling = None \/ p = "download" THEN byte_ceiling
      ELSE IF spent <= byte_ceiling THEN byte_ceiling - spent ELSE 0

NextPhase(from) ==
  IF from \in {"start", "idle"} /\ metrics.download THEN "download"
  ELSE IF from # "upload" /\ metrics.upload THEN "upload"
  ELSE "done"

\* A fresh ping loop beside whatever begins now.  In a loaded phase join! may
\* run either side first; without a target the transfer runs alone.
FreshPingLoop(on) ==
  /\ pinger' = IF on THEN "starting" ELSE "off"
  /\ sent' = 0 /\ late' = 0 /\ wake' = 0
  /\ elapsed' = 0

Enter(p) ==
  /\ pc' = p
  /\ FreshPingLoop(p # "done" /\ Pinged)
  /\ IF p = "done" THEN UNCHANGED provider
                   ELSE P!Call(p, PhaseCeiling(p, window'))

Start ==
  /\ pc = "start"
  /\ reasons' = IF metrics.ping /\ ~has_target THEN {<<"ping", "no targets">>} ELSE {}
  /\ UNCHANGED <<config, reading, window, under_load, wire>>
  /\ IF Pinged THEN pc' = "idle" /\ FreshPingLoop(TRUE) /\ UNCHANGED provider
               ELSE Enter(NextPhase("start"))

EndIdle ==
  /\ pc = "idle"
  /\ pinger = "off"
  /\ UNCHANGED <<config, results>>
  /\ Enter(NextPhase("idle"))

-----------------------------------------------------------------------------
(***************************************************************************)
(* The transfer.                                                           *)
(***************************************************************************)
Transfer(n) ==
  /\ P!Move(n)
  /\ UNCHANGED <<config, pc, pingLoop, elapsed, results>>

TransferEnds ==
  /\ \/ \E bytes \in 0 .. MaxWire, enough \in BOOLEAN :
          /\ ~ProviderFails => bytes = moved
          /\ P!Succeed(bytes, enough)
     \/ ProviderFails /\ P!Fail
  /\ UNCHANGED <<config, pc, pingLoop, elapsed, results>>

\* load_ended: cancelled by the transfer's return, and by nothing in the idle
\* phase, whose token nobody cancels.
LoadEnded == pc \in Phase /\ call = None

Trusted(r) == r.ok /\ (r.capped \/ r.enough)

PhaseReason(p) ==
  IF Trusted(reply) THEN {}
  ELSE {<<p, IF reply.ok THEN "partial" ELSE "provider">>}

ReportedBytes == IF reply.ok THEN reply.bytes ELSE 0

EndPhase(p) ==
  /\ pc = p
  /\ LoadEnded
  /\ pinger = "off"
  /\ reading' = [reading EXCEPT ![p] =
       IF Trusted(reply) THEN [bytes |-> reply.bytes, capped |-> reply.capped]
                         ELSE None]
  /\ window' = [window EXCEPT ![p] = [bytes |-> ReportedBytes,
                                      ping_samples |-> sent]]
  /\ under_load' = [under_load EXCEPT ![p] = Pinged /\ sent >= MinSamples]
  /\ wire' = [wire EXCEPT ![p] = moved]
  /\ reasons' = reasons \cup PhaseReason(p)
  /\ UNCHANGED config
  /\ Enter(NextPhase(p))

-----------------------------------------------------------------------------
(***************************************************************************)
(* run_ping_loop.                                                          *)
(***************************************************************************)
\* Mutant: the idle loop waits for the end of a load nobody runs.
LoopBoundNever ==
  IF pc = "idle" THEN PhaseBudget + Grace + 1 ELSE PhaseBudget

LoopBound == IF pc = "idle" THEN IdlePing ELSE PhaseBudget

Probe ==
  /\ pinger' = "probing"
  /\ late' = late + IF LoadEnded THEN 1 ELSE 0
  /\ UNCHANGED <<config, pc, provider, sent, wake, elapsed, results>>

FirstProbe == pinger = "starting" /\ Probe

\* Mutant: probes keep to a fixed grid, catch up on missed slots, and the loop
\* looks at the token only while it sleeps.
ProbeReturnsOnGrid ==
  /\ pinger = "probing"
  /\ sent' = sent + 1
  /\ pinger' = IF LoopBound <= elapsed THEN "off" ELSE "sleeping"
  /\ wake' = wake + 1
  /\ UNCHANGED <<config, pc, provider, late, elapsed, results>>

ProbeReturns ==
  /\ pinger = "probing"
  /\ sent' = sent + 1
  /\ pinger' = IF LoopBound <= elapsed \/ LoadEnded THEN "off" ELSE "sleeping"
  /\ wake' = elapsed + 1
  /\ UNCHANGED <<config, pc, provider, late, elapsed, results>>

\* select! picks at random when the sleep is over and the token is cancelled.
SleepOver == pinger = "sleeping" /\ wake <= elapsed /\ Probe

Cancelled ==
  /\ pinger = "sleeping"
  /\ LoadEnded
  /\ pinger' = "off"
  /\ UNCHANGED <<config, pc, provider, sent, late, wake, elapsed, results>>

\* The transfer's return and the ping loop's next poll belong to one poll of
\* the task, so no time passes between them unless a probe is in flight.
SamePoll == LoadEnded /\ pinger \in {"starting", "sleeping"}

Tick ==
  /\ pinger # "off" \/ call # None
  /\ ~SamePoll
  /\ elapsed < PhaseBudget + Grace
  /\ elapsed' = elapsed + 1
  /\ UNCHANGED <<config, pc, provider, pingLoop, results>>

PingLoop == FirstProbe \/ ProbeReturns \/ SleepOver \/ Cancelled

Next ==
  \/ Start
  \/ EndIdle
  \/ \E n \in 1 .. MaxWire : Transfer(n)
  \/ TransferEnds
  \/ \E p \in Phase : EndPhase(p)
  \/ PingLoop
  \/ Tick

\* Time passes, the task is polled, a probe is bounded by its timeout, and
\* every provider call returns (CloudflareProvider!PhaseReturns).
Fairness ==
  /\ WF_vars(Start) /\ WF_vars(EndIdle) /\ WF_vars(TransferEnds)
  /\ \A p \in Phase : WF_vars(EndPhase(p))
  /\ WF_vars(PingLoop)
  /\ WF_vars(Tick)

Spec == Init /\ [][Next]_vars /\ Fairness

-----------------------------------------------------------------------------
(***************************************************************************)
(* The result, and the properties.                                         *)
(***************************************************************************)
Charged == WindowBytes(window, "download") + WindowBytes(window, "upload")
Moved == wire["download"] + wire["upload"]

Result ==
  [charged |-> Charged, wire |-> Moved,
   read |-> {p \in Phase : reading[p] # None},
   capped |-> \E p \in Phase : reading[p] # None /\ reading[p].capped,
   skipped |-> {reason[1] : reason \in reasons}]

\* run_round is one of the outcomes its callers are written against: what is
\* charged stays inside the ceiling across both phases, and the reason names
\* exactly the readings that were wanted and are missing (round.rs:185-213,
\* 269-276).
ImplementsOutcome == pc = "done" => O!Allowed(Result, metrics, byte_ceiling)

\* Bytes beyond the ceiling are only ever bytes a download lost to a broken
\* request: the upload's allowance is computed from what was reported.
OverrunIsLostDownload ==
  pc = "done" /\ byte_ceiling # None =>
    Moved - byte_ceiling <= wire["download"] - WindowBytes(window, "download")

\* Of the samples a window counts as taken under load, no more than one began
\* after the load was over, so the three it takes to report the series hold two
\* of the load (round.rs:461-474, MIN_UNDER_LOAD_SAMPLES): the loop may outlive
\* the transfer by one probe, never by two.  That it may by one is against the
\* source (SamplesBegunUnderLoad below).
AtMostOneLateSample == late <= 1

\* The provider answers, the ping loop ends with it, and the round returns.
RoundReturns == <>(pc = "done")

\* What the source says of it and the code does not always do.

\* A window counts "Ping samples that STARTED while that load was running"
\* (round.rs:144).  But select! may prefer the sleep that is over to the token,
\* and a transfer that returns at once is over before the first probe; the
\* window counts that probe too.
SamplesBegunUnderLoad ==
  [][\A p \in Phase : window'[p] # window[p] => window'[p].ping_samples = sent - late]_vars

\* "so a round can never move more than the daily budget had left"
\* (round.rs:269-270).
NeverMovesMoreThanLeft ==
  pc = "done" /\ byte_ceiling # None => Moved <= byte_ceiling

\* "an exhausted data budget produce[s] skip semantics: the matching slot in
\* RoundResult stays None, it is never reported as a zero" (round.rs:90-92).
ExhaustedIsNeverZero ==
  \A p \in Phase :
    reading[p] # None /\ reading[p].capped => reading[p].bytes # 0
=============================================================================
