---------------------------- MODULE PingCommand ----------------------------
(***************************************************************************)
(* `alidade ping-monitor' and the probes it sends.  Every tick probes all  *)
(* watched targets at once, stores each sample as its probe comes back,    *)
(* and rests an interval.  A probe that is not back within the interval is *)
(* a loss; one that waits on a thread of the blocking pool leaves the      *)
(* thread behind.                                                          *)
(***************************************************************************)
EXTENDS Naturals, Sequences, FiniteSets

CONSTANTS
  Lost,        \* PingSample.rtt: None
  Configured,  \* settings.targets
  Holds,       \* the names each text of --target is, or is part of, in any case
  Asked,       \* the lists of --target the user may give
  MaxSeconds,  \* bound: --seconds
  Interval,    \* PING_INTERVAL, the timeout of a probe as well
  MaxResolve,  \* the longest the resolver of the system takes
  MaxStall,    \* bound: the time the store keeps a tick beyond its probes
  OnWindows    \* only Windows builds have ICMP

TargetSpec == [name: STRING, enabled: BOOLEAN, probe: {"icmp", "tcp"}, literal: BOOLEAN]

ASSUME PingCommandConstants ==
  /\ Configured \in Seq(TargetSpec)
  /\ Asked \subseteq Seq(DOMAIN Holds)
  /\ {MaxSeconds, Interval, MaxResolve, MaxStall} \subseteq Nat
  /\ Interval > 0
  /\ OnWindows \in BOOLEAN

VARIABLES
  watched,  \* the targets, as resolved at the start
  seconds,  \* the ticks to do
  tick,     \* the ticks begun
  stage,    \* between ticks, probing, resting, ended
  age,      \* the time since the tick, or its rest, began
  probes,   \* the probe of each watched target
  threads,  \* threads of the blocking pool that look up a host or wait for an echo
  rows,     \* the samples stored
  unsaved   \* the samples the store refused

commandVars == <<watched, seconds, tick, stage, age, probes, threads, rows, unsaved>>

-----------------------------------------------------------------------------
\* The first enabled target for each text, or nothing at all when a text has
\* none; every enabled target, each at its place in the settings, when no text is
\* given.
Enabled == {i \in DOMAIN Configured : Configured[i].enabled}

Candidates(text) == {i \in Enabled : Configured[i].name \in Holds[text]}

First(positions) == CHOOSE i \in positions : \A j \in positions : i <= j

resolve_ping_targets(wanted) ==
  IF wanted = <<>> THEN [i \in Enabled |-> Configured[i]]
  ELSE IF \E i \in DOMAIN wanted : Candidates(wanted[i]) = {} THEN <<>>
  ELSE [i \in DOMAIN wanted |-> Configured[First(Candidates(wanted[i]))]]

\* ping_monitor: without targets it only says so.
InitCommand ==
  /\ \E wanted \in Asked : watched = resolve_ping_targets(wanted)
  /\ \E given \in 0..MaxSeconds : seconds = IF given = 0 THEN 1 ELSE given
  /\ stage = IF DOMAIN watched = {} THEN "ended" ELSE "between"
  /\ tick = 0 /\ age = 0
  /\ probes = <<>> /\ threads = {}
  /\ rows = {} /\ unsaved = {}

-----------------------------------------------------------------------------
(* A probe: it is looking its host up, or asking, or waiting for a thread,  *)
(* until `due'; back with an rtt; joined.                                   *)

Probing(doing, due, rtt) == [doing |-> doing, since |-> 0, due |-> due, rtt |-> rtt]

Running(probe) == probe.doing \in {"resolving", "asking", "waiting"}

Returned(probe, rtt) == [probe EXCEPT !.doing = "back", !.rtt = rtt]

OnAThread(target) == target.probe = "icmp" /\ OnWindows

\* probe_once; an address needs no lookup.
probe_once(target) ==
  CASE OnAThread(target) -> Probing("waiting", Interval, Lost)
    [] target.probe = "icmp" /\ ~OnWindows -> Probing("back", 0, Lost)
    [] target.probe = "tcp" /\ target.literal -> Probing("asking", Interval, Lost)
    [] target.probe = "tcp" /\ ~target.literal -> Probing("resolving", Interval, Lost)

spawn_blocking(i) ==
  [tick |-> tick', of |-> i, age |-> 0, since |-> 0,
   doing |-> IF watched[i].literal THEN "echoing" ELSE "resolving"]

StartTick ==
  /\ stage = "between"
  /\ tick' = tick + 1
  /\ stage' = "probing" /\ age' = 0
  /\ probes' = [i \in DOMAIN watched |-> probe_once(watched[i])]
  /\ threads' = threads \cup {spawn_blocking(i) : i \in {j \in DOMAIN watched : OnAThread(watched[j])}}
  /\ UNCHANGED <<watched, seconds, rows, unsaved>>

Becomes(i, probe) ==
  /\ stage = "probing" /\ i \in DOMAIN probes
  /\ probes' = [probes EXCEPT ![i] = probe]
  /\ UNCHANGED <<watched, seconds, tick, stage, age, threads, rows, unsaved>>

\* Mutant: the connect has the whole timeout to itself.
connect_by_whole == age + Interval

\* What the lookup took is not there for the connect.
connect_by == age + (Interval - age)

\* The host is found, unless the time is over, or is not.
TcpResolves(i) ==
  /\ probes[i].doing = "resolving"
  /\ \/ /\ age < Interval
        /\ Becomes(i, [probes[i] EXCEPT !.doing = "asking", !.since = age, !.due = connect_by])
     \/ Becomes(i, Returned(probes[i], Lost))

\* The time of the connect alone; refused is lost.
TcpAnswers(i) ==
  /\ probes[i].doing = "asking"
  /\ \E rtt \in {age - probes[i].since, Lost} : Becomes(i, Returned(probes[i], rtt))

Elapsed(i) ==
  /\ Running(probes[i]) /\ age >= probes[i].due
  /\ Becomes(i, Returned(probes[i], Lost))

\* A thread has its result; only the probe that spawned it waits for it, and
\* only until its time is over.
ThreadEnds(thread, rtt) ==
  /\ threads' = threads \ {thread}
  /\ probes' =
       [i \in DOMAIN probes |->
          IF stage = "probing" /\ thread.tick = tick /\ thread.of = i /\ probes[i].doing = "waiting"
            THEN Returned(probes[i], rtt) ELSE probes[i]]
  /\ UNCHANGED <<watched, seconds, tick, stage, age, rows, unsaved>>

ThreadResolves(thread) ==
  /\ thread.doing = "resolving"
  /\ \/ /\ threads' = (threads \ {thread}) \cup {[thread EXCEPT !.doing = "echoing", !.since = thread.age]}
        /\ UNCHANGED <<watched, seconds, tick, stage, age, probes, rows, unsaved>>
     \/ ThreadEnds(thread, Lost)

\* IcmpSendEcho: the time of the echo, or no reply.
ThreadEchoes(thread) ==
  /\ thread.doing = "echoing"
  /\ \E rtt \in {thread.age - thread.since, Lost} : ThreadEnds(thread, rtt)

-----------------------------------------------------------------------------
Sample(i) == [tick |-> tick, of |-> i, answered |-> probes[i].rtt # Lost]

\* Whichever probe is back next is stored, or reported as not stored.
Join(i) ==
  /\ stage = "probing" /\ probes[i].doing = "back"
  /\ probes' = [probes EXCEPT ![i].doing = "joined"]
  /\ \/ rows' = rows \cup {Sample(i)} /\ UNCHANGED unsaved
     \/ unsaved' = unsaved \cup {Sample(i)} /\ UNCHANGED rows
  /\ UNCHANGED <<watched, seconds, tick, stage, age, threads>>

\* Mutant: the next tick follows at once.
RestLess == 0
RestFor == Interval

Rest ==
  /\ stage = "probing" /\ \A i \in DOMAIN probes : probes[i].doing = "joined"
  /\ stage' = "resting" /\ age' = 0
  /\ probes' = <<>>
  /\ UNCHANGED <<watched, seconds, tick, threads, rows, unsaved>>

RestOver ==
  /\ stage = "resting" /\ age >= RestFor
  /\ stage' = IF tick < seconds THEN "between" ELSE "ended"
  /\ UNCHANGED <<watched, seconds, tick, age, probes, threads, rows, unsaved>>

\* Timers fire on time; the resolver ends when it ends.
TimePassesInCommand ==
  /\ stage = "probing" =>
       /\ \A i \in DOMAIN probes : Running(probes[i]) => age < probes[i].due
       /\ age < Interval + MaxStall
  /\ stage = "resting" => age < RestFor
  /\ stage \in {"probing", "resting"}
  /\ \A thread \in threads :
       thread.age < IF thread.doing = "resolving" THEN MaxResolve ELSE thread.since + Interval
  /\ age' = age + 1
  /\ threads' = {[thread EXCEPT !.age = @ + 1] : thread \in threads}
  /\ UNCHANGED <<watched, seconds, tick, stage, probes, rows, unsaved>>

NextCommand ==
  \/ StartTick
  \/ \E i \in DOMAIN probes : TcpResolves(i) \/ TcpAnswers(i) \/ Elapsed(i) \/ Join(i)
  \/ \E thread \in threads : ThreadResolves(thread) \/ ThreadEchoes(thread)
  \/ Rest
  \/ RestOver
  \/ TimePassesInCommand

SpecCommand == InitCommand /\ [][NextCommand]_commandVars

-----------------------------------------------------------------------------
CommandTypeOK ==
  /\ \A i \in DOMAIN watched : watched[i] \in TargetSpec
  /\ seconds \in 1..(MaxSeconds + 1) /\ tick \in 0..seconds
  /\ stage \in {"between", "probing", "resting", "ended"}
  /\ age \in 0..(2 * Interval + MaxStall)
  /\ \A i \in DOMAIN probes : probes[i].rtt = Lost \/ probes[i].rtt \in 0..Interval
  /\ rows \cap unsaved = {}

\* A tick is over only with one sample of every watched target, answered or
\* lost, stored or reported as not stored, however late a thread came back with
\* an earlier answer; and no probe holds a tick for longer than the interval
\* (main.rs: one dead target's loss costs the tick nothing beyond what it would
\* have cost alone).
TickIsWhole ==
  /\ \A t \in 1..(IF stage = "probing" THEN tick - 1 ELSE tick), i \in DOMAIN watched :
       Cardinality({row \in rows \cup unsaved : row.tick = t /\ row.of = i}) = 1
  /\ stage = "probing" /\ age > Interval => \A i \in DOMAIN probes : ~Running(probes[i])

\* Threads that nobody waits for do not pile up: one that outlives its probe has
\* held its tick for the whole interval, and a rest follows, so few begin before
\* the resolver lets go of the first.
ThreadsAreFew ==
  Cardinality(threads) <=
    Cardinality({i \in DOMAIN watched : OnAThread(watched[i])})
      * (1 + ((MaxResolve + Interval) \div (2 * Interval)))
=============================================================================
