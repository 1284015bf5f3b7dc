----------------------------- MODULE RoundOutcome -----------------------------
(***************************************************************************)
(* What the owner of a round may rely on, whatever happened inside it: the *)
(* abstract side of run_round (engine/src/round.rs).  Module Round checks  *)
(* that the real round returns nothing else; the loops that run rounds     *)
(* (Continuous, AppContinuous) are built on these outcomes alone.          *)
(***************************************************************************)
EXTENDS Integers

CONSTANTS
  None,
  MaxWire      \* bound of the model: bytes one phase can move

Phases == {"download", "upload"}

\* charged: the bytes of both load windows, which the budget is charged with.
\* wire: the bytes the round really moved.
\* read: the directions it has a throughput reading for.
\* skipped: what its skip reason names.
Outcome == [charged : 0 .. 2 * MaxWire, wire : 0 .. 2 * MaxWire,
            read : SUBSET Phases, capped : BOOLEAN,
            skipped : SUBSET (Phases \cup {"ping"})]

\* The throughput phases of a selection of metrics.
Wanted(metrics) == {p \in Phases : IF p = "download" THEN metrics.download ELSE metrics.upload}

\* A round asked for `metrics' under `ceiling' may come back with o.
Allowed(o, metrics, ceiling) ==
  \* each reading that was wanted is there, or the skip reason names it; no
  \* other phase is named
  /\ o.read \subseteq Wanted(metrics)
  /\ o.skipped \cap Phases = Wanted(metrics) \ o.read
  /\ "ping" \in o.skipped => metrics.ping
  /\ o.charged <= o.wire
  /\ o.capped => ceiling # None /\ o.read # {}
  /\ Wanted(metrics) = {} => o.wire = 0 /\ ~o.capped
  \* what the budget is charged with never exceeds what it had left, and the
  \* round moves no more than that once for each phase it runs
  /\ ceiling # None =>
       /\ o.charged <= ceiling
       /\ o.wire <= 2 * ceiling
       /\ ~(metrics.download /\ metrics.upload) => o.wire <= ceiling

\* What the owner of a round does with it, the bytes to charge and the row to
\* store, is that of some allowed outcome.
Report == [charged : 0 .. 2 * MaxWire, read : SUBSET Phases,
           skipped : SUBSET (Phases \cup {"ping"})]
MayReport(r, metrics, ceiling) ==
  \E wire \in 0 .. 2 * MaxWire, capped \in BOOLEAN :
    Allowed([charged |-> r.charged, wire |-> wire, read |-> r.read,
             capped |-> capped, skipped |-> r.skipped], metrics, ceiling)
Reports(metrics, ceiling) == {r \in Report : MayReport(r, metrics, ceiling)}
=============================================================================
