---------------------------- MODULE SpeedProvider ----------------------------
(***************************************************************************)
(* The contract of the SpeedProvider trait (engine/src/provider.rs): what  *)
(* a round may rely on whatever network is behind it.  One phase at a time *)
(* is called with an optional byte ceiling; it never moves more than that; *)
(* it comes back with a throughput that says whether the ceiling ended it, *)
(* or with an error.                                                       *)
(*                                                                         *)
(* `moved' is what really crossed the wire during the call.  The caller    *)
(* never sees it: it sees `reply' alone, whose byte count may be smaller   *)
(* (a request that broke half way) and which is absent after an error.     *)
(***************************************************************************)
EXTENDS Integers

CONSTANTS
  None,      \* Option::None
  MaxWire    \* bound of the model: bytes one phase can move in its budget

VARIABLES
  call,      \* the phase in progress, or None
  ceiling,   \* max_bytes of the last call
  moved,     \* bytes the last call put on the wire so far
  reply      \* what the last call returned, None while it runs

providerVars == <<call, ceiling, moved, reply>>

Phase == {"download", "upload"}
Wire == 0 .. MaxWire

\* Result<Throughput, EngineError>.  `enough': the measured duration reached
\* the fraction of the phase budget below which a rate is not trusted.
Throughput == [ok : {TRUE}, bytes : Wire, capped : BOOLEAN, enough : BOOLEAN]
Failure == [ok |-> FALSE]
Measured(bytes, capped, enough) ==
  [ok |-> TRUE, bytes |-> bytes, capped |-> capped, enough |-> enough]

ProviderTypeOK ==
  /\ call \in Phase \cup {None}
  /\ ceiling \in Wire \cup {None}
  /\ moved \in Wire
  /\ reply \in Throughput \cup {Failure, None}

ProviderInit ==
  /\ call = None
  /\ ceiling = None
  /\ moved = 0
  /\ reply = None

Call(phase, max) ==
  /\ call = None
  /\ call' = phase
  /\ ceiling' = max
  /\ moved' = 0
  /\ reply' = None

Move(n) ==
  /\ call # None
  /\ moved' = moved + n
  /\ moved' <= IF ceiling = None THEN MaxWire ELSE ceiling
  /\ UNCHANGED <<call, ceiling, reply>>

\* Having reported the whole ceiling is exactly what `capped' means.
Succeed(bytes, enough) ==
  /\ call # None
  /\ bytes <= moved
  /\ reply' = Measured(bytes, bytes = ceiling, enough)
  /\ call' = None
  /\ UNCHANGED <<ceiling, moved>>

Fail ==
  /\ call # None
  /\ reply' = Failure
  /\ call' = None
  /\ UNCHANGED <<ceiling, moved>>

\* A call refused before it touched the network (a rate limit still in force).
Refuse(phase, max) ==
  /\ call = None
  /\ ceiling' = max
  /\ moved' = 0
  /\ reply' = Failure
  /\ UNCHANGED call

ProviderNext ==
  \/ \E p \in Phase, max \in Wire \cup {None} : Call(p, max) \/ Refuse(p, max)
  \/ \E n \in Wire : Move(n)
  \/ \E b \in Wire, enough \in BOOLEAN : Succeed(b, enough)
  \/ Fail

ProviderSpec == ProviderInit /\ [][ProviderNext]_providerVars
=============================================================================
