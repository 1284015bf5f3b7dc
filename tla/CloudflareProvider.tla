-------------------------- MODULE CloudflareProvider --------------------------
(***************************************************************************)
(* engine/src/provider.rs, CloudflareProvider: a download phase made of    *)
(* successive bounded requests, an upload phase made of one streamed       *)
(* request, and the rate-limit hold that survives from call to call.       *)
(*                                                                         *)
(* The server is outside the program.  It may accept, refuse with 429 and  *)
(* any Retry-After, refuse with another status, break the connection, or   *)
(* never answer; it never sends more than a request asked for.             *)
(* `now' is the monotonic clock of both the deadlines and the hold.        *)
(***************************************************************************)
EXTENDS Integers, FiniteSetsExt

CONSTANTS
  None,
  MaxWire,          \* bound: bytes one phase can move in its budget
  ChunkBytes,       \* download_chunk_bytes
  PhaseBudget,
  SendGrace,
  BackoffStart,     \* first wait without a usable Retry-After
  BackoffCap,
  RetryAfterCap,    \* longest Retry-After taken at its word
  RetryAfters,      \* headers the server may send: seconds, or None
  U32Max,           \* where the 429 counter saturates
  Owners,           \* "keeps" its provider (CLI), "rebuilds" it each round (GUI)
  MaxTime           \* bound: no phase starts that could end after it

ASSUME ChunkAssumption == ChunkBytes \in Nat \ {0} /\ MaxWire \in Nat \ {0}
ASSUME TimeAssumption ==
  /\ PhaseBudget \in Nat \ {0}
  /\ {SendGrace, BackoffStart, BackoffCap, RetryAfterCap} \subseteq Nat \ {0}
  /\ MaxTime \in Nat /\ U32Max \in Nat \ {0}
ASSUME ServerAssumption ==
  /\ RetryAfters \subseteq Nat \cup {None}
  /\ Owners \subseteq {"keeps", "rebuilds"}

VARIABLES
  call, ceiling, moved, reply,   \* as in the contract
  counted,     \* bytes_read of a download, bytes handed over by an upload
  request,     \* the download request in flight, or None
  deadline,    \* of the phase in progress
  hold,        \* rate_limit: None, or the hold in force or expired
  now,
  owner,       \* what the caller does between rounds
  advised      \* history: the instant the last 429 asked to stay away until

phaseVars == <<call, ceiling, moved, reply, counted, request, deadline>>
vars == <<phaseVars, hold, now, owner, advised>>

Contract == INSTANCE SpeedProvider

Hold == [not_before : Nat, consecutive : 1 .. U32Max]
\* `answered': the headers are back and the body is being read.
Request == [asked : 1 .. ChunkBytes, read : 0 .. ChunkBytes, answered : BOOLEAN]

\* Option::None is none of the values it stands for the absence of.
ASSUME NoneAssumption ==
  /\ None \notin Int
  /\ None \notin Contract!Phase \cup Contract!Throughput \cup {Contract!Failure}
  /\ None \notin Hold \cup Request

TypeOK ==
  /\ Contract!ProviderTypeOK
  /\ counted \in 0 .. MaxWire
  /\ request \in Request \cup {None}
  /\ deadline \in Nat
  /\ hold \in Hold \cup {None}
  /\ now \in 0 .. MaxTime
  /\ owner \in Owners
  /\ advised \in Nat

Init ==
  /\ Contract!ProviderInit
  /\ counted = 0
  /\ request = None
  /\ deadline = 0
  /\ hold = None
  /\ now = 0
  /\ owner \in Owners
  /\ advised = 0

-----------------------------------------------------------------------------
(***************************************************************************)
(* The rate-limit hold.                                                    *)
(***************************************************************************)
HoldInForce == hold # None /\ now < hold.not_before

\* 15, 30, 60, 120 minutes, then the cap.
DefaultBackoff(consecutive) ==
  Min({BackoffStart * 2 ^ Min({consecutive - 1, 3}), BackoffCap})

\* parse_retry_after: zero and anything that is no number count as absent.
UsableRetryAfter(header) ==
  IF header \in {None, 0} THEN None ELSE Min({header, RetryAfterCap})

NoteRateLimited(header) ==
  LET consecutive == IF hold = None THEN 1
                     ELSE Min({hold.consecutive + 1, U32Max})
      asked == UsableRetryAfter(header)
      wait == IF asked = None THEN DefaultBackoff(consecutive) ELSE asked
  IN  hold' = [not_before |-> now + wait, consecutive |-> consecutive]

ClearRateLimit == hold' = None /\ UNCHANGED advised
Advise == advised' = hold'.not_before
KeepRateLimit == UNCHANGED <<hold, advised>>

-----------------------------------------------------------------------------
(***************************************************************************)
(* The two ways a phase ends.                                              *)
(***************************************************************************)
Return(value) ==
  /\ reply' = value
  /\ call' = None
  /\ request' = None
  /\ UNCHANGED <<ceiling, moved, counted, deadline, now, owner>>

\* The fraction of the budget that was measured is the clock's business: a
\* phase may come back with enough of it or not.
ReturnMeasured(capped) ==
  \E enough \in BOOLEAN : Return(Contract!Measured(counted, capped, enough))

\* A failure before the first counted byte propagates; a later one ends the
\* phase with what was counted.
FailedRequest ==
  IF counted = 0 THEN Return(Contract!Failure) /\ KeepRateLimit
                 ELSE ReturnMeasured(FALSE) /\ ClearRateLimit

-----------------------------------------------------------------------------
(***************************************************************************)
(* Download.                                                               *)
(***************************************************************************)
Begin(phase, max) ==
  /\ call = None
  /\ now + PhaseBudget + SendGrace <= MaxTime
  /\ call' = phase
  /\ ceiling' = max
  /\ moved' = 0
  /\ counted' = 0
  /\ reply' = None
  /\ request' = None
  /\ deadline' = now + PhaseBudget
  /\ UNCHANGED <<hold, now, owner, advised>>

\* Mutant: a download does not look at the hold.
CheckNothing == TRUE
CheckRateLimit == ~HoldInForce

\* A plan never hands a download a ceiling of zero.
BeginDownload(max) == max # 0 /\ CheckRateLimit /\ Begin("download", max)

RefuseDownload(max) ==
  /\ call = None
  /\ max # 0
  /\ ~CheckRateLimit
  /\ ceiling' = max
  /\ moved' = 0
  /\ counted' = 0
  /\ reply' = Contract!Failure
  /\ UNCHANGED <<call, request, deadline, hold, now, owner,
                 advised>>

CeilingReached == ceiling # None /\ ceiling <= counted

BetweenRequests == call = "download" /\ request = None

EndDownload ==
  /\ BetweenRequests
  /\ CeilingReached \/ deadline <= now
  /\ ReturnMeasured(CeilingReached)
  /\ ClearRateLimit

\* Mutant: the last request asks for a whole chunk.
SendWholeChunk ==
  /\ BetweenRequests
  /\ ~CeilingReached
  /\ now < deadline
  /\ moved < MaxWire
  /\ request' = [asked |-> ChunkBytes, read |-> 0, answered |-> FALSE]
  /\ UNCHANGED <<call, ceiling, moved, reply, counted, deadline, hold, now,
                 owner, advised>>

\* MaxWire bounds the model: a phase has moved all its budget allows.
SendRequest ==
  /\ BetweenRequests
  /\ ~CeilingReached
  /\ now < deadline
  /\ moved < MaxWire
  /\ request' = [asked |-> IF ceiling = None THEN ChunkBytes
                           ELSE Min({ChunkBytes, ceiling - counted}),
                 read |-> 0, answered |-> FALSE]
  /\ UNCHANGED <<call, ceiling, moved, reply, counted, deadline, hold, now,
                 owner, advised>>

Awaiting == request # None /\ ~request.answered
Reading == request # None /\ request.answered

Answered ==
  /\ Awaiting
  /\ request' = [request EXCEPT !.answered = TRUE]
  /\ UNCHANGED <<call, ceiling, moved, reply, counted, deadline, hold, now,
                 owner, advised>>

\* The refusal arms the hold in both branches; only a phase that counted
\* nothing is reported as the refusal itself.
RateLimited(header) ==
  /\ Awaiting
  /\ NoteRateLimited(header)
  /\ Advise
  /\ IF counted = 0 THEN Return(Contract!Failure) ELSE ReturnMeasured(FALSE)

\* Another status, a broken connection, or no answer within SendGrace.
RequestFails == Awaiting /\ FailedRequest

\* Mutant: the wait for the headers has no bound of its own.
SendUnbounded == FALSE

SendTimeout == Awaiting /\ deadline + SendGrace <= now /\ FailedRequest

ReadBody(n) ==
  /\ Reading
  /\ now < deadline
  /\ n > 0
  /\ request.read + n <= request.asked
  /\ moved + n <= MaxWire
  /\ request' = [request EXCEPT !.read = @ + n]
  /\ moved' = moved + n
  /\ UNCHANGED <<call, ceiling, reply, counted, deadline, hold, now, owner,
                 advised>>

\* The body ended, or the phase deadline passed in the middle of it.
EndBody ==
  /\ Reading
  /\ counted' = counted + request.read
  /\ request' = None
  /\ UNCHANGED <<call, ceiling, moved, reply, deadline, hold, now, owner,
                 advised>>

\* What this request had read is dropped with it.
BodyBreaks == Reading /\ FailedRequest

-----------------------------------------------------------------------------
(***************************************************************************)
(* Upload: one request, which the hold neither delays nor refuses.         *)
(***************************************************************************)
BeginUpload(max) == Begin("upload", max)

Uploading == call = "upload"

SendFrame ==
  /\ Uploading
  /\ ~CeilingReached
  /\ now < deadline
  /\ counted < MaxWire
  /\ counted' = counted + 1
  /\ moved' = moved + 1
  /\ UNCHANGED <<call, ceiling, reply, request, deadline, hold, now, owner,
                 advised>>

UploadAccepted ==
  /\ Uploading
  /\ ReturnMeasured(CeilingReached)
  /\ KeepRateLimit

UploadRateLimited(header) ==
  /\ Uploading
  /\ NoteRateLimited(header)
  /\ Advise
  /\ Return(Contract!Failure)

UploadFails == Uploading /\ Return(Contract!Failure) /\ KeepRateLimit

UploadTimeout ==
  /\ Uploading
  /\ deadline + SendGrace <= now
  /\ Return(Contract!Failure)
  /\ KeepRateLimit

-----------------------------------------------------------------------------
\* run_single_test and run_scheduled_round of the GUI build a provider each
\* time; the CLI keeps one for the whole run.
NewProvider ==
  /\ owner = "rebuilds"
  /\ call = None
  /\ hold' = None
  /\ UNCHANGED <<phaseVars, now, owner, advised>>

Tick ==
  /\ now < MaxTime
  /\ now' = now + 1
  /\ UNCHANGED <<phaseVars, hold, owner, advised>>

Download ==
  \/ \E max \in 1 .. MaxWire \cup {None} :
       BeginDownload(max) \/ RefuseDownload(max)
  \/ EndDownload
  \/ SendRequest
  \/ Answered
  \/ \E header \in RetryAfters : RateLimited(header)
  \/ RequestFails
  \/ SendTimeout
  \/ \E n \in 1 .. ChunkBytes : ReadBody(n)
  \/ EndBody
  \/ BodyBreaks

Upload ==
  \/ \E max \in 0 .. MaxWire \cup {None} : BeginUpload(max)
  \/ SendFrame
  \/ UploadAccepted
  \/ \E header \in RetryAfters : UploadRateLimited(header)
  \/ UploadFails
  \/ UploadTimeout

Next == Download \/ Upload \/ NewProvider \/ Tick

\* Time passes, and the program's own timers and loop heads are never starved.
\* The server owes nothing: its answers carry no fairness.
Fairness ==
  /\ WF_vars(Tick)
  /\ WF_vars(SendTimeout)
  /\ WF_vars(EndDownload)
  /\ WF_vars(EndBody /\ deadline <= now)
  /\ WF_vars(UploadTimeout)

Spec == Init /\ [][Next]_vars /\ Fairness

-----------------------------------------------------------------------------
(***************************************************************************)
(* Properties.                                                             *)
(***************************************************************************)

\* Both phases keep the contract of the trait: never above the ceiling, and
\* `capped' exactly when the whole ceiling was reported (provider.rs:88-92).
KeepsContract == Contract!ProviderSpec

\* A caller that keeps its provider never hammers a limit: no download request
\* leaves before the instant the last 429 asked for, whatever was called, and
\* however it ended, in between (provider.rs:115-117).
Hammers == request = None /\ request' # None /\ now < advised
HoldHonoured == [][owner = "keeps" => ~Hammers]_vars

\* "a rate limit is one condition that lasts across rounds" (lib.rs:30): no
\* caller asks again inside the wait.
LimitOutlivesRound == [][~Hammers]_vars

\* A silent server cannot hang a phase: every call returns (SEND_GRACE).
PhaseReturns == call # None ~> call = None
=============================================================================
