----------------------------- MODULE ProbesProofs -----------------------------
(***************************************************************************)
(* What is proved of the two that probe the network.                       *)
(*                                                                         *)
(* The provider of CloudflareProvider, for every size of chunks, every     *)
(* ceiling, every wait the server asks for and any number of phases: it    *)
(* implements SpeedProvider, and it honours the rate-limit hold.           *)
(*                                                                         *)
(* The monitor of PingMonitor, for every set of names and settings, any    *)
(* number of cycles and of edits: its rows keep their samples.             *)
(***************************************************************************)
EXTENDS CloudflareProvider, PingMonitor, SequenceTheorems, FiniteSetTheorems,
        WellFoundedInduction, TLAPS

\* What a phase in progress has put on the wire is what it has counted and what
\* its request in flight has read, and the request asked for no more than the
\* ceiling has left.
WireInv ==
  /\ call # None /\ request = None => moved = counted
  /\ request # None =>
       /\ call = "download"
       /\ moved = counted + request.read
       /\ request.read <= request.asked
       /\ ceiling # None => counted + request.asked <= ceiling
  /\ call # None /\ ceiling # None => counted <= ceiling

\* The last instant asked for is over, or the hold still names it; a download in
\* progress began after it.
HoldInv ==
  owner = "keeps" =>
    /\ advised <= now \/ (hold # None /\ hold.not_before = advised)
    /\ call = "download" => advised <= now

ProviderInv == TypeOK /\ WireInv

-----------------------------------------------------------------------------
(***************************************************************************)
(* The waits.                                                              *)
(***************************************************************************)
LEMMA MinOfTwo ==
  ASSUME NEW a \in Int, NEW b \in Int
  PROVE  Min({a, b}) \in {a, b} /\ Min({a, b}) <= a /\ Min({a, b}) <= b
<1> DEFINE least == CHOOSE x \in {a, b} : \A y \in {a, b} : x <= y
<1>1. \E x \in {a, b} : \A y \in {a, b} : x <= y
  OBVIOUS
<1>2. least \in {a, b} /\ \A y \in {a, b} : least <= y
  BY <1>1
<1>3. Min({a, b}) = least
  BY DEF Min
<1> QED
  BY <1>2, <1>3

\* The backoff without a usable Retry-After is a length of time, capped.
LEMMA DefaultBackoffIsTime ==
  ASSUME NEW consecutive \in Nat \ {0}
  PROVE  DefaultBackoff(consecutive) \in Nat /\ DefaultBackoff(consecutive) <= BackoffCap
<1> DEFINE shift == Min({consecutive - 1, 3})
<1>1. shift \in 0 .. 3
  <2> DEFINE before == consecutive - 1
  <2>1. before \in Nat /\ 3 \in Int /\ before \in Int
    OBVIOUS
  <2> HIDE DEF before
  <2>2. Min({before, 3}) \in {before, 3} /\ Min({before, 3}) <= 3
    BY ONLY <2>1, MinOfTwo, Zenon
  <2>3. Min({before, 3}) \in 0 .. 3
    BY <2>1, <2>2
  <2> QED
    BY <2>3 DEF before
<1>2. 2 ^ shift \in Nat
  <2>1. 2 ^ 0 = 1 /\ 2 ^ 1 = 2 /\ 2 ^ 2 = 4 /\ 2 ^ 3 = 8
    OBVIOUS
  <2>2. shift = 0 \/ shift = 1 \/ shift = 2 \/ shift = 3
    BY <1>1
  <2>3. 1 \in Nat /\ 2 \in Nat /\ 4 \in Nat /\ 8 \in Nat
    OBVIOUS
  <2> HIDE DEF shift
  <2> QED
    BY ONLY <2>1, <2>2, <2>3, Zenon
<1>3. BackoffStart \in Nat /\ BackoffCap \in Nat
  BY TimeAssumption
<1> HIDE DEF shift
<1>4. BackoffStart * 2 ^ shift \in Nat
  BY <1>2, <1>3
<1>5. DefaultBackoff(consecutive) = Min({BackoffStart * 2 ^ shift, BackoffCap})
  BY DEF DefaultBackoff, shift
<1> DEFINE first == BackoffStart * 2 ^ shift
<1>6. first \in Int /\ BackoffCap \in Int
  BY <1>3, <1>4
<1>7. first \in Nat /\ BackoffCap \in Nat /\ DefaultBackoff(consecutive) = Min({first, BackoffCap})
  BY <1>3, <1>4, <1>5
<1> HIDE DEF first
<1>8. /\ Min({first, BackoffCap}) \in {first, BackoffCap}
      /\ Min({first, BackoffCap}) <= BackoffCap
  BY ONLY <1>6, MinOfTwo, Zenon
<1> QED
  BY <1>7, <1>8

\* A refusal arms a hold that ends no earlier than now.
LEMMA NoteArmsHold ==
  ASSUME hold \in Hold \cup {None}, now \in Nat, NEW header \in RetryAfters,
         NoteRateLimited(header)
  PROVE  hold' \in Hold /\ now <= hold'.not_before
<1> DEFINE consecutive == IF hold = None THEN 1 ELSE Min({hold.consecutive + 1, U32Max})
           advice == UsableRetryAfter(header)
           wait == IF advice = None THEN DefaultBackoff(consecutive) ELSE advice
<1>1. U32Max \in Nat \ {0} /\ RetryAfterCap \in Nat
  BY TimeAssumption
<1>2. consecutive \in 1 .. U32Max
  <2>1. hold # None => hold.consecutive \in 1 .. U32Max
    BY DEF Hold
  <2> DEFINE next == hold.consecutive + 1
  <2>2. hold # None => next \in Int /\ U32Max \in Int /\ next \in Nat \ {0}
    BY <1>1, <2>1
  <2> HIDE DEF next
  <2>3. hold # None =>
          Min({next, U32Max}) \in {next, U32Max} /\ Min({next, U32Max}) <= U32Max
    BY ONLY <2>2, MinOfTwo, Zenon
  <2>4. hold # None => Min({next, U32Max}) \in 1 .. U32Max
    BY <1>1, <2>2, <2>3
  <2> QED
    BY <1>1, <2>4 DEF next
<1>3. advice \in Nat \cup {None}
  <2>1. header \in Nat \cup {None}
    BY ServerAssumption
  <2>2. header \in Nat =>
          Min({header, RetryAfterCap}) \in {header, RetryAfterCap}
    <3>1. header \in Nat => header \in Int /\ RetryAfterCap \in Int
      BY <1>1
    <3> QED
      BY ONLY <3>1, MinOfTwo, Zenon
  <2>3. header \in Nat => Min({header, RetryAfterCap}) \in Nat
    BY <1>1, <2>2
  <2> QED
    BY <2>1, <2>3 DEF UsableRetryAfter
<1>4. wait \in Nat
  BY <1>2, <1>3, DefaultBackoffIsTime
<1>5. hold' = [not_before |-> now + wait, consecutive |-> consecutive]
  BY DEF NoteRateLimited
<1> HIDE DEF wait, consecutive
<1> QED
  BY <1>2, <1>4, <1>5 DEF Hold

-----------------------------------------------------------------------------
(***************************************************************************)
(* What a phase has moved and counted.                                     *)
(***************************************************************************)
LEMMA ProviderInit == Init => ProviderInv
BY ChunkAssumption, TimeAssumption, NoneAssumption
   DEF Init, ProviderInv, TypeOK, WireInv, Contract!ProviderInit, Contract!ProviderTypeOK,
       Contract!Wire

\* What a phase counted so far is within its ceiling, and below it while a request
\* is in flight.
LEMMA CountedWithinCeiling ==
  ASSUME ProviderInv, call # None
  PROVE  /\ counted \in 0 .. MaxWire /\ counted <= moved
         /\ ceiling # None => ceiling \in Nat /\ counted <= ceiling
         /\ CeilingReached <=> counted = ceiling
         /\ request # None => counted # ceiling
<1> USE DEF ProviderInv, TypeOK, WireInv, Contract!ProviderTypeOK, Contract!Wire
<1>1. counted \in 0 .. MaxWire /\ moved \in 0 .. MaxWire /\ MaxWire \in Nat
  BY ChunkAssumption
<1>2. request # None => request.asked \in 1 .. ChunkBytes /\ request.read \in 0 .. ChunkBytes
  BY DEF Request
<1>3. ceiling # None => ceiling \in 0 .. MaxWire
  OBVIOUS
<1> QED
  BY <1>1, <1>2, <1>3, NoneAssumption, ChunkAssumption DEF CeilingReached

\* The end of a phase leaves no request, and replies with what was counted.
LEMMA ReturnKeeps ==
  ASSUME ProviderInv, call # None,
         NEW value, Return(value), value \in Contract!Throughput \cup {Contract!Failure},
         hold' \in Hold \cup {None}, advised' \in Nat
  PROVE  ProviderInv'
BY DEF Return, ProviderInv, TypeOK, WireInv, Contract!ProviderTypeOK

LEMMA ReturnMeasuredKeeps ==
  ASSUME ProviderInv, call # None, NEW capped \in BOOLEAN, ReturnMeasured(capped),
         hold' \in Hold \cup {None}, advised' \in Nat
  PROVE  ProviderInv'
<1>1. PICK enough \in BOOLEAN : Return(Contract!Measured(counted, capped, enough))
  BY DEF ReturnMeasured
<1>2. Contract!Measured(counted, capped, enough) \in Contract!Throughput
  BY DEF Contract!Measured, Contract!Throughput, Contract!Wire, ProviderInv, TypeOK
<1> QED
  BY <1>1, <1>2, ReturnKeeps

\* A request that fails ends the phase, with an error or with what was counted.
LEMMA FailedRequestKeeps ==
  ASSUME ProviderInv, call # None, FailedRequest
  PROVE  ProviderInv'
<1>1. hold' \in Hold \cup {None} /\ advised' \in Nat
  BY DEF FailedRequest, KeepRateLimit, ClearRateLimit, ProviderInv, TypeOK
<1> QED
  BY <1>1, ReturnKeeps, ReturnMeasuredKeeps DEF FailedRequest

LEMMA NoteTypes ==
  ASSUME ProviderInv, NEW header \in RetryAfters, NoteRateLimited(header), Advise
  PROVE  hold' \in Hold \cup {None} /\ advised' \in Nat
<1>1. now \in Nat
  BY TimeAssumption DEF ProviderInv, TypeOK
<1>2. hold' \in Hold
  BY <1>1, NoteArmsHold DEF ProviderInv, TypeOK
<1> QED
  BY <1>2 DEF Advise, Hold

LEMMA BeginKeeps ==
  ASSUME ProviderInv, NEW p \in Contract!Phase, NEW max \in 0 .. MaxWire \cup {None},
         Begin(p, max)
  PROVE  ProviderInv'
<1>1. deadline' \in Nat /\ 0 \in 0 .. MaxWire
  BY TimeAssumption, ChunkAssumption DEF Begin, ProviderInv, TypeOK
<1>2. max # None => max \in 0 .. MaxWire
  OBVIOUS
<1> QED
  BY <1>1, <1>2 DEF Begin, ProviderInv, TypeOK, WireInv, Contract!ProviderTypeOK, Contract!Wire

LEMMA DownloadKeeps ==
  ASSUME ProviderInv, Download
  PROVE  ProviderInv'
<1> USE DEF ProviderInv
<1>0. /\ counted \in Nat /\ moved \in Nat /\ MaxWire \in Nat /\ ChunkBytes \in Nat \ {0}
      /\ counted <= MaxWire /\ moved <= MaxWire
      /\ ceiling # None => ceiling \in Nat /\ ceiling <= MaxWire
      /\ request # None => request \in Request
  BY ChunkAssumption DEF TypeOK, Contract!ProviderTypeOK, Contract!Wire
<1>1. "download" # None /\ "download" \in Contract!Phase
  BY NoneAssumption DEF Contract!Phase
<1>2. ASSUME NEW max \in 1 .. MaxWire \cup {None}, BeginDownload(max) PROVE ProviderInv'
  <2>1. max \in 0 .. MaxWire \cup {None}
    OBVIOUS
  <2> QED
    BY <1>1, <1>2, <2>1, BeginKeeps DEF BeginDownload
<1>3. ASSUME NEW max \in 1 .. MaxWire \cup {None}, RefuseDownload(max) PROVE ProviderInv'
  <2>1. max \in 0 .. MaxWire \cup {None} /\ 0 \in 0 .. MaxWire
    BY <1>0
  <2>2. call' = None /\ request' = None
    BY <1>1, <1>3 DEF RefuseDownload, WireInv
  <2> QED
    BY <1>3, <2>1, <2>2
       DEF RefuseDownload, TypeOK, WireInv, Contract!ProviderTypeOK, Contract!Wire
<1>4. CASE EndDownload
  <2>1. call # None /\ hold' \in Hold \cup {None} /\ advised' \in Nat
    BY <1>1, <1>4 DEF EndDownload, BetweenRequests, ClearRateLimit, TypeOK
  <2> DEFINE capped == CeilingReached
  <2>2. capped \in BOOLEAN /\ ReturnMeasured(capped)
    BY <1>4 DEF EndDownload, CeilingReached
  <2> HIDE DEF capped
  <2> QED
    BY <2>1, <2>2, ReturnMeasuredKeeps
<1>5. CASE SendRequest
  <2> DEFINE asks == IF ceiling = None THEN ChunkBytes
                     ELSE Min({ChunkBytes, ceiling - counted})
             left == ceiling - counted
  <2>1. ceiling # None => left \in Nat \ {0}
    BY <1>0, <1>1, <1>5, CountedWithinCeiling DEF SendRequest, BetweenRequests, CeilingReached
  <2>2. asks \in 1 .. ChunkBytes /\ (ceiling # None => asks <= left)
    <3>1. ceiling # None => left \in Int /\ ChunkBytes \in Int
      BY <1>0, <2>1
    <3> HIDE DEF left
    <3>2. ceiling # None =>
            /\ Min({ChunkBytes, left}) \in {ChunkBytes, left}
            /\ Min({ChunkBytes, left}) <= ChunkBytes /\ Min({ChunkBytes, left}) <= left
      BY ONLY <3>1, MinOfTwo, Zenon
    <3>3. ceiling # None =>
            Min({ChunkBytes, left}) \in 1 .. ChunkBytes /\ Min({ChunkBytes, left}) <= left
      BY <1>0, <2>1, <3>2
    <3> QED
      BY <1>0, <3>3 DEF left
  <2> HIDE DEF asks
  <2>3. request' = [asked |-> asks, read |-> 0, answered |-> FALSE]
    BY <1>5 DEF SendRequest, asks
  <2>4. request' \in Request /\ request'.asked = asks /\ request'.read = 0
    BY <1>0, <2>2, <2>3 DEF Request
  <2>5. call = "download" /\ request = None
    BY <1>5 DEF SendRequest, BetweenRequests
  <2>6. /\ UNCHANGED <<call, ceiling, moved, reply, counted, deadline, hold, now, owner, advised>>
    BY <1>5 DEF SendRequest
  <2>7. TypeOK'
    BY <2>4, <2>6 DEF TypeOK, Contract!ProviderTypeOK
  <2>8. ceiling # None => counted + asks <= ceiling
    BY <1>0, <2>2
  <2>9. WireInv'
    BY <1>0, <1>1, <2>2, <2>4, <2>5, <2>6, <2>8 DEF WireInv
  <2> QED
    BY <2>7, <2>9
<1>6. CASE Answered
  <2>1. /\ request \in Request /\ request' = [request EXCEPT !.answered = TRUE]
        /\ UNCHANGED <<call, ceiling, moved, reply, counted, deadline, hold, now, owner, advised>>
    BY <1>0, <1>6 DEF Answered, Awaiting
  <2>2. request' \in Request /\ request'.asked = request.asked /\ request'.read = request.read
    BY <2>1 DEF Request
  <2>3. request # None /\ request' # None
    BY <1>6, <2>2, NoneAssumption DEF Answered, Awaiting
  <2> QED
    BY <2>1, <2>2, <2>3 DEF TypeOK, WireInv, Contract!ProviderTypeOK
<1>7. ASSUME NEW header \in RetryAfters, RateLimited(header) PROVE ProviderInv'
  <2>1. call # None
    BY <1>1, <1>7 DEF RateLimited, Awaiting, WireInv
  <2>2. hold' \in Hold \cup {None} /\ advised' \in Nat
    BY <1>7, NoteTypes DEF RateLimited
  <2> QED
    BY <1>7, <2>1, <2>2, ReturnKeeps, ReturnMeasuredKeeps DEF RateLimited
<1>8. CASE RequestFails \/ SendTimeout \/ BodyBreaks
  <2>1. call # None /\ FailedRequest
    BY <1>1, <1>8 DEF RequestFails, SendTimeout, BodyBreaks, Awaiting, Reading, WireInv
  <2> QED
    BY <2>1, FailedRequestKeeps
<1>9. ASSUME NEW n \in 1 .. ChunkBytes, ReadBody(n) PROVE ProviderInv'
  <2>1. /\ request \in Request /\ request' = [request EXCEPT !.read = @ + n]
        /\ request # None /\ request.read + n <= request.asked
        /\ moved' = moved + n /\ moved' <= MaxWire
        /\ UNCHANGED <<call, ceiling, reply, counted, deadline, hold, now, owner, advised>>
    BY <1>0, <1>9 DEF ReadBody, Reading
  <2>2. request.asked \in 1 .. ChunkBytes /\ request.read \in 0 .. ChunkBytes
    BY <2>1 DEF Request
  <2>3. /\ request' \in Request /\ request'.asked = request.asked
        /\ request'.read = request.read + n
    BY <1>0, <2>1, <2>2 DEF Request
  <2>4. request' # None
    BY <2>3, NoneAssumption
  <2>5. moved' \in 0 .. MaxWire
    BY <1>0, <2>1
  <2>6. TypeOK'
    BY <2>1, <2>3, <2>5 DEF TypeOK, Contract!ProviderTypeOK, Contract!Wire
  <2>7. WireInv'
    BY <1>0, <2>1, <2>2, <2>3, <2>4 DEF WireInv
  <2> QED
    BY <2>6, <2>7
<1>10. CASE EndBody
  <2>1. /\ request \in Request /\ request # None /\ request' = None
        /\ counted' = counted + request.read
        /\ UNCHANGED <<call, ceiling, moved, reply, deadline, hold, now, owner, advised>>
    BY <1>0, <1>10 DEF EndBody, Reading
  <2>2. request.asked \in 1 .. ChunkBytes /\ request.read \in 0 .. ChunkBytes
    BY <2>1 DEF Request
  <2>3. counted' = moved /\ (ceiling # None => counted' <= ceiling)
    BY <1>0, <2>1, <2>2 DEF WireInv
  <2>4. TypeOK'
    BY <2>1, <2>3 DEF TypeOK, Contract!ProviderTypeOK, Contract!Wire
  <2> QED
    BY <2>1, <2>3, <2>4 DEF WireInv
<1> QED
  BY <1>2, <1>3, <1>4, <1>5, <1>6, <1>7, <1>8, <1>9, <1>10 DEF Download

LEMMA UploadKeeps ==
  ASSUME ProviderInv, Upload
  PROVE  ProviderInv'
<1> USE DEF ProviderInv
<1>0. /\ counted \in Nat /\ moved \in Nat /\ MaxWire \in Nat
      /\ counted <= MaxWire /\ moved <= MaxWire
      /\ ceiling # None => ceiling \in Nat
  BY ChunkAssumption DEF TypeOK, Contract!ProviderTypeOK, Contract!Wire
<1>1. /\ "upload" # None /\ "upload" \in Contract!Phase
      /\ Contract!Failure \in Contract!Throughput \cup {Contract!Failure}
  BY NoneAssumption DEF Contract!Phase
<1>2. ASSUME NEW max \in 0 .. MaxWire \cup {None}, BeginUpload(max) PROVE ProviderInv'
  BY <1>1, <1>2, BeginKeeps DEF BeginUpload
<1>3. CASE SendFrame
  <2>1. /\ call = "upload" /\ request = None /\ moved = counted
        /\ counted' = counted + 1 /\ moved' = moved + 1 /\ counted < MaxWire
        /\ UNCHANGED <<call, ceiling, reply, request, deadline, hold, now, owner, advised>>
    BY <1>1, <1>3 DEF SendFrame, Uploading, WireInv
  <2>2. ceiling # None => counted' <= ceiling
    BY <1>0, <1>1, <1>3, <2>1, CountedWithinCeiling DEF SendFrame
  <2>3. counted' \in 0 .. MaxWire /\ moved' \in 0 .. MaxWire
    BY <1>0, <2>1
  <2>4. TypeOK'
    BY <2>1, <2>3 DEF TypeOK, Contract!ProviderTypeOK, Contract!Wire
  <2> QED
    BY <2>1, <2>2, <2>4 DEF WireInv
<1>4. CASE UploadAccepted
  <2>1. call # None /\ hold' \in Hold \cup {None} /\ advised' \in Nat
    BY <1>1, <1>4 DEF UploadAccepted, Uploading, KeepRateLimit, TypeOK
  <2> DEFINE capped == CeilingReached
  <2>2. capped \in BOOLEAN /\ ReturnMeasured(capped)
    BY <1>4 DEF UploadAccepted, CeilingReached
  <2> HIDE DEF capped
  <2> QED
    BY <2>1, <2>2, ReturnMeasuredKeeps
<1>5. ASSUME NEW header \in RetryAfters, UploadRateLimited(header) PROVE ProviderInv'
  <2>1. call # None /\ hold' \in Hold \cup {None} /\ advised' \in Nat
    BY <1>1, <1>5, NoteTypes DEF UploadRateLimited, Uploading
  <2> QED
    BY <1>1, <1>5, <2>1, ReturnKeeps DEF UploadRateLimited
<1>6. CASE UploadFails \/ UploadTimeout
  <2>1. call # None /\ Return(Contract!Failure) /\ UNCHANGED <<hold, advised>>
    BY <1>1, <1>6 DEF UploadFails, UploadTimeout, Uploading, KeepRateLimit
  <2> QED
    BY <1>1, <2>1, ReturnKeeps DEF TypeOK
<1> QED
  BY <1>2, <1>3, <1>4, <1>5, <1>6 DEF Upload

LEMMA ProviderStep == ProviderInv /\ [Next]_vars => ProviderInv'
<1> SUFFICES ASSUME ProviderInv, [Next]_vars PROVE ProviderInv'
  OBVIOUS
<1>1. CASE NewProvider
  BY <1>1 DEF NewProvider, phaseVars, ProviderInv, TypeOK, WireInv, Contract!ProviderTypeOK
<1>2. CASE Tick
  <2>1. now' \in 0 .. MaxTime
    BY <1>2, TimeAssumption DEF Tick, ProviderInv, TypeOK
  <2> QED
    BY <1>2, <2>1 DEF Tick, phaseVars, ProviderInv, TypeOK, WireInv, Contract!ProviderTypeOK
<1>3. CASE UNCHANGED vars
  BY <1>3 DEF vars, phaseVars, ProviderInv, TypeOK, WireInv, Contract!ProviderTypeOK
<1> QED
  BY <1>1, <1>2, <1>3, DownloadKeeps, UploadKeeps DEF Next

LEMMA ProviderInvariant == Spec => []ProviderInv
<1> QED
  BY ProviderInit, ProviderStep, PTL DEF Spec

\* Every variable of the provider keeps its type: no request asks for zero bytes
\* or more than a chunk, and the 429 counter stays within its width.
THEOREM TypeCorrect == Spec => []TypeOK
<1>1. ProviderInv => TypeOK
  BY DEF ProviderInv
<1> QED
  BY <1>1, ProviderInvariant, PTL

-----------------------------------------------------------------------------
(***************************************************************************)
(* The contract, step by step.                                             *)
(***************************************************************************)
LEMMA InitIsContract == Init => Contract!ProviderInit
BY DEF Init

\* A phase that reports what it counted succeeds in the sense of the contract.
LEMMA MeasuredSucceeds ==
  ASSUME ProviderInv, call # None, NEW capped \in BOOLEAN, ReturnMeasured(capped),
         capped <=> counted = ceiling
  PROVE  Contract!ProviderNext
<1>1. PICK enough \in BOOLEAN : Return(Contract!Measured(counted, capped, enough))
  BY DEF ReturnMeasured
<1>2. capped = (counted = ceiling)
  OBVIOUS
<1>3. counted \in Contract!Wire /\ counted <= moved
  BY CountedWithinCeiling DEF Contract!Wire
<1>4. Contract!Succeed(counted, enough)
  BY <1>1, <1>2, <1>3 DEF Return, Contract!Succeed
<1> QED
  BY <1>3, <1>4 DEF Contract!ProviderNext

LEMMA FailureFails ==
  ASSUME call # None, Return(Contract!Failure)
  PROVE  Contract!ProviderNext
BY DEF Return, Contract!Fail, Contract!ProviderNext

LEMMA FailedRequestIsContract ==
  ASSUME ProviderInv, request # None, FailedRequest
  PROVE  Contract!ProviderNext
<1>1. call # None
  BY NoneAssumption DEF ProviderInv, WireInv, Contract!Phase
<1> QED
  BY <1>1, FailureFails, MeasuredSucceeds, CountedWithinCeiling DEF FailedRequest

LEMMA BeginIsCall ==
  ASSUME NEW p \in Contract!Phase, NEW max \in Contract!Wire \cup {None}, Begin(p, max)
  PROVE  Contract!ProviderNext
<1>1. Contract!Call(p, max)
  BY DEF Begin, Contract!Call
<1> QED
  BY <1>1 DEF Contract!ProviderNext

LEMMA DownloadIsContract ==
  ASSUME ProviderInv, Download
  PROVE  Contract!ProviderNext \/ UNCHANGED Contract!providerVars
<1> USE DEF Contract!providerVars
<1>0. /\ \A max \in 1 .. MaxWire \cup {None} : max \in Contract!Wire \cup {None}
      /\ "download" # None /\ "download" \in Contract!Phase
  BY NoneAssumption, ChunkAssumption DEF Contract!Wire, Contract!Phase
<1>1. ASSUME NEW max \in 1 .. MaxWire \cup {None}, BeginDownload(max)
      PROVE  Contract!ProviderNext
  BY <1>0, <1>1, BeginIsCall DEF BeginDownload
<1>2. ASSUME NEW max \in 1 .. MaxWire \cup {None}, RefuseDownload(max)
      PROVE  Contract!ProviderNext
  <2>1. Contract!Refuse("download", max)
    BY <1>2 DEF RefuseDownload, Contract!Refuse
  <2> QED
    BY <1>0, <2>1 DEF Contract!ProviderNext
<1>3. CASE EndDownload
  <2>1. call # None
    BY <1>0, <1>3 DEF EndDownload, BetweenRequests
  <2> DEFINE capped == CeilingReached
  <2>2. capped \in BOOLEAN /\ ReturnMeasured(capped) /\ (capped <=> counted = ceiling)
    BY <1>3, <2>1, CountedWithinCeiling DEF EndDownload, CeilingReached
  <2> HIDE DEF capped
  <2> QED
    BY <2>1, <2>2, MeasuredSucceeds
<1>4. CASE SendRequest \/ Answered \/ EndBody
  BY <1>4 DEF SendRequest, Answered, EndBody
<1>5. ASSUME NEW header \in RetryAfters, RateLimited(header) PROVE Contract!ProviderNext
  <2>1. request # None /\ call # None
    BY <1>0, <1>5 DEF RateLimited, Awaiting, ProviderInv, WireInv
  <2>2. counted # ceiling
    BY <2>1, CountedWithinCeiling
  <2> QED
    BY <1>5, <2>1, <2>2, FailureFails, MeasuredSucceeds DEF RateLimited
<1>6. CASE RequestFails \/ SendTimeout \/ BodyBreaks
  BY <1>6, FailedRequestIsContract DEF RequestFails, SendTimeout, BodyBreaks, Awaiting, Reading
<1>7. ASSUME NEW n \in 1 .. ChunkBytes, ReadBody(n) PROVE Contract!ProviderNext
  <2>1. /\ request \in Request /\ request # None /\ call # None
        /\ moved = counted + request.read /\ request.read + n <= request.asked
        /\ ceiling # None => counted + request.asked <= ceiling /\ ceiling \in Nat
        /\ counted \in Nat /\ moved \in Nat /\ MaxWire \in Nat /\ ChunkBytes \in Nat
    BY <1>0, <1>7, ChunkAssumption
       DEF ReadBody, Reading, ProviderInv, WireInv, TypeOK, Contract!ProviderTypeOK,
           Contract!Wire
  <2>2. request.asked \in Nat /\ request.read \in Nat
    BY <2>1 DEF Request
  <2>3. moved' = moved + n /\ moved + n <= MaxWire /\ UNCHANGED <<call, ceiling, reply>>
    BY <1>7 DEF ReadBody
  <2>4. n \in Contract!Wire
    BY <2>1, <2>3 DEF Contract!Wire
  <2>5. Contract!Move(n)
    BY <2>1, <2>2, <2>3 DEF Contract!Move
  <2> QED
    BY <2>4, <2>5 DEF Contract!ProviderNext
<1> QED
  BY <1>1, <1>2, <1>3, <1>4, <1>5, <1>6, <1>7 DEF Download

LEMMA UploadIsContract ==
  ASSUME ProviderInv, Upload
  PROVE  Contract!ProviderNext \/ UNCHANGED Contract!providerVars
<1>0. /\ \A max \in 0 .. MaxWire \cup {None} : max \in Contract!Wire \cup {None}
      /\ "upload" # None /\ "upload" \in Contract!Phase
  BY NoneAssumption DEF Contract!Wire, Contract!Phase
<1>1. ASSUME NEW max \in 0 .. MaxWire \cup {None}, BeginUpload(max) PROVE Contract!ProviderNext
  BY <1>0, <1>1, BeginIsCall DEF BeginUpload
<1>2. CASE SendFrame
  <2>1. /\ call # None /\ counted \in Nat /\ MaxWire \in Nat /\ moved = counted
        /\ moved' = moved + 1 /\ counted < MaxWire /\ UNCHANGED <<call, ceiling, reply>>
        /\ ~CeilingReached /\ (ceiling # None => ceiling \in Nat /\ counted < ceiling)
    <3>1. /\ call # None /\ call = "upload" /\ ~CeilingReached /\ moved' = moved + 1
          /\ counted < MaxWire /\ UNCHANGED <<call, ceiling, reply>>
      BY <1>0, <1>2 DEF SendFrame, Uploading
    <3>2. counted \in Nat /\ MaxWire \in Nat /\ moved = counted
      BY <3>1, ChunkAssumption DEF ProviderInv, TypeOK, WireInv
    <3> QED
      BY <3>1, <3>2, CountedWithinCeiling
  <2>2. 1 \in Contract!Wire /\ Contract!Move(1)
    <3>1. 1 \in Contract!Wire
      BY <2>1 DEF Contract!Wire
    <3>2. ceiling = None => moved' <= MaxWire
      BY <2>1
    <3>3. ceiling # None => moved' <= ceiling
      BY <2>1
    <3> QED
      BY <2>1, <3>1, <3>2, <3>3 DEF Contract!Move
  <2> QED
    BY <2>2 DEF Contract!ProviderNext
<1>3. CASE UploadAccepted
  <2>1. call # None
    BY <1>0, <1>3 DEF UploadAccepted, Uploading
  <2> DEFINE capped == CeilingReached
  <2>2. capped \in BOOLEAN /\ ReturnMeasured(capped) /\ (capped <=> counted = ceiling)
    BY <1>3, <2>1, CountedWithinCeiling DEF UploadAccepted, CeilingReached
  <2> HIDE DEF capped
  <2> QED
    BY <2>1, <2>2, MeasuredSucceeds
<1>4. CASE (\E header \in RetryAfters : UploadRateLimited(header)) \/ UploadFails
           \/ UploadTimeout
  BY <1>0, <1>4, FailureFails DEF UploadRateLimited, UploadFails, UploadTimeout, Uploading
<1> QED
  BY <1>1, <1>2, <1>3, <1>4 DEF Upload

\* Downloads made of chunks, uploads made of frames, 429s, broken bodies and
\* timeouts keep the contract of the trait (provider.rs:88-92): a phase never
\* moves more than its ceiling, and `capped' says that all of it was reported.
THEOREM ContractIsKept == Spec => KeepsContract
<1>1. Init => Contract!ProviderInit
  BY InitIsContract
<1>2. ProviderInv /\ [Next]_vars => [Contract!ProviderNext]_Contract!providerVars
  <2> SUFFICES ASSUME ProviderInv, [Next]_vars
               PROVE  Contract!ProviderNext \/ UNCHANGED Contract!providerVars
    OBVIOUS
  <2>1. CASE NewProvider \/ Tick \/ UNCHANGED vars
    BY <2>1 DEF NewProvider, Tick, vars, phaseVars, Contract!providerVars
  <2> QED
    BY <2>1, DownloadIsContract, UploadIsContract DEF Next
<1> QED
  BY <1>1, <1>2, ProviderInvariant, PTL DEF Spec, KeepsContract, Contract!ProviderSpec

-----------------------------------------------------------------------------
(***************************************************************************)
(* The hold.                                                               *)
(***************************************************************************)
LEMMA HoldInit == Init => HoldInv
BY NoneAssumption DEF Init, HoldInv, Contract!ProviderInit, Contract!Phase

LEMMA HoldStep == ProviderInv /\ HoldInv /\ [Next]_vars => HoldInv'
<1> SUFFICES ASSUME ProviderInv, HoldInv, [Next]_vars, owner' = "keeps" PROVE HoldInv'
  BY DEF HoldInv
<1>0. owner = "keeps" /\ owner' = owner
  BY DEF Next, Download, Upload, BeginDownload, RefuseDownload, Begin, EndDownload,
         ReturnMeasured, Return, SendRequest, Answered, RateLimited, RequestFails,
         SendTimeout, FailedRequest, ReadBody, EndBody, BodyBreaks, BeginUpload, SendFrame,
         UploadAccepted, UploadRateLimited, UploadFails, UploadTimeout, NewProvider, Tick,
         vars
<1>1. now \in Nat /\ advised \in Nat /\ "download" # None
  BY TimeAssumption, NoneAssumption DEF ProviderInv, TypeOK, Contract!Phase
<1> USE DEF HoldInv
<1>2. ASSUME NEW max \in 1 .. MaxWire \cup {None}, BeginDownload(max) PROVE HoldInv'
  <2>1. advised <= now
    <3>1. CASE hold = None
      BY <1>0, <3>1
    <3>2. CASE hold # None
      <4>1. hold.not_before \in Nat /\ ~(now < hold.not_before)
        BY <1>2, <3>2 DEF BeginDownload, CheckRateLimit, HoldInForce, ProviderInv, TypeOK, Hold
      <4> QED
        BY <1>0, <1>1, <4>1
    <3> QED
      BY <3>1, <3>2
  <2> QED
    BY <1>2, <2>1 DEF BeginDownload, Begin
<1>3. ASSUME NEW header \in RetryAfters, RateLimited(header) \/ UploadRateLimited(header)
      PROVE  HoldInv'
  <2>1. /\ call' = None /\ NoteRateLimited(header) /\ Advise
    BY <1>3 DEF RateLimited, UploadRateLimited, ReturnMeasured, Return
  <2>2. hold' \in Hold
    BY <1>1, <2>1, NoteArmsHold DEF ProviderInv, TypeOK
  <2>3. hold' # None
    BY <2>2, NoneAssumption
  <2> QED
    BY <1>1, <2>1, <2>3 DEF Advise
<1>4. CASE EndDownload \/ RequestFails \/ SendTimeout \/ BodyBreaks
  <2>1. call = "download"
    BY <1>4 DEF EndDownload, BetweenRequests, RequestFails, SendTimeout, BodyBreaks,
                Awaiting, Reading, ProviderInv, WireInv
  <2>2. UNCHANGED <<advised, now>>
    BY <1>4 DEF EndDownload, RequestFails, SendTimeout, BodyBreaks, FailedRequest,
                ReturnMeasured, Return, ClearRateLimit, KeepRateLimit
  <2> QED
    BY <1>0, <2>1, <2>2
<1>5. CASE Tick
  <2>1. now' = now + 1 /\ UNCHANGED <<call, hold, advised>>
    BY <1>5 DEF Tick, phaseVars
  <2> QED
    BY <1>0, <1>1, <2>1
<1>6. CASE \/ SendRequest \/ Answered \/ EndBody \/ SendFrame \/ UNCHANGED vars
           \/ \E n \in 1 .. ChunkBytes : ReadBody(n)
           \/ \E max \in 1 .. MaxWire \cup {None} : RefuseDownload(max)
  <2>1. UNCHANGED <<call, hold, now, advised>>
    BY <1>6 DEF SendRequest, Answered, EndBody, SendFrame, ReadBody, RefuseDownload,
                vars, phaseVars
  <2> QED
    BY <1>0, <2>1
<1>7. CASE \/ UploadAccepted \/ UploadFails \/ UploadTimeout
           \/ \E max \in 0 .. MaxWire \cup {None} : BeginUpload(max)
  <2>1. UNCHANGED <<hold, now, advised>> /\ call' # "download"
    BY <1>1, <1>7 DEF UploadAccepted, UploadFails, UploadTimeout, BeginUpload, Begin,
                ReturnMeasured, Return, KeepRateLimit
  <2> QED
    BY <1>0, <2>1
<1>8. ~NewProvider
  BY <1>0 DEF NewProvider
<1> QED
  BY <1>2, <1>3, <1>4, <1>5, <1>6, <1>7, <1>8 DEF Next, Download, Upload

\* A caller that keeps its provider sends no download request before the instant
\* the last 429 asked for, whatever phases it ran in between and however they
\* ended (check_rate_limit, note_rate_limited, clear_rate_limit).
THEOREM HoldIsHonoured == Spec => HoldHonoured
<1>1. ProviderInv /\ HoldInv /\ [Next]_vars => [owner = "keeps" => ~Hammers]_vars
  <2> SUFFICES ASSUME ProviderInv, HoldInv, [Next]_vars, owner = "keeps",
                      request = None, request' # None
               PROVE  ~(now < advised)
    BY DEF Hammers
  <2>1. SendRequest
    BY DEF Next, Download, Upload, BeginDownload, RefuseDownload, Begin, EndDownload,
           ReturnMeasured, Return, Answered, RateLimited, RequestFails, Awaiting, Reading,
           SendTimeout, FailedRequest, ReadBody, EndBody, BodyBreaks, BeginUpload, SendFrame,
           UploadAccepted, UploadRateLimited, UploadFails, UploadTimeout, NewProvider, Tick,
           vars, phaseVars
  <2>2. advised <= now /\ now \in Nat /\ advised \in Nat
    BY <2>1, TimeAssumption DEF SendRequest, BetweenRequests, HoldInv, ProviderInv, TypeOK
  <2> QED
    BY <2>2
<1> QED
  BY <1>1, HoldInit, HoldStep, ProviderInvariant, PTL DEF Spec, HoldHonoured

-----------------------------------------------------------------------------
(***************************************************************************)
(* The ping monitor: any settings, names, number of cycles and of edits.   *)
(***************************************************************************)

\* Of some numbers, one is the least.
LEMMA LeastOfSome ==
  ASSUME NEW numbers \in SUBSET Nat, numbers # {}
  PROVE  Min(numbers) \in numbers /\ \A j \in numbers : Min(numbers) <= j
<1> DEFINE Less == OpToRel(<, Nat)
<1>1. \A x, y \in Nat : <<y, x>> \in Less <=> y < x
  BY DEF OpToRel
<1>2. IsWellFoundedOn(Less, Nat)
  BY NatLessThanWellFounded
<1> HIDE DEF Less
<1>3. PICK i \in numbers : \A j \in numbers : ~(<<j, i>> \in Less)
  BY <1>2, WFMin
<1>4. ASSUME NEW j \in numbers PROVE i <= j
  <2>1. i \in Nat /\ j \in Nat
    OBVIOUS
  <2>2. ~(j < i)
    BY ONLY <1>1, <1>3, <2>1, j \in numbers, Zenon
  <2> QED
    BY <2>1, <2>2
<1> QED
  BY <1>4 DEF Min

\* What holds of no elements, and of one more whenever it holds of some, holds
\* of all.
LEMMA CountedUpTo ==
  ASSUME NEW last \in Nat, NEW reached, 0 \in reached,
         \A n \in 0 .. last : n \in reached /\ n < last => n + 1 \in reached
  PROVE  last \in reached
<1> DEFINE missed == (0 .. last) \ reached
<1> SUFFICES ASSUME missed # {} PROVE FALSE
  OBVIOUS
<1>1. Min(missed) \in missed /\ \A n \in missed : Min(missed) <= n
  BY LeastOfSome
<1> DEFINE least == Min(missed)
<1>2. least \in 1 .. last /\ least \notin reached
  BY <1>1
<1> HIDE DEF least
<1>3. least - 1 \in 0 .. last /\ least - 1 < last /\ (least - 1) + 1 = least
  BY <1>2
<1>4. least - 1 \notin missed
  BY <1>1, <1>2 DEF least
<1> QED
  BY <1>2, <1>3, <1>4

\* The names of the enabled targets are names.
LEMMA EnabledNamesAreNames ==
  ASSUME NEW specs \in Seq(TargetSpec)
  PROVE  EnabledNames(specs) \in Seq(Names)
<1> DEFINE Step(g, n) == [m \in 0 .. n |->
                            IF m = 0 THEN <<>>
                            ELSE IF specs[m].enabled THEN Append(g[m - 1], specs[m].name)
                            ELSE g[m - 1]]
           last == Len(specs)
           upto == CHOOSE g : g = Step(g, last)
           Has(n) == \E g : g = Step(g, n)
           Typed(n) == upto[n] \in Seq(Names)
<1>1. last \in Nat /\ \A m \in 1 .. last : specs[m] \in TargetSpec
  BY LenProperties, ElementOfSeq
<1>2. Has(0)
  <2> DEFINE g == [m \in 0 .. 0 |-> <<>>]
  <2>1. g = Step(g, 0)
    OBVIOUS
  <2> QED
    BY <2>1
<1>3. ASSUME NEW n \in 0 .. last, n < last, Has(n) PROVE Has(n + 1)
  <2>1. PICK g : g = Step(g, n)
    BY <1>3
  <2> DEFINE next == IF specs[n + 1].enabled THEN Append(g[n], specs[n + 1].name) ELSE g[n]
             h == [m \in 0 .. (n + 1) |-> IF m <= n THEN g[m] ELSE next]
  <2>2. \A m \in 0 .. n : g[m] = IF m = 0 THEN <<>>
                                 ELSE IF specs[m].enabled
                                      THEN Append(g[m - 1], specs[m].name) ELSE g[m - 1]
    BY <2>1, Zenon
  <2>3. \A m \in 0 .. (n + 1) : h[m] = IF m = 0 THEN <<>>
                                       ELSE IF specs[m].enabled
                                            THEN Append(h[m - 1], specs[m].name)
                                            ELSE h[m - 1]
    BY <1>1, <1>3, <2>2
  <2>4. h = Step(h, n + 1)
    BY <2>3
  <2> QED
    BY <2>4
<1> HIDE DEF Has, last
<1>4. Has(last)
  <2> DEFINE reached == {n \in Nat : Has(n)}
  <2>1. 0 \in reached
    BY <1>2
  <2>2. \A n \in 0 .. last : n \in reached /\ n < last => n + 1 \in reached
    BY <1>1, <1>3
  <2>3. last \in reached
    BY <1>1, <2>1, <2>2, CountedUpTo
  <2> QED
    BY <2>3
<1>5. upto = Step(upto, last)
  BY <1>4, Zenon DEF Has
<1> HIDE DEF upto, Typed
<1>6. \A m \in 0 .. last : upto[m] = IF m = 0 THEN <<>>
                                     ELSE IF specs[m].enabled
                                          THEN Append(upto[m - 1], specs[m].name)
                                          ELSE upto[m - 1]
  BY <1>5, Zenon
<1>7. Typed(0)
  <2>1. 0 \in 0 .. last
    BY <1>1
  <2>2. upto[0] = <<>>
    BY <1>6, <2>1, Zenon
  <2> QED
    BY <2>2, EmptySeq DEF Typed
<1>8. ASSUME NEW n \in 0 .. last, n < last, Typed(n) PROVE Typed(n + 1)
  <2>1. n + 1 \in 0 .. last /\ n + 1 # 0 /\ (n + 1) - 1 = n
    BY <1>1, <1>8
  <2>2. upto[n + 1] = IF specs[n + 1].enabled THEN Append(upto[n], specs[n + 1].name)
                      ELSE upto[n]
    BY <1>6, <2>1, Zenon
  <2>3. upto[n] \in Seq(Names) /\ specs[n + 1].name \in Names
    BY <1>1, <1>8 DEF Typed, TargetSpec
  <2> QED
    BY <2>2, <2>3, AppendProperties DEF Typed
<1>9. Typed(last)
  <2> DEFINE reached == {n \in Nat : Typed(n)}
  <2>1. 0 \in reached
    BY <1>7
  <2>2. \A n \in 0 .. last : n \in reached /\ n < last => n + 1 \in reached
    BY <1>1, <1>8
  <2>3. last \in reached
    BY <1>1, <2>1, <2>2, CountedUpTo
  <2> QED
    BY <2>3
<1> QED
  BY <1>9 DEF EnabledNames, upto, last, Typed

\* RowOf is 0 where no row has the name, and the first that has it otherwise.
LEMMA RowOfFirst ==
  ASSUME NEW S, NEW rows \in Seq(S), NEW name
  PROVE  /\ RowOf(rows, name) = 0 => \A i \in DOMAIN rows : rows[i].name # name
         /\ RowOf(rows, name) # 0 =>
              /\ RowOf(rows, name) \in DOMAIN rows
              /\ rows[RowOf(rows, name)].name = name
              /\ \A i \in DOMAIN rows : rows[i].name = name => RowOf(rows, name) <= i
<1> DEFINE of_name == {i \in 1 .. Len(rows) : rows[i].name = name}
<1>1. DOMAIN rows = 1 .. Len(rows) /\ Len(rows) \in Nat
  BY LenProperties
<1>2. RowOf(rows, name) = IF of_name # {} THEN Min(of_name) ELSE 0
  BY DEF RowOf, SelectInSeq
<1>3. CASE of_name = {}
  BY <1>1, <1>2, <1>3
<1>4. CASE of_name # {}
  <2>0. of_name \in SUBSET Nat
    BY <1>1
  <2> HIDE DEF of_name
  <2>1. Min(of_name) \in of_name /\ \A i \in of_name : Min(of_name) <= i
    BY <1>4, <2>0, LeastOfSome
  <2>2. RowOf(rows, name) = Min(of_name)
    BY <1>2, <1>4
  <2>3. RowOf(rows, name) \in of_name /\ \A i \in of_name : RowOf(rows, name) <= i
    BY <2>1, <2>2
  <2> QED
    BY <1>1, <2>3 DEF of_name
<1> QED
  BY <1>3, <1>4

\* Rows of the same names in the same order are found at the same places.
LEMMA RowOfSame ==
  ASSUME NEW S, NEW T, NEW rows \in Seq(S), NEW others \in Seq(T), NEW name,
         DOMAIN rows = DOMAIN others,
         \A i \in DOMAIN rows : rows[i].name = others[i].name
  PROVE  RowOf(rows, name) = RowOf(others, name)
<1>1. /\ DOMAIN rows = 1 .. Len(rows) /\ Len(rows) \in Nat
      /\ DOMAIN others = 1 .. Len(others) /\ Len(others) \in Nat
  BY LenProperties
<1>2. {i \in 1 .. Len(rows) : rows[i].name = name} = {i \in 1 .. Len(others) : others[i].name = name}
  BY <1>1
<1> QED
  BY <1>2 DEF RowOf, SelectInSeq

\* Rows rebuilt from the settings are rows, and each holds the samples of the
\* first old row of its name.
LEMMA SyncedKeeps ==
  ASSUME NEW existing \in Seq(TargetLive), NEW specs \in Seq(TargetSpec)
  PROVE  /\ Synced(existing, specs) \in Seq(TargetLive)
         /\ \A i \in DOMAIN Synced(existing, specs) :
              LET row == Synced(existing, specs)[i]
              IN  RowOf(existing, row.name) # 0
                    => row.samples = existing[RowOf(existing, row.name)].samples
<1> DEFINE names == EnabledNames(specs)
           Kept(name) == IF RowOf(existing, name) = 0 THEN <<>>
                         ELSE existing[RowOf(existing, name)].samples
<1>1. names \in Seq(Names)
  BY EnabledNamesAreNames
<1>2. ASSUME NEW name PROVE Kept(name) \in Seq(Sample)
  <2>1. CASE RowOf(existing, name) = 0
    BY <2>1, EmptySeq
  <2>2. CASE RowOf(existing, name) # 0
    <3>1. existing[RowOf(existing, name)] \in TargetLive
      BY <2>2, RowOfFirst, ElementOfSeq
    <3> QED
      BY <2>2, <3>1 DEF TargetLive
  <2> QED
    BY <2>1, <2>2
<1>3. Synced(existing, specs) = [i \in DOMAIN names |-> [name |-> names[i], samples |-> Kept(names[i])]]
  BY DEF Synced
<1> HIDE DEF names, Kept
<1>4. ASSUME NEW i \in DOMAIN names
      PROVE  [name |-> names[i], samples |-> Kept(names[i])] \in TargetLive
  BY <1>1, <1>2 DEF TargetLive
<1>5. Synced(existing, specs) \in Seq(TargetLive)
  BY <1>1, <1>3, <1>4
<1>6. ASSUME NEW i \in DOMAIN Synced(existing, specs)
      PROVE  Synced(existing, specs)[i].samples = Kept(Synced(existing, specs)[i].name)
  BY <1>3
<1> QED
  BY <1>5, <1>6 DEF Kept

-----------------------------------------------------------------------------
\* A sequence begins with itself, and with nothing.
LEMMA PrefixOfItself ==
  ASSUME NEW S, NEW s \in Seq(S)
  PROVE  IsPrefix(s, s)
  BY LenProperties DEF IsPrefix

LEMMA PrefixOfAppended ==
  ASSUME NEW S, NEW s \in Seq(S), NEW x \in S
  PROVE  IsPrefix(s, Append(s, x))
<1>1. Append(s, x) \in Seq(S) /\ Len(Append(s, x)) = Len(s) + 1 /\ Len(s) \in Nat
  BY AppendProperties, LenProperties
<1>2. SubSeq(Append(s, x), 1, Len(s)) = SubSeq(s, 1, Len(s))
  BY <1>1
<1> QED
  BY <1>1, <1>2 DEF IsPrefix

LEMMA PrefixOfNothing ==
  ASSUME NEW S, NEW s \in Seq(S)
  PROVE  IsPrefix(<<>>, s)
<1>1. SubSeq(<<>>, 1, 0) = SubSeq(s, 1, 0)
  OBVIOUS
<1> QED
  BY <1>1, LenProperties DEF IsPrefix

-----------------------------------------------------------------------------
\* What a cycle stores of a name are samples.
LEMMA TakenAreSamples ==
  ASSUME NEW c \in Cycle, NEW name \in Names
  PROVE  Taken(c, name) \in Seq(Sample)
<1> DEFINE of_name == {j \in DOMAIN c.rows : c.rows[j] = name}
<1>1. c.rows \in Seq(Names) /\ c.id \in 0 .. MaxCycles
  BY BoundAssumption DEF Cycle
<1>2. IsFiniteSet(DOMAIN c.rows)
  <2>1. DOMAIN c.rows = 1 .. Len(c.rows) /\ Len(c.rows) \in Nat
    BY <1>1, LenProperties
  <2> QED
    BY <2>1, FS_Interval
<1>3. IsFiniteSet(of_name)
  BY <1>2, FS_Subset
<1>4. Cardinality(of_name) \in Nat
  BY <1>3, FS_CardinalityType
<1>5. [of |-> name, cycle |-> c.id] \in Sample
  BY <1>1 DEF Sample
<1> HIDE DEF of_name
<1>6. [i \in 1 .. Cardinality(of_name) |-> [of |-> name, cycle |-> c.id]] \in Seq(Sample)
  BY <1>4, <1>5
<1> QED
  BY <1>6 DEF Taken, of_name

\* Rows that a cycle's samples reach are the same rows, with a sample more or
\* none.
LEMMA RefreshedGrows ==
  ASSUME NEW rows \in Seq(TargetLive), NEW c \in Cycle
  PROVE  /\ Refreshed(rows, c) \in Seq(TargetLive)
         /\ DOMAIN Refreshed(rows, c) = DOMAIN rows
         /\ \A i \in DOMAIN rows :
              /\ Refreshed(rows, c)[i].name = rows[i].name
              /\ IsPrefix(rows[i].samples, Refreshed(rows, c)[i].samples)
<1>1. c.rows \in Seq(Names) /\ c.id \in 0 .. MaxCycles
  BY BoundAssumption DEF Cycle
<1>2. ASSUME NEW i \in DOMAIN rows
      PROVE  /\ Refreshed(rows, c)[i] \in TargetLive
             /\ Refreshed(rows, c)[i].name = rows[i].name
             /\ IsPrefix(rows[i].samples, Refreshed(rows, c)[i].samples)
  <2>0. rows[i] \in TargetLive
    BY ElementOfSeq, LenProperties
  <2>1. rows[i] \in TargetLive /\ rows[i].samples \in Seq(Sample)
    BY <2>0 DEF TargetLive
  <2>2. CASE i \in DOMAIN c.rows
    <3> DEFINE sample == [of |-> c.rows[i], cycle |-> c.id]
    <3>1. sample \in Sample
      BY <1>1, <2>2, ElementOfSeq, LenProperties DEF Sample
    <3> HIDE DEF sample
    <3>2. Append(rows[i].samples, sample) \in Seq(Sample)
      BY <2>1, <3>1, AppendProperties
    <3>3. Refreshed(rows, c)[i] = [rows[i] EXCEPT !.samples = Append(@, sample)]
      BY <2>2 DEF Refreshed, sample
    <3>4. /\ Refreshed(rows, c)[i] \in TargetLive
          /\ Refreshed(rows, c)[i].name = rows[i].name
          /\ Refreshed(rows, c)[i].samples = Append(rows[i].samples, sample)
      BY <2>1, <3>2, <3>3 DEF TargetLive
    <3> QED
      BY <2>1, <3>1, <3>4, PrefixOfAppended
  <2>3. CASE i \notin DOMAIN c.rows
    <3>1. Refreshed(rows, c)[i] = rows[i]
      BY <2>3 DEF Refreshed
    <3> QED
      BY <2>1, <3>1, PrefixOfItself
  <2> QED
    BY <2>2, <2>3
<1>3. Refreshed(rows, c) = [i \in DOMAIN rows |-> Refreshed(rows, c)[i]]
  BY DEF Refreshed
<1>4. Refreshed(rows, c) \in Seq(TargetLive)
  BY <1>2, <1>3
<1> QED
  BY <1>2, <1>3, <1>4

\* The same of rows that history reaches.
LEMMA HistoryGrows ==
  ASSUME MonitorTypeOK, OnPingHistoryLoaded
  PROVE  /\ ping_targets' \in Seq(TargetLive)
         /\ DOMAIN ping_targets' = DOMAIN ping_targets
         /\ \A i \in DOMAIN ping_targets :
              /\ ping_targets'[i].name = ping_targets[i].name
              /\ IsPrefix(ping_targets[i].samples, ping_targets'[i].samples)
<1> DEFINE Filled(i) == RowOf(ping_targets, ping_targets[i].name) = i
                          /\ ping_targets[i].samples = <<>>
<1>1. loaded \in [Names -> Seq(Sample)] /\ ping_targets \in Seq(TargetLive)
  BY DEF MonitorTypeOK, OnPingHistoryLoaded
<1>2. ping_targets' = [i \in DOMAIN ping_targets |->
                         IF Filled(i)
                         THEN [ping_targets[i] EXCEPT !.samples = loaded[ping_targets[i].name]]
                         ELSE ping_targets[i]]
  BY DEF OnPingHistoryLoaded
<1>3. ASSUME NEW i \in DOMAIN ping_targets
      PROVE  /\ ping_targets'[i] \in TargetLive
             /\ ping_targets'[i].name = ping_targets[i].name
             /\ IsPrefix(ping_targets[i].samples, ping_targets'[i].samples)
  <2>1. /\ ping_targets[i] \in TargetLive
        /\ ping_targets[i].samples \in Seq(Sample)
        /\ loaded[ping_targets[i].name] \in Seq(Sample)
    <3>1. ping_targets[i] \in TargetLive
      BY <1>1, ElementOfSeq, LenProperties
    <3> QED
      BY <1>1, <3>1 DEF TargetLive
  <2>2. CASE Filled(i)
    <3>1. /\ ping_targets'[i] \in TargetLive
          /\ ping_targets'[i].name = ping_targets[i].name
          /\ ping_targets'[i].samples = loaded[ping_targets[i].name]
      BY <1>2, <2>1, <2>2 DEF TargetLive
    <3> QED
      BY <2>1, <2>2, <3>1, PrefixOfNothing
  <2>3. CASE ~Filled(i)
    <3>1. ping_targets'[i] = ping_targets[i]
      BY <1>2, <2>3
    <3> QED
      BY <2>1, <3>1, PrefixOfItself
  <2> QED
    BY <2>2, <2>3
<1> HIDE DEF Filled
<1>4. ping_targets' = [i \in DOMAIN ping_targets |-> ping_targets'[i]]
  BY <1>2
<1>5. ping_targets' \in Seq(TargetLive)
  BY <1>1, <1>3, <1>4
<1> QED
  BY <1>3, <1>4, <1>5

-----------------------------------------------------------------------------
\* A list of targets stays one without the target at a position, and with one
\* more at a position.
LEMMA ShorterIsList ==
  ASSUME NEW S, NEW s \in Seq(S), NEW i \in DOMAIN s
  PROVE  RemoveAt(s, i) \in Seq(S)
<1>1. i \in 1 .. Len(s) /\ Len(s) \in Nat
  BY LenProperties
<1>2. SubSeq(s, 1, i - 1) \in Seq(S) /\ SubSeq(s, i + 1, Len(s)) \in Seq(S)
  BY <1>1
<1> QED
  BY <1>2, ConcatProperties DEF RemoveAt

LEMMA LongerIsList ==
  ASSUME NEW S, NEW s \in Seq(S), NEW i \in 1 .. (Len(s) + 1), NEW x \in S
  PROVE  InsertAt(s, i, x) \in Seq(S)
<1>1. Len(s) \in Nat
  BY LenProperties
<1>2. SubSeq(s, 1, i - 1) \in Seq(S) /\ SubSeq(s, i, Len(s)) \in Seq(S) /\ <<x>> \in Seq(S)
  BY <1>1
<1> QED
  BY <1>2, ConcatProperties DEF InsertAt

\* A cycle started on rows is a cycle.
LEMMA StartedIsCycle ==
  ASSUME MonitorTypeOK, begun < MaxCycles, NEW rows \in Seq(TargetLive)
  PROVE  StartCycle(rows) \in Cycle /\ begun + 1 \in 0 .. MaxCycles
<1>1. begun + 1 \in 1 .. MaxCycles /\ begun + 1 \in 0 .. MaxCycles
  BY BoundAssumption DEF MonitorTypeOK
<1>2. \A i \in DOMAIN rows : rows[i].name \in Names
  <2>1. \A i \in DOMAIN rows : rows[i] \in TargetLive
    BY ElementOfSeq, LenProperties
  <2> QED
    BY <2>1 DEF TargetLive
<1>3. [i \in DOMAIN rows |-> rows[i].name] \in Seq(Names)
  <2>1. DOMAIN rows = 1 .. Len(rows) /\ Len(rows) \in Nat
    BY LenProperties
  <2> QED
    BY <1>2, <2>1
<1> QED
  BY <1>1, <1>3 DEF StartCycle, Cycle

\* Committing targets keeps the types of all but what undo would put back.
CommittedTypes ==
  /\ targets' \in Seq(TargetSpec) /\ ping_targets' \in Seq(TargetLive)
  /\ edits' \in 0 .. MaxEdits
  /\ UNCHANGED <<ping_running, cycles, store, boot, begun>>

LEMMA CommitTypes ==
  ASSUME MonitorTypeOK, NEW new \in Seq(TargetSpec), Commit(new)
  PROVE  CommittedTypes
<1>1. ping_targets' \in Seq(TargetLive)
  BY SyncedKeeps DEF Commit, MonitorTypeOK
<1>2. edits' \in 0 .. MaxEdits
  BY BoundAssumption DEF Commit, MonitorTypeOK
<1> QED
  BY <1>1, <1>2 DEF Commit, CommittedTypes

\* Every edit commits a list of targets, and leaves undo a target or none.
LEMMA EditCommits ==
  ASSUME MonitorTypeOK, Edit
  PROVE  /\ \E new \in Seq(TargetSpec) : Commit(new)
         /\ removed_target' \in {Absent} \cup [target : TargetSpec, index : Nat \ {0}]
<1>0. /\ targets \in Seq(TargetSpec)
      /\ removed_target \in {Absent} \cup [target : TargetSpec, index : Nat \ {0}]
  BY DEF MonitorTypeOK
<1>1. /\ DOMAIN targets = 1 .. Len(targets) /\ Len(targets) \in Nat
      /\ \A i \in DOMAIN targets : targets[i] \in TargetSpec
  BY <1>0, LenProperties, ElementOfSeq
<1>2. ASSUME NEW i \in DOMAIN targets, ToggleTarget(i), UNCHANGED removed_target
      PROVE  \E new \in Seq(TargetSpec) : Commit(new)
  <2> DEFINE new == [targets EXCEPT ![i].enabled = ~@]
  <2>1. [targets[i] EXCEPT !.enabled = ~@] \in TargetSpec
    BY <1>1 DEF TargetSpec
  <2>2. new = [targets EXCEPT ![i] = [targets[i] EXCEPT !.enabled = ~@]]
    OBVIOUS
  <2>3. new \in Seq(TargetSpec)
    BY <1>0, <1>1, <2>1, <2>2, ExceptSeq
  <2> QED
    BY <1>2, <2>3 DEF ToggleTarget
<1>3. ASSUME NEW i \in DOMAIN targets, NEW name \in Names, RenameTarget(i, name),
             UNCHANGED removed_target
      PROVE  \E new \in Seq(TargetSpec) : Commit(new)
  <2> DEFINE new == [targets EXCEPT ![i].name = name]
  <2>1. [targets[i] EXCEPT !.name = name] \in TargetSpec
    BY <1>1 DEF TargetSpec
  <2>2. new = [targets EXCEPT ![i] = [targets[i] EXCEPT !.name = name]]
    OBVIOUS
  <2>3. new \in Seq(TargetSpec)
    BY <1>0, <1>1, <2>1, <2>2, ExceptSeq
  <2> QED
    BY <1>3, <2>3 DEF RenameTarget
<1>4. ASSUME NEW name \in Names, AddTarget(name)
      PROVE  \E new \in Seq(TargetSpec) : Commit(new)
  <2>1. [name |-> name, enabled |-> TRUE] \in TargetSpec
    BY DEF TargetSpec
  <2>2. Append(targets, [name |-> name, enabled |-> TRUE]) \in Seq(TargetSpec)
    BY <1>0, <2>1, AppendProperties
  <2> QED
    BY <1>4, <2>2 DEF AddTarget
<1>5. ASSUME NEW i \in DOMAIN targets, RemoveTarget(i)
      PROVE  /\ \E new \in Seq(TargetSpec) : Commit(new)
             /\ removed_target' \in [target : TargetSpec, index : Nat \ {0}]
  <2>1. RemoveAt(targets, i) \in Seq(TargetSpec)
    BY <1>0, ShorterIsList
  <2>2. targets[i] \in TargetSpec /\ i \in Nat \ {0}
    BY <1>1
  <2> QED
    BY <1>5, <2>1, <2>2 DEF RemoveTarget
<1>6. ASSUME UndoTargetRemoval
      PROVE  /\ \E new \in Seq(TargetSpec) : Commit(new)
             /\ removed_target' = Absent
  <2> DEFINE last == Len(targets) + 1
             index == IF removed_target.index < last THEN removed_target.index ELSE last
  <2>1. removed_target \in [target : TargetSpec, index : Nat \ {0}]
    BY <1>0, <1>6 DEF UndoTargetRemoval
  <2>2. index \in 1 .. (Len(targets) + 1) /\ removed_target.target \in TargetSpec
    BY <1>1, <2>1
  <2> HIDE DEF index
  <2>3. InsertAt(targets, index, removed_target.target) \in Seq(TargetSpec)
    BY <1>0, <2>2, LongerIsList
  <2> QED
    BY <1>6, <2>3 DEF UndoTargetRemoval, index
<1> QED
  BY <1>0, <1>2, <1>3, <1>4, <1>5, <1>6 DEF Edit

-----------------------------------------------------------------------------
LEMMA MonitorTypesInit == InitMonitor => MonitorTypeOK
<1> SUFFICES ASSUME InitMonitor PROVE MonitorTypeOK
  OBVIOUS
<1>1. targets \in Seq(TargetSpec)
  BY ConfiguredAssumption DEF InitMonitor, TargetSpec
<1>2. ping_targets \in Seq(TargetLive)
  <2>1. <<>> \in Seq(TargetLive)
    BY EmptySeq
  <2> QED
    BY <1>1, <2>1, SyncedKeeps DEF InitMonitor
<1>3. store \in [Names -> Seq(Sample)]
  <2>1. ASSUME NEW n \in Names
        PROVE  <<[of |-> n, cycle |-> 0]>> \in Seq(Sample) /\ <<>> \in Seq(Sample)
    <3>1. [of |-> n, cycle |-> 0] \in Sample
      BY BoundAssumption DEF Sample
    <3> QED
      BY <3>1
  <2> QED
    BY <2>1 DEF InitMonitor
<1>4. asked \subseteq Names
  <2>1. EnabledNames(targets) \in Seq(Names)
    BY <1>1, EnabledNamesAreNames
  <2>2. ToSet(EnabledNames(targets)) \subseteq Names
    BY <2>1, LenProperties, ElementOfSeq DEF ToSet
  <2> QED
    BY <2>2 DEF InitMonitor
<1>5. cycles \subseteq Cycle
  BY DEF InitMonitor
<1>6. 0 \in 0 .. MaxCycles /\ 0 \in 0 .. MaxEdits
  BY BoundAssumption
<1> QED
  BY <1>1, <1>2, <1>3, <1>4, <1>5, <1>6, Zenon DEF InitMonitor, MonitorTypeOK

LEMMA MonitorTypesStep == MonitorTypeOK /\ [NextMonitor]_monitorVars => MonitorTypeOK'
<1> SUFFICES ASSUME MonitorTypeOK, [NextMonitor]_monitorVars PROVE MonitorTypeOK'
  OBVIOUS
<1> USE DEF MonitorTypeOK, boot, editor
<1>1. CASE StartPingMonitor
  <2>1. Synced(ping_targets, targets) \in Seq(TargetLive)
    BY SyncedKeeps
  <2>2. begun < MaxCycles
    BY <1>1 DEF StartPingMonitor
  <2>3. /\ StartCycle(Synced(ping_targets, targets)) \in Cycle
        /\ begun + 1 \in 0 .. MaxCycles
    BY <2>1, <2>2, StartedIsCycle
  <2>4. (Synced(ping_targets, targets) # <<>>) \in BOOLEAN
    OBVIOUS
  <2>5. ping_targets' \in Seq(TargetLive) /\ ping_running' \in BOOLEAN
    BY <1>1, <2>1, <2>4, Zenon DEF StartPingMonitor
  <2>6. cycles' \subseteq Cycle /\ begun' \in 0 .. MaxCycles
    BY <1>1, <2>3 DEF StartPingMonitor
  <2> QED
    BY <1>1, <2>5, <2>6 DEF StartPingMonitor
<1>2. CASE StopPingMonitor
  BY <1>2 DEF StopPingMonitor
<1>3. ASSUME NEW c \in cycles, CycleStores(c) PROVE MonitorTypeOK'
  <2>1. c \in Cycle /\ [c EXCEPT !.stored = TRUE] \in Cycle
    BY DEF Cycle
  <2>2. ASSUME NEW n \in Names PROVE store[n] \o Taken(c, n) \in Seq(Sample)
    BY <2>1, TakenAreSamples, ConcatProperties
  <2>3. store' \in [Names -> Seq(Sample)]
    BY <1>3, <2>2 DEF CycleStores
  <2>4. cycles' \subseteq Cycle
    BY <1>3, <2>1 DEF CycleStores
  <2> QED
    BY <1>3, <2>3, <2>4 DEF CycleStores
<1>4. ASSUME NEW c \in cycles, OnTargetsRefreshed(c) PROVE MonitorTypeOK'
  <2>1. ping_targets' \in Seq(TargetLive)
    BY <1>4, RefreshedGrows DEF OnTargetsRefreshed
  <2>2. cycles' \subseteq Cycle /\ begun' \in 0 .. MaxCycles
    <3>1. CASE ping_running
      <4>1. begun < MaxCycles
        BY <1>4, <3>1 DEF OnTargetsRefreshed
      <4>2. StartCycle(ping_targets) \in Cycle /\ begun + 1 \in 0 .. MaxCycles
        BY <4>1, StartedIsCycle
      <4> QED
        BY <1>4, <3>1, <4>2 DEF OnTargetsRefreshed
    <3>2. CASE ~ping_running
      BY <1>4, <3>2 DEF OnTargetsRefreshed
    <3> QED
      BY <3>1, <3>2
  <2> QED
    BY <1>4, <2>1, <2>2 DEF OnTargetsRefreshed
<1>5. CASE LoadReads
  <2>1. <<>> \in Seq(Sample)
    BY EmptySeq
  <2>2. loaded' \in [Names -> Seq(Sample)]
    BY <1>5, <2>1 DEF LoadReads
  <2> QED
    BY <1>5, <2>2 DEF LoadReads
<1>6. CASE OnPingHistoryLoaded
  BY <1>6, HistoryGrows DEF OnPingHistoryLoaded
<1>7. ASSUME NEW name \in Names, CommandLineStores(name) PROVE MonitorTypeOK'
  <2>1. [of |-> name, cycle |-> 0] \in Sample
    BY BoundAssumption DEF Sample
  <2>2. <<[of |-> name, cycle |-> 0]>> \in Seq(Sample)
    BY <2>1
  <2>3. store' \in [Names -> Seq(Sample)]
    BY <1>7, <2>2 DEF CommandLineStores
  <2> QED
    BY <1>7, <2>3 DEF CommandLineStores
<1>8. CASE Edit
  BY <1>8, EditCommits, CommitTypes DEF CommittedTypes
<1>9. CASE UndoWithdrawn
  BY <1>9 DEF UndoWithdrawn
<1>10. CASE UNCHANGED monitorVars
  BY <1>10 DEF monitorVars
<1> QED
  BY <1>1, <1>2, <1>3, <1>4, <1>5, <1>6, <1>7, <1>8, <1>9, <1>10 DEF NextMonitor, CycleStep

-----------------------------------------------------------------------------
\* What SamplesSurvive says of one step.
KeepsSamples ==
  \A i \in DOMAIN ping_targets :
    LET row == ping_targets[i]
        new == RowOf(ping_targets', row.name)
    IN  RowOf(ping_targets, row.name) = i /\ new # 0
          => IsPrefix(row.samples, ping_targets'[new].samples)

\* Rows that stay where they are, with what they hold or more.
LEMMA GrowingKeeps ==
  ASSUME ping_targets \in Seq(TargetLive), ping_targets' \in Seq(TargetLive),
         DOMAIN ping_targets' = DOMAIN ping_targets,
         \A i \in DOMAIN ping_targets :
           /\ ping_targets'[i].name = ping_targets[i].name
           /\ IsPrefix(ping_targets[i].samples, ping_targets'[i].samples)
  PROVE  KeepsSamples
<1>1. ASSUME NEW name PROVE RowOf(ping_targets', name) = RowOf(ping_targets, name)
  BY RowOfSame
<1> QED
  BY <1>1 DEF KeepsSamples

\* Rows rebuilt from the settings: the first of a name holds what the first of
\* that name held.
LEMMA RebuildingKeeps ==
  ASSUME ping_targets \in Seq(TargetLive), NEW specs \in Seq(TargetSpec),
         ping_targets' = Synced(ping_targets, specs)
  PROVE  KeepsSamples
<1> SUFFICES ASSUME NEW i \in DOMAIN ping_targets,
                    RowOf(ping_targets, ping_targets[i].name) = i,
                    RowOf(ping_targets', ping_targets[i].name) # 0
             PROVE  IsPrefix(ping_targets[i].samples,
                      ping_targets'[RowOf(ping_targets', ping_targets[i].name)].samples)
  BY DEF KeepsSamples
<1> DEFINE j == RowOf(ping_targets', ping_targets[i].name)
<1>1. ping_targets' \in Seq(TargetLive)
  BY SyncedKeeps
<1>2. j \in DOMAIN ping_targets' /\ ping_targets'[j].name = ping_targets[i].name
  BY <1>1, RowOfFirst
<1> HIDE DEF j
<1>3. i # 0
  BY LenProperties
<1>4. ping_targets'[j].samples = ping_targets[i].samples
  BY <1>2, <1>3, SyncedKeeps
<1>5. ping_targets[i].samples \in Seq(Sample)
  <2>1. ping_targets[i] \in TargetLive
    BY ElementOfSeq, LenProperties
  <2> QED
    BY <2>1 DEF TargetLive
<1> QED
  BY <1>4, <1>5, PrefixOfItself DEF j

LEMMA RowsAsTheyAre ==
  ASSUME ping_targets \in Seq(TargetLive), UNCHANGED ping_targets
  PROVE  KeepsSamples
<1>1. ASSUME NEW i \in DOMAIN ping_targets
      PROVE  IsPrefix(ping_targets[i].samples, ping_targets[i].samples)
  <2>1. ping_targets[i] \in TargetLive
    BY ElementOfSeq, LenProperties
  <2>2. ping_targets[i].samples \in Seq(Sample)
    BY <2>1 DEF TargetLive
  <2> QED
    BY <2>2, PrefixOfItself
<1> QED
  BY <1>1, GrowingKeeps

\* While a name stays in the list, its row keeps its samples through every edit,
\* Start, cycle and late history (sync_ping_targets, on_targets_refreshed,
\* on_ping_history_loaded), whatever the settings are and become.
THEOREM RowsKeepSamples == SpecMonitor => SamplesSurvive
<1>1. MonitorTypeOK /\ [NextMonitor]_monitorVars => KeepsSamples
  <2> SUFFICES ASSUME MonitorTypeOK, [NextMonitor]_monitorVars PROVE KeepsSamples
    OBVIOUS
  <2>0. ping_targets \in Seq(TargetLive) /\ targets \in Seq(TargetSpec) /\ cycles \subseteq Cycle
    BY DEF MonitorTypeOK
  <2>1. CASE StartPingMonitor
    BY <2>0, <2>1, RebuildingKeeps DEF StartPingMonitor
  <2>2. ASSUME NEW c \in cycles, OnTargetsRefreshed(c) PROVE KeepsSamples
    <3>1. c \in Cycle /\ ping_targets' = Refreshed(ping_targets, c)
      BY <2>0, <2>2 DEF OnTargetsRefreshed
    <3> QED
      BY <2>0, <3>1, RefreshedGrows, GrowingKeeps
  <2>3. CASE OnPingHistoryLoaded
    BY <2>0, <2>3, HistoryGrows, GrowingKeeps
  <2>4. CASE Edit
    <3>1. PICK list \in Seq(TargetSpec) : Commit(list)
      BY <2>4, EditCommits
    <3> QED
      BY <2>0, <3>1, RebuildingKeeps DEF Commit
  <2>5. CASE \/ StopPingMonitor \/ LoadReads \/ UndoWithdrawn \/ UNCHANGED monitorVars
             \/ \E c \in cycles : CycleStores(c)
             \/ \E name \in Names : CommandLineStores(name)
    BY <2>0, <2>5, RowsAsTheyAre
       DEF StopPingMonitor, LoadReads, UndoWithdrawn, monitorVars, CycleStores, CommandLineStores
  <2> QED
    BY <2>1, <2>2, <2>3, <2>4, <2>5 DEF NextMonitor, CycleStep
<1>2. SpecMonitor => []MonitorTypeOK
  BY MonitorTypesInit, MonitorTypesStep, PTL DEF SpecMonitor
<1>3. MonitorTypeOK /\ [NextMonitor]_monitorVars =>
        [\A i \in DOMAIN ping_targets :
           LET row == ping_targets[i]
               new == RowOf(ping_targets', row.name)
           IN  RowOf(ping_targets, row.name) = i /\ new # 0
                 => IsPrefix(row.samples, ping_targets'[new].samples)]_monitorVars
  BY <1>1 DEF KeepsSamples
<1> QED
  BY <1>2, <1>3, PTL DEF SpecMonitor, SamplesSurvive
=============================================================================
