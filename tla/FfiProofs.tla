----------------------------- MODULE FfiProofs -----------------------------
(***************************************************************************)
(* Proofs about the C ABI, for any number of threads, any requests and any *)
(* buffers: what a thread reads of a failure is its own, its buffer holds  *)
(* whole images or nothing, the counts are those of its request, and no    *)
(* step is one the contract of RenderService does not allow.               *)
(*                                                                         *)
(* The invariants are of each thread by itself: they follow a call from    *)
(* stage to stage, and a step of another thread touches none of it.        *)
(***************************************************************************)
EXTENDS FfiService, ArithmeticLemmas

Stages == {"idle", "entered", "check", "emit", "draw", "copy", "return", "returned"}
Within == {"check", "emit", "draw", "copy", "return"}

\* The statuses of calls whose input decoded and that did not panic.
Counting == {"OK", "BUFFER_TOO_SMALL", "IMAGE_TOO_LARGE", "ENCODE", "PAGE_OUT_OF_RANGE"}

Call(t) == [renderer : {"none", "live"}, request : Requests[t], capacity : Nat]
Response == [status : Statuses \cup {"unset"}, written : Nat, required : Nat,
             pages : Nat, width : Nat, opcodes : Nat]
Message == [error : Error, whole : BOOLEAN]

TypeOK ==
    /\ pc \in [Threads -> Stages]
    /\ renderer \in [Threads -> {"none", "live"}]
    /\ call \in [Threads -> {NoCall} \cup UNION {Call(t) : t \in Threads}]
    /\ partial \in [Threads -> Response]
    /\ pending \in [Threads -> Error]
    /\ response \in [Threads -> Response]
    /\ buffer \in [Threads -> Nat]
    /\ status \in [Threads -> Statuses]
    /\ lastError \in [Threads -> Error]
    /\ needed \in [Threads -> Nat]
    /\ message \in [Threads -> Message]

Opcodes(r) == IF r.kind = "diagnostic" THEN 0 ELSE r.opcodes

\* A response with the counts of a call.
Counts(resp, r) == resp.pages = PagesTotal(r) /\ resp.opcodes = Opcodes(r)

\* A response that says what is in the buffer.
Tells(resp, code, n) ==
    /\ resp.written = n
    /\ (code = "OK") = (n > 0)
    /\ code = "OK" => resp.required = n

CallIsOwn(t) ==
    /\ pc[t] # "idle" => call[t] \in Call(t) /\ call[t].renderer = renderer[t]
    /\ pc[t] \in Within => renderer[t] = "live"

FailureIsKept(t) ==
    /\ pc[t] \in {"idle", "returned"} /\ status[t] # "OK" => lastError[t].status = status[t]
    /\ needed[t] > 0 =>
           /\ pc[t] \in {"idle", "returned"} /\ status[t] # "OK"
           /\ needed[t] = MessageLength(lastError[t]) + 1
    /\ message[t] # NoMessage =>
           /\ pc[t] \in {"idle", "returned"}
           /\ message[t].whole /\ message[t].error.status = status[t]

UnderConstruction(t) ==
    /\ pc[t] \in {"check", "emit", "idle", "entered", "returned"} => partial[t] = Blank
    /\ pc[t] \in {"draw", "copy"} => partial[t].written = 0 /\ Counts(partial[t], call[t].request)
    /\ pc[t] = "return" =>
           /\ Tells(partial[t], pending[t].status, buffer[t])
           /\ pending[t].status \in Counting => Counts(partial[t], call[t].request)

\* A call that was refused for its null renderer leaves response as it was.
Settled(t) ==
    /\ pc[t] = "entered" => response[t] = Blank
    /\ pc[t] = "returned" =>
           \/ response[t] = Blank /\ status[t] \notin Counting
           \/ /\ Tells(response[t], status[t], buffer[t])
              /\ status[t] \in Counting => Counts(response[t], call[t].request)

BufferIsIntact(t) ==
    /\ pc[t] \notin {"return", "returned"} => buffer[t] = 0
    /\ buffer[t] > 0 => buffer[t] <= call[t].capacity

ThreadInv(t) ==
    CallIsOwn(t) /\ FailureIsKept(t) /\ UnderConstruction(t) /\ Settled(t) /\ BufferIsIntact(t)

Inv == TypeOK /\ \A t \in Threads : ThreadInv(t)
-----------------------------------------------------------------------------
LEMMA Refusals ==
    ASSUME NEW r \in Request
    PROVE  /\ Refusal(r) \in Error
           /\ Refusal(r) # NoError => Refusal(r).status \notin Counting
BY DEF Refusal, NoError, Failure, Error, Statuses, Counting

LEMMA DecodeErrors ==
    ASSUME NEW r \in Request
    PROVE  /\ DecodeError(r) \in Error
           /\ DecodeError(r) # NoError => DecodeError(r).status \notin Counting
BY DEF DecodeError, PanicRendering, NoError, Failure, Error, Statuses, Counting

LEMMA FontErrors ==
    ASSUME NEW f \in Font
    PROVE  /\ FontError(f) \in Error
           /\ (f = "ok") => FontError(f).status = "OK"
BY DEF FontError, Font, NoError, Failure, Error, Statuses

LEMMA OwnFailures ==
    /\ NoError \in Error /\ NoError.status = "OK"
    /\ TooSmall \in Error /\ TooSmall.status = "BUFFER_TOO_SMALL"
    /\ LET null == Failure("INVALID_ARGUMENT", "null renderer, request or response")
       IN  null \in Error /\ null.status = "INVALID_ARGUMENT"
BY DEF NoError, TooSmall, Failure, Error, Statuses

LEMMA Blanks ==
    /\ Blank \in Response /\ Blank.written = 0 /\ Blank.status = "unset"
    /\ NoMessage \in Message
BY OwnFailures DEF Blank, Response, NoMessage, Message

LEMMA CountsAreNumbers ==
    ASSUME NEW t \in Threads, NEW r \in Requests[t]
    PROVE  r \in Request /\ PagesTotal(r) \in Nat /\ Opcodes(r) \in Nat /\ r.size \in Nat \ {0}
           /\ r.width \in Nat
<1>1. r \in Request /\ r.width > 0 /\ r.size > 0 /\ r.rows > 0
  BY FfiAssumption
<1>2. r.rows \in Nat /\ r.pageRows \in Nat /\ r.opcodes \in Nat /\ r.size \in Nat /\ r.width \in Nat
  BY <1>1 DEF Request
<1>3. PageRows(r) \in Nat /\ PageRows(r) > 0
  BY <1>2, FfiAssumption DEF PageRows
<1>4. PagesTotal(r) \in Nat
  BY <1>1, <1>2, <1>3, CeilingBounds DEF PagesTotal, Pages, DivCeil, Greater
<1> QED BY <1>1, <1>2, <1>4 DEF Opcodes

LEMMA DrawErrors ==
    ASSUME NEW t \in Threads, NEW r \in Requests[t]
    PROVE  /\ DrawError(r) \in Error
           /\ DrawError(r) # NoError => DrawError(r).status # "OK"
           /\ DrawError(r) = PanicRendering => DrawError(r).status \notin Counting
<1>1. r.page >= PagesTotal(r) \/ r.page < PagesTotal(r)
  BY CountsAreNumbers DEF Request
<1>2. DrawError(r) \in {Failure("PAGE_OUT_OF_RANGE", "page"), Failure("IMAGE_TOO_LARGE", "image"),
                         Failure("ENCODE", "encode"), PanicRendering, NoError}
  BY <1>1 DEF DrawError
<1>3. PanicRendering \in Error /\ PanicRendering.status = "INTERNAL" /\ NoError \in Error
  BY DEF PanicRendering, NoError, Failure, Error, Statuses
<1>4. \A e \in {Failure("PAGE_OUT_OF_RANGE", "page"), Failure("IMAGE_TOO_LARGE", "image"),
                 Failure("ENCODE", "encode")} :
          e \in Error /\ e.status # "OK" /\ e.status # "INTERNAL"
  <2>1. /\ Failure("PAGE_OUT_OF_RANGE", "page") \in Error
        /\ Failure("PAGE_OUT_OF_RANGE", "page").status = "PAGE_OUT_OF_RANGE"
    BY DEF Failure, Error, Statuses
  <2>2. /\ Failure("IMAGE_TOO_LARGE", "image") \in Error
        /\ Failure("IMAGE_TOO_LARGE", "image").status = "IMAGE_TOO_LARGE"
    BY DEF Failure, Error, Statuses
  <2>3. Failure("ENCODE", "encode") \in Error /\ Failure("ENCODE", "encode").status = "ENCODE"
    BY DEF Failure, Error, Statuses
  <2> QED BY <2>1, <2>2, <2>3
<1>5. "INTERNAL" # "OK" /\ "INTERNAL" \notin Counting
  BY DEF Counting
<1> HIDE DEF PanicRendering, NoError
<1>6. CASE DrawError(r) \in {PanicRendering, NoError}
  BY <1>3, <1>5, <1>6
<1>7. CASE DrawError(r) \notin {PanicRendering, NoError}
  BY <1>2, <1>4, <1>7
<1> QED BY <1>6, <1>7

\* What a thread's invariant says is untouched by steps of the others.
LEMMA OthersAreUntouched ==
    ASSUME NEW u \in Threads, ThreadInv(u),
           pc'[u] = pc[u], renderer'[u] = renderer[u], call'[u] = call[u],
           partial'[u] = partial[u], pending'[u] = pending[u], response'[u] = response[u],
           buffer'[u] = buffer[u], status'[u] = status[u], lastError'[u] = lastError[u],
           needed'[u] = needed[u], message'[u] = message[u]
    PROVE  ThreadInv(u)'
<1>1. CallIsOwn(u)'
  BY DEF ThreadInv, CallIsOwn
<1>2. FailureIsKept(u)'
  BY DEF ThreadInv, FailureIsKept
<1>3. UnderConstruction(u)'
  BY DEF ThreadInv, UnderConstruction
<1>4. Settled(u)'
  BY DEF ThreadInv, Settled
<1>5. BufferIsIntact(u)'
  BY DEF ThreadInv, BufferIsIntact
<1> QED BY <1>1, <1>2, <1>3, <1>4, <1>5 DEF ThreadInv

LEMMA Initial == Init => Inv
<1> SUFFICES ASSUME Init PROVE Inv
  OBVIOUS
<1>1. TypeOK
  BY OwnFailures, Blanks DEF Init, TypeOK, Stages, Statuses
<1>2. ASSUME NEW t \in Threads PROVE ThreadInv(t)
  BY Blanks DEF Init, ThreadInv, CallIsOwn, FailureIsKept, UnderConstruction, Settled,
                BufferIsIntact, Within
<1> QED BY <1>1, <1>2 DEF Inv
-----------------------------------------------------------------------------
LEMMA CallTyped ==
    ASSUME Inv, NEW t \in Threads, pc[t] # "idle"
    PROVE  /\ call[t] \in Call(t)
           /\ call[t].request \in Requests[t] /\ call[t].capacity \in Nat
           /\ call[t].renderer = renderer[t]
BY DEF Inv, ThreadInv, CallIsOwn, Call

\* A call of a thread with its own renderer starts with an empty response.
LEMMA StartKeeps ==
    ASSUME Inv, NEW t \in Threads, pc[t] \in {"idle", "returned"},
           NEW c \in Call(t), c.renderer = renderer[t], Start(t, c)
    PROVE  Inv'
<1>1. TypeOK'
  BY Blanks DEF Inv, TypeOK, Start, Stages
<1>2. ASSUME NEW u \in Threads, u # t PROVE ThreadInv(u)'
  BY <1>2, OthersAreUntouched DEF Inv, TypeOK, Start
<1>3. ThreadInv(t)'
  <2>1. /\ pc'[t] = "entered" /\ call'[t] = c /\ response'[t] = Blank /\ buffer'[t] = 0
        /\ needed'[t] = 0 /\ message'[t] = NoMessage /\ renderer'[t] = renderer[t]
        /\ partial'[t] = partial[t]
    BY DEF Inv, TypeOK, Start
  <2>2. partial[t] = Blank
    BY DEF Inv, ThreadInv, UnderConstruction
  <2> QED BY <2>1, <2>2 DEF ThreadInv, CallIsOwn, FailureIsKept, UnderConstruction,
                 Settled, BufferIsIntact, Within
<1> QED BY <1>1, <1>2, <1>3 DEF Inv

LEMMA AskKeeps == ASSUME Inv, NEW t \in Threads, Ask(t) PROVE Inv'
<1>1. pc[t] \in {"idle", "returned"}
  BY DEF Ask, Free
<1>2. PICK r \in Requests[t], cap \in Capacities[t] :
          Start(t, [renderer |-> renderer[t], request |-> r, capacity |-> cap])
  BY DEF Ask
<1>3. cap \in Nat /\ renderer[t] \in {"none", "live"}
  BY FfiAssumption DEF Inv, TypeOK
<1> QED BY <1>1, <1>2, <1>3, StartKeeps DEF Call

LEMMA RetryKeeps == ASSUME Inv, NEW t \in Threads, Retry(t) PROVE Inv'
<1> DEFINE c == [call[t] EXCEPT !.capacity = response[t].required]
<1>1. pc[t] = "returned" /\ Start(t, c)
  BY DEF Retry
<1>2. call[t] \in Call(t) /\ call[t].renderer = renderer[t]
  BY <1>1, CallTyped
<1>3. response[t].required \in Nat
  BY DEF Inv, TypeOK, Response
<1>4. c \in Call(t) /\ c.renderer = renderer[t]
  BY <1>2, <1>3 DEF Call
<1> QED BY <1>1, <1>4, StartKeeps

\* A renderer is built or freed between calls, which are done with then.
LEMMA RendererKeeps ==
    ASSUME Inv, NEW t \in Threads, RendererNew(t) \/ RendererFree(t)
    PROVE  Inv'
<1>1. pc[t] \in {"idle", "returned"}
  BY DEF RendererNew, RendererFree, Free
<1>2. /\ Discard(t)
      /\ partial' = partial /\ pending' = pending
      /\ \E h \in {"none", "live"} : renderer' = [renderer EXCEPT ![t] = h]
      /\ \/ /\ status' = [status EXCEPT ![t] = "OK"]
            /\ lastError' = lastError
         \/ \E e \in Error : /\ status' = [status EXCEPT ![t] = e.status]
                             /\ lastError' = [lastError EXCEPT ![t] = e]
  <2>1. CASE RendererFree(t)
    BY <2>1 DEF RendererFree
  <2>2. CASE RendererNew(t)
    <3>1. PICK f \in Fonts[t] :
              /\ renderer' = [renderer EXCEPT ![t] = IF f = "ok" THEN "live" ELSE "none"]
              /\ status' = [status EXCEPT ![t] = FontError(f).status]
              /\ IF f = "ok" THEN UNCHANGED lastError ELSE Remember(t, FontError(f))
      BY <2>2 DEF RendererNew
    <3>2. f \in Font
      BY FfiAssumption
    <3> QED BY <2>2, <3>1, <3>2, FontErrors DEF RendererNew, Remember
  <2> QED BY <2>1, <2>2
<1>3. TypeOK'
  <2>1. /\ pc' \in [Threads -> Stages] /\ buffer' \in [Threads -> Nat]
        /\ needed' \in [Threads -> Nat] /\ message' \in [Threads -> Message]
        /\ response' \in [Threads -> Response]
        /\ call' \in [Threads -> {NoCall} \cup UNION {Call(u) : u \in Threads}]
    BY <1>2, Blanks DEF Inv, TypeOK, Discard, Stages
  <2>2. status' \in [Threads -> Statuses] /\ lastError' \in [Threads -> Error]
    <3>1. "OK" \in Statuses /\ \A e \in Error : e.status \in Statuses
      BY DEF Error, Statuses
    <3> QED BY <1>2, <3>1, ZenonT(30) DEF Inv, TypeOK
  <2> QED BY <1>2, <2>1, <2>2 DEF Inv, TypeOK
<1>4. ASSUME NEW u \in Threads, u # t PROVE ThreadInv(u)'
  BY <1>2, <1>4, OthersAreUntouched DEF Inv, TypeOK, Discard
<1>5. ThreadInv(t)'
  <2>1. /\ pc'[t] = "idle" /\ buffer'[t] = 0 /\ needed'[t] = 0 /\ message'[t] = NoMessage
        /\ partial'[t] = partial[t]
    BY <1>2 DEF Inv, TypeOK, Discard
  <2>2. status'[t] = "OK" \/ lastError'[t].status = status'[t]
    BY <1>2 DEF Inv, TypeOK
  <2>3. partial[t] = Blank
    BY <1>1 DEF Inv, ThreadInv, UnderConstruction
  <2> QED BY <2>1, <2>2, <2>3 DEF ThreadInv, CallIsOwn, FailureIsKept, UnderConstruction,
                                  Settled, BufferIsIntact, Within
<1> QED BY <1>3, <1>4, <1>5 DEF Inv

LEMMA EnterKeeps == ASSUME Inv, NEW t \in Threads, Enter(t) PROVE Inv'
<1> DEFINE null == Failure("INVALID_ARGUMENT", "null renderer, request or response")
<1>1. /\ pc[t] = "entered"
      /\ \/ /\ renderer[t] = "none" /\ pc' = [pc EXCEPT ![t] = "returned"]
            /\ status' = [status EXCEPT ![t] = null.status]
            /\ lastError' = [lastError EXCEPT ![t] = null]
         \/ /\ renderer[t] = "live" /\ pc' = [pc EXCEPT ![t] = "check"]
            /\ status' = status /\ lastError' = lastError
      /\ UNCHANGED <<renderer, call, partial, pending, response, buffer, needed, message>>
  <2>1. pc[t] = "entered"
    BY DEF Enter, Goto
  <2>2. call[t].renderer = renderer[t] /\ renderer[t] \in {"none", "live"}
    BY <2>1, CallTyped DEF Inv, TypeOK
  <2> QED BY <2>1, <2>2 DEF Enter, Goto, Remember
<1>2. null \in Error /\ null.status = "INVALID_ARGUMENT"
  BY OwnFailures
<1> HIDE DEF null
<1>3. TypeOK'
  BY <1>1, <1>2 DEF Inv, TypeOK, Stages, Statuses
<1>4. ASSUME NEW u \in Threads, u # t PROVE ThreadInv(u)'
  BY <1>1, <1>4, OthersAreUntouched DEF Inv, TypeOK
<1>5. ThreadInv(t)'
  <2>1. ThreadInv(t)
    BY DEF Inv
  <2>2. /\ pc'[t] \in {"check", "returned"}
        /\ pc'[t] = "check" => renderer[t] = "live"
        /\ pc'[t] = "returned" => status'[t] = "INVALID_ARGUMENT" /\ lastError'[t].status = status'[t]
    BY <1>1, <1>2 DEF Inv, TypeOK
  <2>3. CallIsOwn(t)'
    BY <1>1, <2>1, <2>2 DEF ThreadInv, CallIsOwn, Within
  <2>4. FailureIsKept(t)'
    BY <1>1, <2>1, <2>2 DEF ThreadInv, FailureIsKept
  <2>5. UnderConstruction(t)'
    BY <1>1, <2>1, <2>2 DEF ThreadInv, UnderConstruction
  <2>6. Settled(t)'
    BY <1>1, <2>1, <2>2 DEF ThreadInv, Settled, Counting
  <2>7. BufferIsIntact(t)'
    BY <1>1, <2>1, <2>2 DEF ThreadInv, BufferIsIntact
  <2> QED BY <2>3, <2>4, <2>5, <2>6, <2>7 DEF ThreadInv
<1> QED BY <1>3, <1>4, <1>5 DEF Inv

\* A stage of the call of a thread goes on to the next, with this response,
\* error and contents of the buffer.
GoesOn(t, to, resp, error, n) ==
    /\ pc[t] \in Within
    /\ pc' = [pc EXCEPT ![t] = to]
    /\ partial' = [partial EXCEPT ![t] = resp]
    /\ pending' = [pending EXCEPT ![t] = error]
    /\ buffer' = [buffer EXCEPT ![t] = n]
    /\ UNCHANGED <<renderer, call, response, status, lastError, needed, message>>

\* What a stage must hand over.
HandsOver(t, to, resp, error, n) ==
    /\ to = "emit" => resp = Blank
    /\ to \in {"draw", "copy"} => resp.written = 0 /\ Counts(resp, call[t].request)
    /\ to = "return" => /\ Tells(resp, error.status, n)
                        /\ error.status \in Counting => Counts(resp, call[t].request)
    /\ to # "return" => n = 0
    /\ n <= call[t].capacity

LEMMA StageKeeps ==
    ASSUME Inv, NEW t \in Threads,
           NEW to \in {"emit", "draw", "copy", "return"}, NEW resp \in Response,
           NEW error \in Error, NEW n \in Nat,
           GoesOn(t, to, resp, error, n), HandsOver(t, to, resp, error, n)
    PROVE  Inv'
<1> USE DEF GoesOn, HandsOver
<1>1. TypeOK'
  BY DEF Inv, TypeOK, Stages
<1>2. ASSUME NEW u \in Threads, u # t PROVE ThreadInv(u)'
  BY <1>2, OthersAreUntouched DEF Inv, TypeOK
<1>3. ThreadInv(t)'
  <2>1. /\ pc'[t] = to /\ partial'[t] = resp /\ pending'[t] = error /\ buffer'[t] = n
        /\ renderer' = renderer /\ call' = call /\ needed' = needed /\ message' = message
    BY DEF Inv, TypeOK
  <2>2. ThreadInv(t)
    BY DEF Inv
  <2>3. CallIsOwn(t)'
    BY <2>1, <2>2 DEF ThreadInv, CallIsOwn, Within
  <2>4. FailureIsKept(t)'
    BY <2>1, <2>2 DEF ThreadInv, FailureIsKept, Within
  <2>5. UnderConstruction(t)'
    <3>1. Counts(resp, call[t].request)' = Counts(resp, call[t].request)
      BY <2>1 DEF Counts, PagesTotal
    <3> QED BY <2>1, <3>1 DEF UnderConstruction, Counts, Tells
  <2>6. Settled(t)'
    BY <2>1 DEF Settled
  <2>7. BufferIsIntact(t)'
    BY <2>1, <2>2 DEF ThreadInv, BufferIsIntact
  <2> QED BY <2>3, <2>4, <2>5, <2>6, <2>7 DEF ThreadInv
<1> QED BY <1>1, <1>2, <1>3 DEF Inv

\* Before the buffer is written to, a call may fail with an empty response or
\* with the counts.
LEMMA FailedStageKeeps ==
    ASSUME Inv, NEW t \in Threads, pc[t] \in {"check", "emit", "draw", "copy"},
           NEW resp \in Response, NEW error \in Error,
           Leave(t, pc[t], resp, error),
           UNCHANGED <<renderer, call, response, buffer, status, lastError, needed, message>>,
           resp.written = 0, error.status # "OK",
           error.status \in Counting => Counts(resp, call[t].request)
    PROVE  Inv'
<1>1. buffer[t] = 0 /\ buffer \in [Threads -> Nat]
  BY DEF Inv, TypeOK, ThreadInv, BufferIsIntact
<1>2. Tells(resp, error.status, 0)
  BY DEF Tells
<1>3. 0 <= call[t].capacity
  BY CallTyped
<1>4. GoesOn(t, "return", resp, error, 0)
  BY <1>1 DEF Leave, Goto, GoesOn, Within
<1>5. HandsOver(t, "return", resp, error, 0)
  BY <1>2, <1>3 DEF HandsOver
<1> QED BY <1>4, <1>5, StageKeeps

LEMMA CheckKeeps == ASSUME Inv, NEW t \in Threads, Check(t) PROVE Inv'
<1> DEFINE error == Refusal(call[t].request)
<1>1. /\ pc[t] = "check"
      /\ UNCHANGED <<renderer, call, response, buffer, status, lastError, needed, message>>
  BY DEF Check, local
<1>2. error \in Error /\ (error # NoError => error.status \notin Counting)
  BY <1>1, CallTyped, CountsAreNumbers, Refusals
<1>3. CASE error = NoError
  <2>1. pc' = [pc EXCEPT ![t] = "emit"] /\ partial' = partial /\ pending' = pending
    BY <1>3 DEF Check, Goto
  <2>2. partial[t] = Blank /\ buffer[t] = 0
    BY <1>1 DEF Inv, ThreadInv, UnderConstruction, BufferIsIntact
  <2>3. /\ partial' = [partial EXCEPT ![t] = Blank]
        /\ pending' = [pending EXCEPT ![t] = pending[t]] /\ pending[t] \in Error
        /\ buffer' = [buffer EXCEPT ![t] = 0]
    BY <1>1, <2>1, <2>2 DEF Inv, TypeOK
  <2>4. 0 <= call[t].capacity
    BY <1>1, CallTyped
  <2>5. GoesOn(t, "emit", Blank, pending[t], 0)
    BY <1>1, <2>1, <2>3 DEF GoesOn, Within
  <2>6. HandsOver(t, "emit", Blank, pending[t], 0)
    BY <2>4 DEF HandsOver
  <2> QED BY <2>3, <2>5, <2>6, Blanks, StageKeeps
<1>4. CASE error # NoError
  <2>1. Leave(t, pc[t], Blank, error)
    BY <1>1, <1>4 DEF Check
  <2>2. error.status # "OK" /\ error.status \notin Counting
    BY <1>2, <1>4 DEF Counting
  <2> HIDE DEF error
  <2> QED BY <1>1, <1>2, <2>1, <2>2, Blanks, FailedStageKeeps
<1> QED BY <1>3, <1>4

LEMMA EmitKeeps == ASSUME Inv, NEW t \in Threads, Emit(t) PROVE Inv'
<1> DEFINE r == call[t].request
           error == DecodeError(r)
           resp == [Blank EXCEPT !.pages = PagesTotal(r), !.opcodes = Opcodes(r)]
<1>1. /\ pc[t] = "emit"
      /\ UNCHANGED <<renderer, call, response, buffer, status, lastError, needed, message>>
  BY DEF Emit, local
<1>2. r \in Requests[t]
  BY <1>1, CallTyped
<1>3. error \in Error /\ (error # NoError => error.status \notin Counting)
  BY <1>2, CountsAreNumbers, DecodeErrors
<1>4. CASE error = NoError
  <2>1. /\ pc' = [pc EXCEPT ![t] = "draw"] /\ partial' = [partial EXCEPT ![t] = resp]
        /\ pending' = pending
    BY <1>4 DEF Emit, Goto, Opcodes
  <2>2. PagesTotal(r) \in Nat /\ Opcodes(r) \in Nat
    BY <1>2, CountsAreNumbers
  <2>3. resp \in Response /\ resp.written = 0 /\ Counts(resp, r)
    <3> HIDE DEF r
    <3> QED BY <2>2 DEF Blank, Response, Counts
  <2>4. /\ pending' = [pending EXCEPT ![t] = pending[t]] /\ pending[t] \in Error
        /\ buffer' = [buffer EXCEPT ![t] = 0]
    <3>1. buffer[t] = 0
      BY <1>1 DEF Inv, ThreadInv, BufferIsIntact
    <3> QED BY <1>1, <2>1, <3>1 DEF Inv, TypeOK
  <2>5. 0 <= call[t].capacity
    BY <1>1, CallTyped
  <2> HIDE DEF resp
  <2>6. GoesOn(t, "draw", resp, pending[t], 0)
    BY <1>1, <2>1, <2>4 DEF GoesOn, Within
  <2>7. HandsOver(t, "draw", resp, pending[t], 0)
    BY <2>3, <2>5 DEF HandsOver
  <2> QED BY <2>3, <2>4, <2>6, <2>7, StageKeeps
<1>5. CASE error # NoError
  <2>1. Leave(t, pc[t], Blank, error)
    BY <1>1, <1>5 DEF Emit
  <2>2. error.status # "OK" /\ error.status \notin Counting
    BY <1>3, <1>5 DEF Counting
  <2> HIDE DEF error
  <2> QED BY <1>1, <1>3, <2>1, <2>2, Blanks, FailedStageKeeps
<1> QED BY <1>4, <1>5

LEMMA DrawKeeps == ASSUME Inv, NEW t \in Threads, Draw(t) PROVE Inv'
<1> DEFINE r == call[t].request
           error == DrawError(r)
<1>1. /\ pc[t] = "draw"
      /\ UNCHANGED <<renderer, call, response, buffer, status, lastError, needed, message>>
  BY DEF Draw, local
<1>2. r \in Requests[t]
  BY <1>1, CallTyped
<1>3. /\ error \in Error
      /\ error # NoError => error.status # "OK"
      /\ error = PanicRendering => error.status \notin Counting
  BY <1>2, DrawErrors
<1>4. partial[t] \in Response /\ partial[t].written = 0 /\ Counts(partial[t], r)
  BY <1>1 DEF Inv, TypeOK, ThreadInv, UnderConstruction
<1>5. CASE error = NoError
  <2>1. pc' = [pc EXCEPT ![t] = "copy"] /\ partial' = partial /\ pending' = pending
    BY <1>5 DEF Draw, Goto
  <2>2. /\ partial' = [partial EXCEPT ![t] = partial[t]]
        /\ pending' = [pending EXCEPT ![t] = pending[t]] /\ pending[t] \in Error
        /\ buffer' = [buffer EXCEPT ![t] = 0]
    <3>1. buffer[t] = 0
      BY <1>1 DEF Inv, ThreadInv, BufferIsIntact
    <3> QED BY <1>1, <2>1, <3>1 DEF Inv, TypeOK
  <2>3. 0 <= call[t].capacity
    BY <1>1, CallTyped
  <2>4. GoesOn(t, "copy", partial[t], pending[t], 0)
    BY <1>1, <2>1, <2>2 DEF GoesOn, Within
  <2>5. HandsOver(t, "copy", partial[t], pending[t], 0)
    BY <1>4, <2>3 DEF HandsOver
  <2> QED BY <1>4, <2>2, <2>4, <2>5, StageKeeps
<1>6. CASE error # NoError
  <2>1. Leave(t, pc[t], FailedDraw(t), error)
    BY <1>1, <1>6 DEF Draw
  <2>2. FailedDraw(t) \in Response /\ FailedDraw(t).written = 0
    BY <1>4, Blanks DEF FailedDraw
  <2>3. error.status \in Counting => Counts(FailedDraw(t), r)
    BY <1>3, <1>4 DEF FailedDraw
  <2> HIDE DEF error
  <2> QED BY <1>1, <1>3, <1>6, <2>1, <2>2, <2>3, FailedStageKeeps
<1> QED BY <1>5, <1>6

LEMMA CopyKeeps == ASSUME Inv, NEW t \in Threads, Copy(t) PROVE Inv'
<1> DEFINE r == call[t].request
           short == [partial[t] EXCEPT !.required = Required(t)]
           whole == [partial[t] EXCEPT !.written = r.size, !.required = r.size, !.width = r.width]
<1>1. /\ pc[t] = "copy"
      /\ UNCHANGED <<renderer, call, response, status, lastError, needed, message>>
  BY DEF Copy
<1>2. r.size \in Nat \ {0} /\ r.width \in Nat /\ call[t].capacity \in Nat
  <2>1. r \in Requests[t] /\ call[t].capacity \in Nat
    BY <1>1, CallTyped
  <2> QED BY <2>1, CountsAreNumbers
<1>3. partial[t] \in Response /\ partial[t].written = 0 /\ Counts(partial[t], r)
  BY <1>1 DEF Inv, TypeOK, ThreadInv, UnderConstruction
<1>4. CASE r.size > call[t].capacity
  <2>1. Leave(t, pc[t], short, TooSmall) /\ buffer' = buffer
    BY <1>1, <1>4 DEF Copy
  <2>2. short \in Response /\ short.written = 0 /\ Counts(short, r)
    <3> HIDE DEF r
    <3>1. Required(t) \in Nat
      BY <1>2 DEF Required, r
    <3> QED BY <1>3, <3>1 DEF Response, Counts
  <2> HIDE DEF short
  <2> QED BY <1>1, <2>1, <2>2, OwnFailures, FailedStageKeeps
<1>5. CASE ~(r.size > call[t].capacity)
  <2>1. Leave(t, "copy", whole, NoError) /\ buffer' = [buffer EXCEPT ![t] = r.size]
    BY <1>5 DEF Copy
  <2>2. /\ whole \in Response /\ Counts(whole, r)
        /\ whole.written = r.size /\ whole.required = r.size
    <3> HIDE DEF r
    <3> QED BY <1>2, <1>3 DEF Response, Counts
  <2> HIDE DEF whole
  <2>3. GoesOn(t, "return", whole, NoError, r.size)
    BY <1>1, <2>1 DEF Leave, Goto, GoesOn, Within
  <2>4. HandsOver(t, "return", whole, NoError, r.size)
    <3>1. r.size > 0 /\ r.size <= call[t].capacity
      BY <1>2, <1>5
    <3> HIDE DEF r
    <3>2. Tells(whole, "OK", r.size)
      BY <2>2, <3>1 DEF Tells
    <3> QED BY <2>2, <3>1, <3>2, OwnFailures DEF HandsOver, r
  <2> QED BY <1>2, <2>2, <2>3, <2>4, OwnFailures, StageKeeps
<1> QED BY <1>4, <1>5

\* The response is the one under construction, and the failure is remembered.
LEMMA ReturnKeeps == ASSUME Inv, NEW t \in Threads, Return(t) PROVE Inv'
<1> DEFINE resp == [partial[t] EXCEPT !.status = pending[t].status]
<1>1. /\ pc[t] = "return" /\ pc' = [pc EXCEPT ![t] = "returned"]
      /\ response' = [response EXCEPT ![t] = resp]
      /\ status' = [status EXCEPT ![t] = pending[t].status]
      /\ lastError' = IF pending[t] = NoError THEN lastError
                      ELSE [lastError EXCEPT ![t] = pending[t]]
      /\ partial' = [partial EXCEPT ![t] = Blank]
      /\ pending' = [pending EXCEPT ![t] = NoError]
      /\ UNCHANGED <<renderer, call, buffer, needed, message>>
  BY DEF Return, Goto, Remember
<1>2. partial[t] \in Response /\ pending[t] \in Error /\ pending[t].status \in Statuses
  BY DEF Inv, TypeOK, Error
<1>3. /\ resp \in Response
      /\ resp.written = partial[t].written /\ resp.required = partial[t].required
      /\ resp.pages = partial[t].pages /\ resp.opcodes = partial[t].opcodes
  BY <1>2 DEF Response
<1> HIDE DEF resp
<1>4. TypeOK'
  <2>1. lastError' \in [Threads -> Error]
    BY <1>1, <1>2 DEF Inv, TypeOK
  <2> QED BY <1>1, <1>2, <1>3, <2>1, Blanks, OwnFailures DEF Inv, TypeOK, Stages
<1>5. ASSUME NEW u \in Threads, u # t PROVE ThreadInv(u)'
  <2>1. lastError'[u] = lastError[u]
    BY <1>1, <1>5 DEF Inv, TypeOK
  <2> QED BY <1>1, <1>5, <2>1, OthersAreUntouched DEF Inv, TypeOK
<1>6. ThreadInv(t)'
  <2>1. ThreadInv(t)
    BY DEF Inv
  <2>2. /\ pc'[t] = "returned" /\ response'[t] = resp /\ status'[t] = pending[t].status
        /\ partial'[t] = Blank
    BY <1>1 DEF Inv, TypeOK
  <2>3. status'[t] # "OK" => lastError'[t].status = status'[t]
    BY <1>1, <1>2, <2>2, OwnFailures DEF Inv, TypeOK
  <2>4. CallIsOwn(t)'
    BY <1>1, <2>1, <2>2 DEF ThreadInv, CallIsOwn, Within
  <2>5. FailureIsKept(t)'
    BY <1>1, <2>1, <2>2, <2>3 DEF ThreadInv, FailureIsKept
  <2>6. UnderConstruction(t)'
    BY <2>2 DEF UnderConstruction
  <2>7. Settled(t)'
    <3>1. /\ Tells(partial[t], pending[t].status, buffer[t])
          /\ pending[t].status \in Counting => Counts(partial[t], call[t].request)
      BY <1>1, <2>1 DEF ThreadInv, UnderConstruction
    <3>2. Tells(resp, status'[t], buffer[t])
      BY <1>3, <2>2, <3>1 DEF Tells
    <3>3. status'[t] \in Counting => Counts(resp, call[t].request)
      BY <1>3, <2>2, <3>1 DEF Counts
    <3> QED BY <1>1, <2>2, <3>2, <3>3 DEF Settled, Tells, Counts, PagesTotal
  <2>8. BufferIsIntact(t)'
    BY <1>1, <2>1, <2>2 DEF ThreadInv, BufferIsIntact
  <2> QED BY <2>4, <2>5, <2>6, <2>7, <2>8 DEF ThreadInv
<1> QED BY <1>4, <1>5, <1>6 DEF Inv

\* The two calls of bk_last_error read the failure that is remembered.
LEMMA LastErrorKeeps ==
    ASSUME Inv, NEW t \in Threads, LastErrorSize(t) \/ LastErrorText(t)
    PROVE  Inv'
<1> DEFINE size == MessageLength(lastError[t])
<1>1. size \in Nat /\ lastError[t] \in Error
  BY FfiAssumption DEF Inv, TypeOK
<1> HIDE DEF size
<1>2. /\ pc[t] \in {"idle", "returned"}
      /\ \/ /\ status[t] # "OK" /\ needed[t] = 0
            /\ needed' = [needed EXCEPT ![t] = size + 1] /\ message' = message
         \/ /\ needed[t] > 0
            /\ message' = [message EXCEPT ![t] = Copied(lastError[t], needed[t])]
            /\ needed' = [needed EXCEPT ![t] = 0]
      /\ UNCHANGED <<pc, renderer, call, partial, pending, response, buffer, status, lastError>>
  BY DEF LastErrorSize, LastErrorText, size
<1>3. needed[t] > 0 => status[t] # "OK" /\ needed[t] = size + 1
  BY DEF Inv, ThreadInv, FailureIsKept, size
<1>4. Copied(lastError[t], needed[t]) \in Message
  BY <1>1 DEF Copied, Message
<1>5. TypeOK'
  BY <1>1, <1>2, <1>4 DEF Inv, TypeOK
<1>6. ASSUME NEW u \in Threads, u # t PROVE ThreadInv(u)'
  BY <1>2, <1>6, OthersAreUntouched DEF Inv, TypeOK
<1>7. ThreadInv(t)'
  <2>1. ThreadInv(t)
    BY DEF Inv
  <2>2. FailureIsKept(t)'
    <3>1. CASE needed[t] > 0
      <4>1. needed'[t] = 0 /\ message'[t] = Copied(lastError[t], needed[t])
        BY <1>2, <3>1 DEF Inv, TypeOK
      <4>2. needed[t] - 1 = size /\ size <= size
        BY <1>1, <1>3, <3>1
      <4>3. message'[t].whole /\ message'[t].error = lastError[t]
        <5>1. MessageLength(lastError[t]) <= needed[t] - 1
          BY <4>2 DEF size
        <5>2. Copied(lastError[t], needed[t]) = [error |-> lastError[t], whole |-> TRUE]
          BY <5>1 DEF Copied
        <5> QED BY <4>1, <5>2
      <4>4. lastError[t].status = status[t]
        BY <1>2, <1>3, <2>1, <3>1 DEF ThreadInv, FailureIsKept
      <4> QED BY <1>2, <2>1, <4>1, <4>3, <4>4 DEF ThreadInv, FailureIsKept
    <3>2. CASE ~(needed[t] > 0)
      <4>1. needed'[t] = size + 1 /\ message' = message /\ status[t] # "OK"
        BY <1>2, <3>2 DEF Inv, TypeOK
      <4> QED BY <1>2, <2>1, <4>1 DEF ThreadInv, FailureIsKept, size
    <3> QED BY <3>1, <3>2
  <2>3. CallIsOwn(t)' /\ BufferIsIntact(t)'
    BY <1>2, <2>1 DEF ThreadInv, CallIsOwn, BufferIsIntact
  <2>4. UnderConstruction(t)' /\ Settled(t)'
    BY <1>2, <2>1 DEF ThreadInv, UnderConstruction, Settled
  <2> QED BY <2>2, <2>3, <2>4 DEF ThreadInv
<1> QED BY <1>5, <1>6, <1>7 DEF Inv

LEMMA Inductive == Inv /\ [Next]_vars => Inv'
<1> SUFFICES ASSUME Inv, [Next]_vars PROVE Inv'
  OBVIOUS
<1>1. ASSUME NEW t \in Threads, Ask(t) \/ Retry(t) PROVE Inv'
  BY <1>1, AskKeeps, RetryKeeps
<1>2. ASSUME NEW t \in Threads, RendererNew(t) \/ RendererFree(t) PROVE Inv'
  BY <1>2, RendererKeeps
<1>3. ASSUME NEW t \in Threads, Render(t) PROVE Inv'
  BY <1>3, EnterKeeps, CheckKeeps, EmitKeeps, DrawKeeps, CopyKeeps, ReturnKeeps DEF Render
<1>4. ASSUME NEW t \in Threads, LastErrorSize(t) \/ LastErrorText(t) PROVE Inv'
  BY <1>4, LastErrorKeeps
<1>5. CASE UNCHANGED vars
  <2>1. TypeOK'
    BY <1>5 DEF Inv, TypeOK, vars
  <2>2. ASSUME NEW u \in Threads PROVE ThreadInv(u)'
    BY <1>5, OthersAreUntouched DEF Inv, vars
  <2> QED BY <2>1, <2>2 DEF Inv
<1> QED BY <1>1, <1>2, <1>3, <1>4, <1>5 DEF Next
-----------------------------------------------------------------------------
\* The invariant of a thread holds however many others make calls, and at
\* whatever stages theirs are.
THEOREM Invariance == Spec => []Inv
<1>1. Init => Inv
  BY Initial
<1>2. Inv /\ [Next]_vars => Inv'
  BY Inductive
<1> QED BY <1>1, <1>2, PTL DEF Spec

\* A thread reads its own last failure, and the whole message of it (remember
\* and bk_last_error), although other threads fail in between.
THEOREM OwnFailureIsRead == Spec => []LastErrorIsOwn
<1>1. Inv => LastErrorIsOwn
  BY DEF Inv, ThreadInv, FailureIsKept, LastErrorIsOwn
<1> QED BY <1>1, Invariance, PTL

\* The buffer of a caller is written once, wholly, within its capacity, by a
\* call that succeeds (the end of bk_render's closure).
THEOREM WholeImagesOrNothing == Spec => []BufferHoldsOnlyWholeImages
<1>1. Inv => BufferHoldsOnlyWholeImages
  <2> SUFFICES ASSUME Inv, NEW t \in Threads
               PROVE  /\ pc[t] \in Within => renderer[t] = "live" /\ call[t].renderer = "live"
                      /\ buffer[t] > 0 => buffer[t] <= call[t].capacity
                      /\ pc[t] = "returned" /\ response[t].status # "unset" =>
                             /\ response[t].written = buffer[t]
                             /\ (status[t] = "OK") = (buffer[t] > 0)
                             /\ status[t] = "OK" => response[t].required = buffer[t]
    BY DEF BufferHoldsOnlyWholeImages, Within
  <2>1. ThreadInv(t)
    BY DEF Inv
  <2>2. pc[t] \in Within => renderer[t] = "live" /\ call[t].renderer = "live"
    BY <2>1, CallTyped DEF ThreadInv, CallIsOwn, Within
  <2>3. buffer[t] > 0 => buffer[t] <= call[t].capacity
    BY <2>1 DEF ThreadInv, BufferIsIntact
  <2>4. pc[t] = "returned" /\ response[t].status # "unset" => Tells(response[t], status[t], buffer[t])
    BY <2>1, Blanks DEF ThreadInv, Settled
  <2> QED BY <2>2, <2>3, <2>4 DEF Tells
<1> QED BY <1>1, Invariance, PTL

\* "Counts survive even a failed render" (the comment in render), for any
\* request and page size: unless drawing panics.
THEOREM CountsSurvive == Spec => []CountsSurviveFailedRender
<1>1. Inv => CountsSurviveFailedRender
  <2> SUFFICES ASSUME Inv, NEW t \in Threads, pc[t] = "returned", status[t] \in Counting
               PROVE  Counts(response[t], call[t].request)
    BY DEF CountsSurviveFailedRender, Counting, Counts, Opcodes
  <2> QED BY DEF Inv, ThreadInv, Settled
<1> QED BY <1>1, Invariance, PTL
-----------------------------------------------------------------------------
(***************************************************************************)
(* The refinement.  Due says what a call will be answered at its end; then *)
(* each stage is a step of the service, or one it does not see.            *)
(***************************************************************************)
\* What answers a call: its status, opcodes and the size of its image.
Gives(resp, code, c) ==
    /\ code = ContractStatus(c)
    /\ resp.opcodes = IF code = "INTERNAL" THEN 0 ELSE ContractDecodes(c)
    /\ resp.required = IF code \in {"OK", "BUFFER_TOO_SMALL"} THEN c.request.size ELSE 0

\* The checks of render refuse what the contract does not accept.
LEMMA RefusedAsPromised ==
    ASSUME NEW t \in Threads, NEW c \in Call(t), c.renderer = "live"
    PROVE  IF Refusal(c.request) = NoError THEN Accepted(c)
           ELSE ~Accepted(c) /\ Refusal(c.request).status = RefusedStatus(c)
                /\ RefusedStatus(c) \notin {"OK", "BUFFER_TOO_SMALL", "INTERNAL"}
<1> DEFINE r == c.request
<1>1. /\ r.abi \in BOOLEAN /\ r.empty \in BOOLEAN
      /\ r.kind \in {"binary", "text", "diagnostic", "unknown"}
      /\ r.platform \in {"jvm", "cil", "unknown"}
  <2>1. r \in Request
    BY CountsAreNumbers DEF Call
  <2> QED BY <2>1 DEF Request
<1>2. /\ NoError.status = "OK" /\ Failure("ABI_MISMATCH", "abi").status = "ABI_MISMATCH"
      /\ Failure("UNSUPPORTED_INPUT", "kind").status = "UNSUPPORTED_INPUT"
      /\ Failure("UNSUPPORTED_PLATFORM", "platform").status = "UNSUPPORTED_PLATFORM"
      /\ Failure("INVALID_ARGUMENT", "input slice is empty").status = "INVALID_ARGUMENT"
  BY DEF NoError, Failure
<1>3. CASE ~r.abi
  <2>1. Refusal(r) = Failure("ABI_MISMATCH", "abi")
    BY <1>3 DEF Refusal
  <2> QED BY <1>2, <1>3, <2>1 DEF Accepted, RefusedStatus
<1>4. CASE r.abi /\ r.kind = "unknown"
  <2>1. Refusal(r) = Failure("UNSUPPORTED_INPUT", "kind")
    BY <1>4 DEF Refusal
  <2> QED BY <1>2, <1>4, <2>1 DEF Accepted, RefusedStatus
<1>5. CASE r.abi /\ r.kind \in {"binary", "text"} /\ r.platform # "jvm"
  <2>1. Refusal(r) = Failure("UNSUPPORTED_PLATFORM", "platform")
    BY <1>5 DEF Refusal
  <2> QED BY <1>2, <1>5, <2>1 DEF Accepted, RefusedStatus
<1>6. CASE r.abi /\ (r.kind = "diagnostic" \/ (r.kind # "unknown" /\ r.platform = "jvm")) /\ r.empty
  <2>1. Refusal(r) = Failure("INVALID_ARGUMENT", "input slice is empty")
    BY <1>6 DEF Refusal
  <2> QED BY <1>2, <1>6, <2>1 DEF Accepted, RefusedStatus
<1>7. CASE r.abi /\ (r.kind = "diagnostic" \/ (r.kind # "unknown" /\ r.platform = "jvm")) /\ ~r.empty
  <2>1. Refusal(r) = NoError
    BY <1>7 DEF Refusal
  <2> QED BY <1>1, <1>7, <2>1 DEF Accepted
<1> QED BY <1>1, <1>3, <1>4, <1>5, <1>6, <1>7

\* Input that does not decode fails with the status the contract says.
LEMMA DecodedAsPromised ==
    ASSUME NEW t \in Threads, NEW c \in Call(t)
    PROVE  IF DecodeError(c.request) = NoError THEN c.request.decode = "ok"
           ELSE /\ c.request.decode # "ok"
                /\ DecodeError(c.request).status \notin {"OK", "BUFFER_TOO_SMALL"}
<1> DEFINE r == c.request
<1>1. r.decode \in {"ok", "malformed", "version", "notUtf8", "panics"}
  <2>1. r \in Request
    BY CountsAreNumbers DEF Call
  <2> QED BY <2>1 DEF Request
<1>2. CASE r.decode = "ok"
  BY <1>2 DEF DecodeError
<1>3. CASE r.decode # "ok"
  <2>1. DecodeError(r) # NoError
    BY <1>1, <1>3 DEF DecodeError, PanicRendering, NoError, Failure
  <2>2. DecodeError(r).status \notin Counting
    BY <2>1, CountsAreNumbers, DecodeErrors DEF Call
  <2> QED BY <1>3, <2>1, <2>2 DEF Counting
<1> QED BY <1>2, <1>3

\* The pages there are end where the rows do.
LEMMA PagesEndWithTheRows ==
    ASSUME NEW t \in Threads, NEW r \in Requests[t]
    PROVE  r.page >= PagesTotal(r) <=> r.page * PageRows(r) >= r.rows
<1> DEFINE k == PagesTotal(r)
           n == PageRows(r)
<1>1. r \in Request /\ r.rows > 0
  BY FfiAssumption
<1>2. r.rows \in Nat /\ r.pageRows \in Nat /\ r.page \in Nat
  BY <1>1 DEF Request
<1>3. n \in Nat /\ n > 0
  BY <1>2, FfiAssumption DEF PageRows
<1>4. k \in Nat /\ k >= 1 /\ (k - 1) * n < r.rows /\ r.rows <= k * n
  BY <1>1, <1>2, <1>3, CeilingBounds DEF PagesTotal, Pages, DivCeil, Greater
<1> DEFINE p == r.page
<1> HIDE DEF k, n, p
<1>5. p \in Nat
  BY <1>2 DEF p
<1>6. ASSUME p >= k PROVE p * n >= r.rows
  <2>1. k * n <= p * n
    BY <1>3, <1>4, <1>5, <1>6, ProductMonotone
  <2>2. k * n \in Nat /\ p * n \in Nat
    BY <1>3, <1>4, <1>5
  <2> QED BY <1>2, <1>4, <2>1, <2>2
<1>7. ASSUME ~(p >= k) PROVE ~(p * n >= r.rows)
  <2>1. k - 1 \in Nat /\ p <= k - 1
    BY <1>4, <1>5, <1>7
  <2>2. p * n <= (k - 1) * n
    BY <1>3, <1>5, <2>1, ProductMonotone
  <2>3. (k - 1) * n \in Nat /\ p * n \in Nat
    BY <1>3, <1>5, <2>1
  <2> QED BY <1>2, <1>4, <2>2, <2>3
<1> QED BY <1>6, <1>7 DEF k, n, p

\* What drawing comes to is what the contract says of it.
LEMMA DrawnAsPromised ==
    ASSUME NEW t \in Threads, NEW c \in Call(t)
    PROVE  IF DrawError(c.request) = NoError
           THEN RenderedStatus(c) = IF c.request.size > c.capacity THEN "BUFFER_TOO_SMALL" ELSE "OK"
           ELSE /\ RenderedStatus(c) = DrawError(c.request).status
                /\ RenderedStatus(c) \notin {"OK", "BUFFER_TOO_SMALL"}
                /\ (RenderedStatus(c) = "INTERNAL") = (DrawError(c.request) = PanicRendering)
<1> DEFINE r == c.request
<1>1. r \in Requests[t] /\ r \in Request
  BY CountsAreNumbers DEF Call
<1>2. r.draw \in {"ok", "tooLarge", "encode", "panics"} /\ r.page \in Nat
  BY <1>1 DEF Request
<1>3. PagesTotal(r) \in Nat
  BY <1>1, CountsAreNumbers
<1>4. r.page >= PagesTotal(r) <=> r.page * PageRows(r) >= r.rows
  BY <1>1, PagesEndWithTheRows
<1>5. /\ NoError.status = "OK" /\ PanicRendering.status = "INTERNAL"
      /\ Failure("PAGE_OUT_OF_RANGE", "page").status = "PAGE_OUT_OF_RANGE"
      /\ Failure("IMAGE_TOO_LARGE", "image").status = "IMAGE_TOO_LARGE"
      /\ Failure("ENCODE", "encode").status = "ENCODE"
  BY DEF NoError, PanicRendering, Failure
<1> HIDE DEF NoError, PanicRendering, Failure
<1>6. CASE r.page >= PagesTotal(r)
  <2>1. ~(r.page < PagesTotal(r))
    BY <1>2, <1>3, <1>6
  <2>2. DrawError(r) = Failure("PAGE_OUT_OF_RANGE", "page")
    BY <1>6, <2>1 DEF DrawError
  <2>3. RenderedStatus(c) = "PAGE_OUT_OF_RANGE"
    BY <1>4, <1>6 DEF RenderedStatus
  <2> QED BY <1>5, <2>2, <2>3
<1>7. CASE r.page < PagesTotal(r)
  <2>1. ~(r.page >= PagesTotal(r)) /\ ~(r.page * PageRows(r) >= r.rows)
    BY <1>2, <1>3, <1>4, <1>7
  <2>2. CASE r.draw = "ok"
    <3>1. DrawError(r) = NoError
      BY <2>1, <2>2 DEF DrawError
    <3> QED BY <2>1, <2>2, <3>1 DEF RenderedStatus
  <2>3. CASE r.draw # "ok"
    <3>1. DrawError(r) \in {Failure("IMAGE_TOO_LARGE", "image"), Failure("ENCODE", "encode"),
                            PanicRendering}
      BY <1>2, <1>7, <2>1, <2>3 DEF DrawError
    <3>2. RenderedStatus(c) = DrawError(r).status
      BY <2>1, <2>3 DEF RenderedStatus
    <3> QED BY <1>5, <3>1, <3>2
  <2> QED BY <2>2, <2>3
<1> QED BY <1>2, <1>3, <1>6, <1>7
-----------------------------------------------------------------------------
\* How far a call has come, and what it gives at its end.
Due(t) ==
    /\ pc[t] \in {"emit", "draw", "copy"} => Accepted(call[t])
    /\ pc[t] \in {"draw", "copy"} => call[t].request.decode = "ok" /\ partial[t].required = 0
    /\ pc[t] = "copy" => DrawError(call[t].request) = NoError
    /\ pc[t] = "return" => Gives(partial[t], pending[t].status, call[t])
    /\ pc[t] = "returned" => Gives(response[t], status[t], call[t])

AllDue == \A t \in Threads : Due(t)

LEMMA NothingDue == Init => AllDue
BY DEF Init, AllDue, Due

\* Another thread's answer is untouched.
LEMMA OthersAreDue ==
    ASSUME NEW u \in Threads, Due(u),
           pc'[u] = pc[u], call'[u] = call[u], partial'[u] = partial[u],
           pending'[u] = pending[u], response'[u] = response[u], status'[u] = status[u]
    PROVE  Due(u)'
BY DEF Due

\* A step that leaves every other thread's call alone.
Alone(t) ==
    \A u \in Threads \ {t} :
        /\ pc'[u] = pc[u] /\ call'[u] = call[u] /\ partial'[u] = partial[u]
        /\ pending'[u] = pending[u] /\ response'[u] = response[u] /\ status'[u] = status[u]

LEMMA AloneKeeps ==
    ASSUME AllDue, NEW t \in Threads, Alone(t), Due(t)' PROVE AllDue'
BY OthersAreDue DEF AllDue, Alone

\* A thread that is between calls or enters one owes nothing yet.
LEMMA StartsDue ==
    ASSUME Inv, AllDue, NEW t \in Threads,
           Ask(t) \/ Retry(t) \/ RendererNew(t) \/ RendererFree(t)
    PROVE  AllDue'
<1>1. pc'[t] \in {"entered", "idle"}
  BY DEF Inv, TypeOK, Ask, Retry, Start, RendererNew, RendererFree, Discard
<1>2. Alone(t)
  BY DEF Inv, TypeOK, Alone, Ask, Retry, Start, RendererNew, RendererFree, Discard
<1>3. Due(t)'
  BY <1>1 DEF Due
<1> QED BY <1>2, <1>3, AloneKeeps

LEMMA EnterDue == ASSUME Inv, AllDue, NEW t \in Threads, Enter(t) PROVE AllDue'
<1> DEFINE null == Failure("INVALID_ARGUMENT", "null renderer, request or response")
<1>1. pc[t] = "entered"
  BY DEF Enter, Goto
<1>2. Alone(t)
  BY DEF Inv, TypeOK, Alone, Enter, Goto
<1>3. CASE call[t].renderer = "none"
  <2>1. /\ pc'[t] = "returned" /\ status'[t] = null.status
        /\ call' = call /\ response' = response
    BY <1>3 DEF Enter, Goto, Inv, TypeOK
  <2>2. null.status = "INVALID_ARGUMENT"
    BY OwnFailures
  <2> HIDE DEF null
  <2>3. response[t] = Blank
    BY <1>1 DEF Inv, ThreadInv, Settled
  <2>4. ~Accepted(call[t]) /\ ~Decoded(call[t]) /\ RefusedStatus(call[t]) = "INVALID_ARGUMENT"
    BY <1>3 DEF Accepted, Decoded, RefusedStatus
  <2>5. Gives(Blank, "INVALID_ARGUMENT", call[t])
    BY <2>4 DEF Gives, Blank, ContractStatus, ContractDecodes
  <2>6. Due(t)'
    BY <2>1, <2>2, <2>3, <2>5 DEF Due
  <2> QED BY <1>2, <2>6, AloneKeeps
<1>4. CASE call[t].renderer # "none"
  <2>1. pc'[t] = "check"
    BY <1>4 DEF Enter, Goto, Inv, TypeOK
  <2>2. Due(t)'
    BY <2>1 DEF Due
  <2> QED BY <1>2, <2>2, AloneKeeps
<1> QED BY <1>3, <1>4

LEMMA CheckDue == ASSUME Inv, AllDue, NEW t \in Threads, Check(t) PROVE AllDue'
<1> DEFINE error == Refusal(call[t].request)
<1>1. pc[t] = "check" /\ call' = call
  BY DEF Check, local
<1>2. call[t] \in Call(t) /\ call[t].renderer = "live"
  BY <1>1, CallTyped DEF Inv, ThreadInv, CallIsOwn, Within
<1>3. Alone(t)
  BY DEF Inv, TypeOK, Alone, Check, Leave, Goto, local
<1>4. CASE error = NoError
  <2>1. pc'[t] = "emit"
    BY <1>4 DEF Check, Goto, Inv, TypeOK
  <2>2. Accepted(call[t])
    BY <1>2, <1>4, RefusedAsPromised
  <2>3. Due(t)'
    BY <1>1, <2>1, <2>2 DEF Due
  <2> QED BY <1>3, <2>3, AloneKeeps
<1>5. CASE error # NoError
  <2>1. pc'[t] = "return" /\ partial'[t] = Blank /\ pending'[t] = error
    BY <1>5 DEF Check, Leave, Goto, Inv, TypeOK
  <2>2. /\ ~Accepted(call[t]) /\ error.status = RefusedStatus(call[t])
        /\ error.status \notin {"OK", "BUFFER_TOO_SMALL", "INTERNAL"}
    BY <1>2, <1>5, RefusedAsPromised
  <2> HIDE DEF error
  <2>3. Gives(Blank, error.status, call[t])
    BY <2>2 DEF Gives, Blank, ContractStatus, ContractDecodes, Decoded
  <2>4. Due(t)'
    BY <1>1, <2>1, <2>3 DEF Due
  <2> QED BY <1>3, <2>4, AloneKeeps
<1> QED BY <1>4, <1>5

LEMMA EmitDue == ASSUME Inv, AllDue, NEW t \in Threads, Emit(t) PROVE AllDue'
<1> DEFINE error == DecodeError(call[t].request)
           r == call[t].request
           n == IF r.kind = "diagnostic" THEN 0 ELSE r.opcodes
           resp == [Blank EXCEPT !.pages = PagesTotal(r), !.opcodes = n]
<1>1. pc[t] = "emit" /\ call' = call
  BY DEF Emit, local
<1>2. call[t] \in Call(t) /\ Accepted(call[t])
  BY <1>1, CallTyped DEF AllDue, Due
<1>3. Alone(t)
  BY DEF Inv, TypeOK, Alone, Emit, Leave, Goto, local
<1>4. CASE error = NoError
  <2>1. pc'[t] = "draw" /\ partial'[t] = resp
    BY <1>4 DEF Emit, Goto, Inv, TypeOK
  <2>2. resp.required = 0
    BY DEF Blank
  <2> HIDE DEF resp
  <2>3. call[t].request.decode = "ok"
    BY <1>2, <1>4, DecodedAsPromised
  <2>4. Due(t)'
    BY <1>1, <1>2, <2>1, <2>2, <2>3 DEF Due
  <2> QED BY <1>3, <2>4, AloneKeeps
<1>5. CASE error # NoError
  <2>1. pc'[t] = "return" /\ partial'[t] = Blank /\ pending'[t] = error
    BY <1>5 DEF Emit, Leave, Goto, Inv, TypeOK
  <2>2. ~Decoded(call[t]) /\ error.status \notin {"OK", "BUFFER_TOO_SMALL"}
    BY <1>2, <1>5, DecodedAsPromised DEF Decoded
  <2>3. ContractStatus(call[t]) = error.status
    BY <1>2, <2>2 DEF ContractStatus
  <2> HIDE DEF error
  <2>4. Gives(Blank, error.status, call[t])
    BY <2>2, <2>3 DEF Gives, Blank, ContractDecodes
  <2>5. Due(t)'
    BY <1>1, <2>1, <2>4 DEF Due
  <2> QED BY <1>3, <2>5, AloneKeeps
<1> QED BY <1>4, <1>5

\* What a call whose input decoded counts is what the contract says.
LEMMA CountsAsPromised ==
    ASSUME NEW c, Decoded(c) PROVE Opcodes(c.request) = ContractDecodes(c)
BY DEF Opcodes, ContractDecodes

LEMMA DrawDue == ASSUME Inv, AllDue, NEW t \in Threads, Draw(t) PROVE AllDue'
<1> DEFINE error == DrawError(call[t].request)
<1>1. pc[t] = "draw" /\ call' = call
  BY DEF Draw, local
<1>2. /\ call[t] \in Call(t) /\ Accepted(call[t]) /\ Decoded(call[t])
      /\ call[t].request.decode = "ok" /\ partial[t].required = 0
  BY <1>1, CallTyped DEF AllDue, Due, Decoded
<1>3. Alone(t)
  BY DEF Inv, TypeOK, Alone, Draw, Leave, Goto, local
<1>4. CASE error = NoError
  <2>1. pc'[t] = "copy" /\ partial' = partial
    BY <1>4 DEF Draw, Goto, Inv, TypeOK
  <2>2. Due(t)'
    BY <1>1, <1>2, <1>4, <2>1 DEF Due
  <2> QED BY <1>3, <2>2, AloneKeeps
<1>5. CASE error # NoError
  <2>1. pc'[t] = "return" /\ partial'[t] = FailedDraw(t) /\ pending'[t] = error
    BY <1>5 DEF Draw, Leave, Goto, Inv, TypeOK
  <2>2. /\ RenderedStatus(call[t]) = error.status
        /\ error.status \notin {"OK", "BUFFER_TOO_SMALL"}
        /\ (error.status = "INTERNAL") = (error = PanicRendering)
    BY <1>2, <1>5, DrawnAsPromised
  <2>3. ContractStatus(call[t]) = error.status
    BY <1>2, <2>2 DEF ContractStatus
  <2>4. partial[t].opcodes = ContractDecodes(call[t])
    BY <1>1, <1>2, CountsAsPromised DEF Inv, ThreadInv, UnderConstruction, Counts
  <2>5. /\ FailedDraw(t).required = 0
        /\ FailedDraw(t).opcodes = IF error = PanicRendering THEN 0 ELSE ContractDecodes(call[t])
    BY <1>2, <2>4 DEF FailedDraw, Blank
  <2> HIDE DEF error
  <2>6. Gives(FailedDraw(t), error.status, call[t])
    BY <2>2, <2>3, <2>5 DEF Gives
  <2>7. Due(t)'
    BY <1>1, <2>1, <2>6 DEF Due
  <2> QED BY <1>3, <2>7, AloneKeeps
<1> QED BY <1>4, <1>5

LEMMA CopyDue == ASSUME Inv, AllDue, NEW t \in Threads, Copy(t) PROVE AllDue'
<1> DEFINE r == call[t].request
           short == [partial[t] EXCEPT !.required = Required(t)]
           whole == [partial[t] EXCEPT !.written = r.size, !.required = r.size, !.width = r.width]
<1>1. pc[t] = "copy" /\ call' = call /\ partial[t] \in Response
  BY DEF Copy, Inv, TypeOK
<1>2. /\ call[t] \in Call(t) /\ Accepted(call[t]) /\ Decoded(call[t])
      /\ DrawError(r) = NoError
  BY <1>1, CallTyped DEF AllDue, Due, Decoded
<1>3. Alone(t)
  BY DEF Inv, TypeOK, Alone, Copy, Leave, Goto
<1>4. ContractStatus(call[t]) = IF r.size > call[t].capacity THEN "BUFFER_TOO_SMALL" ELSE "OK"
  BY <1>2, DrawnAsPromised DEF ContractStatus
<1>5. partial[t].opcodes = ContractDecodes(call[t])
  BY <1>1, <1>2, CountsAsPromised DEF Inv, ThreadInv, UnderConstruction, Counts
<1>6. CASE r.size > call[t].capacity
  <2>1. pc'[t] = "return" /\ partial'[t] = short /\ pending'[t] = TooSmall
    BY <1>6 DEF Copy, Leave, Goto, Inv, TypeOK
  <2>2. short.required = r.size /\ short.opcodes = partial[t].opcodes
    BY <1>1 DEF Response, Required
  <2> HIDE DEF short
  <2>3. Gives(short, TooSmall.status, call[t])
    BY <1>4, <1>5, <1>6, <2>2, OwnFailures DEF Gives
  <2>4. Due(t)'
    BY <1>1, <2>1, <2>3 DEF Due
  <2> QED BY <1>3, <2>4, AloneKeeps
<1>7. CASE ~(r.size > call[t].capacity)
  <2>1. pc'[t] = "return" /\ partial'[t] = whole /\ pending'[t] = NoError
    BY <1>7 DEF Copy, Leave, Goto, Inv, TypeOK
  <2>2. whole.required = r.size /\ whole.opcodes = partial[t].opcodes
    BY <1>1 DEF Response
  <2> HIDE DEF whole
  <2>3. Gives(whole, NoError.status, call[t])
    BY <1>4, <1>5, <1>7, <2>2, OwnFailures DEF Gives
  <2>4. Due(t)'
    BY <1>1, <2>1, <2>3 DEF Due
  <2> QED BY <1>3, <2>4, AloneKeeps
<1> QED BY <1>6, <1>7

LEMMA ReturnDue == ASSUME Inv, AllDue, NEW t \in Threads, Return(t) PROVE AllDue'
<1> DEFINE resp == [partial[t] EXCEPT !.status = pending[t].status]
<1>1. /\ pc[t] = "return" /\ pc'[t] = "returned" /\ call' = call
      /\ response'[t] = resp /\ status'[t] = pending[t].status
  BY DEF Return, Goto, Inv, TypeOK
<1>2. Alone(t)
  BY DEF Inv, TypeOK, Alone, Return, Goto
<1>3. resp.opcodes = partial[t].opcodes /\ resp.required = partial[t].required
  BY DEF Inv, TypeOK, Response
<1> HIDE DEF resp
<1>4. Gives(partial[t], pending[t].status, call[t])
  BY <1>1 DEF AllDue, Due
<1>5. Gives(resp, pending[t].status, call[t])
  BY <1>3, <1>4 DEF Gives
<1>6. Due(t)'
  BY <1>1, <1>5 DEF Due
<1> QED BY <1>2, <1>6, AloneKeeps

\* At every moment every call is on its way to the answer of the contract.
LEMMA DueKept == Inv /\ AllDue /\ [Next]_vars => AllDue'
<1> SUFFICES ASSUME Inv, AllDue, [Next]_vars PROVE AllDue'
  OBVIOUS
<1>1. ASSUME NEW t \in Threads, Ask(t) \/ Retry(t) \/ RendererNew(t) \/ RendererFree(t)
      PROVE  AllDue'
  BY <1>1, StartsDue
<1>2. ASSUME NEW t \in Threads, Render(t) PROVE AllDue'
  BY <1>2, EnterDue, CheckDue, EmitDue, DrawDue, CopyDue, ReturnDue DEF Render
<1>3. ASSUME NEW t \in Threads,
             LastErrorSize(t) \/ LastErrorText(t) \/ UNCHANGED vars
      PROVE  AllDue'
  BY <1>3, OthersAreDue DEF AllDue, LastErrorSize, LastErrorText, vars
<1>4. CASE UNCHANGED vars
  BY <1>4, OthersAreDue DEF AllDue, vars
<1> QED BY <1>1, <1>2, <1>3, <1>4 DEF Next
-----------------------------------------------------------------------------
\* A step of one thread changes what the service sees of that thread only.
LEMMA SeenSteps ==
    ASSUME NEW t \in Threads, Alone(t)
    PROVE  /\ AllAsked' = [AllAsked EXCEPT ![t] = Asked(t)']
           /\ AllAnswered' = [AllAnswered EXCEPT ![t] = Answered(t)']
           /\ AllCounted' = [AllCounted EXCEPT ![t] = Counted(t)']
<1>1. ASSUME NEW u \in Threads, u # t
      PROVE  Asked(u)' = Asked(u) /\ Answered(u)' = Answered(u) /\ Counted(u)' = Counted(u)
  <2>1. /\ pc'[u] = pc[u] /\ call'[u] = call[u] /\ response'[u] = response[u]
        /\ status'[u] = status[u]
    BY <1>1 DEF Alone
  <2>2. InCall(u)' = InCall(u)
    BY <2>1 DEF InCall
  <2>3. Asked(u)' = Asked(u)
    BY <2>1, <2>2 DEF Asked, None
  <2>4. Answered(u)' = Answered(u)
    BY <2>1 DEF Answered, None
  <2>5. Counted(u)' = Counted(u)
    BY <2>1 DEF Counted
  <2> QED BY <2>3, <2>4, <2>5
<1> QED BY <1>1 DEF AllAsked, AllAnswered, AllCounted

\* The steps of the service, told of one thread.
LEMMA Unseen ==
    ASSUME NEW t \in Threads, Alone(t), counter' = counter,
           Asked(t)' = Asked(t), Answered(t)' = Answered(t), Counted(t)' = Counted(t)
    PROVE  UNCHANGED Service!vars
<1>1. AllAsked' = AllAsked /\ AllAnswered' = AllAnswered /\ AllCounted' = AllCounted
  BY SeenSteps DEF AllAsked, AllAnswered, AllCounted
<1> QED BY <1>1 DEF Service!vars

LEMMA SeenForget ==
    ASSUME NEW t \in Threads, Alone(t), counter' = counter,
           Asked(t) = None, Asked(t)' = None, Answered(t)' = None, Counted(t)' = Counted(t)
    PROVE  Service!Forget(t)
<1>1. /\ AllAsked' = AllAsked /\ AllCounted' = AllCounted /\ AllAsked[t] = None
      /\ AllAnswered' = [AllAnswered EXCEPT ![t] = None]
  BY SeenSteps DEF AllAsked, AllCounted
<1> QED BY <1>1 DEF Service!Forget, Service!None, None

LEMMA SeenCount ==
    ASSUME NEW t \in Threads, Alone(t),
           Asked(t) # None, Asked(t)' = Asked(t), Answered(t)' = Answered(t),
           ~Counted(t), Counted(t)',
           counter' = (counter + ContractDecodes(Asked(t))) % CounterSize
    PROVE  Service!Count(t)
<1>1. /\ AllAsked' = AllAsked /\ AllAnswered' = AllAnswered
      /\ AllCounted' = [AllCounted EXCEPT ![t] = TRUE]
      /\ AllAsked[t] = Asked(t) /\ ~AllCounted[t]
  BY SeenSteps DEF AllAsked, AllAnswered, AllCounted, Counted
<1>2. counter' = (counter + ContractDecodes(AllAsked[t])) % CounterSize /\ AllAsked[t] # None
  BY <1>1
<1> QED BY <1>1, <1>2 DEF Service!Count, Service!None, None

LEMMA SeenReply ==
    ASSUME NEW t \in Threads, Alone(t), counter' = counter,
           Asked(t) # None, Asked(t)' = None, ~Counted(t)',
           Counted(t) \/ ContractDecodes(Asked(t)) = 0,
           Answered(t)' = [call |-> Asked(t), answer |-> ContractAnswer(Asked(t))]
    PROVE  Service!Reply(t)
<1>1. /\ AllAsked' = [AllAsked EXCEPT ![t] = None]
      /\ AllAnswered' = [AllAnswered EXCEPT ![t] =
             [call |-> AllAsked[t], answer |-> ContractAnswer(AllAsked[t])]]
      /\ AllCounted' = [AllCounted EXCEPT ![t] = FALSE]
      /\ AllAsked[t] # None
      /\ AllCounted[t] \/ ContractDecodes(AllAsked[t]) = 0
  <2>1. AllAsked[t] = Asked(t) /\ AllCounted[t] = Counted(t)
    BY DEF AllAsked, AllCounted
  <2>2. Counted(t)' = FALSE
    BY DEF Counted
  <2> QED BY <2>1, <2>2, SeenSteps
<1> QED BY <1>1 DEF Service!Reply, Service!None, None

LEMMA SeenAsk ==
    ASSUME NEW t \in Threads, Alone(t), counter' = counter,
           Asked(t) = None, Asked(t)' \in Calls,
           Answered(t)' = None, Counted(t)' = Counted(t)
    PROVE  Service!Ask(t)
<1>1. /\ AllAsked' = [AllAsked EXCEPT ![t] = Asked(t)'] /\ AllCounted' = AllCounted
      /\ AllAnswered' = [AllAnswered EXCEPT ![t] = None]
      /\ AllAsked[t] = None
  BY SeenSteps DEF AllAsked, AllCounted
<1> QED BY <1>1 DEF Service!Ask, Service!None, None

LEMMA CallIsNotNone == ASSUME NEW t \in Threads, NEW c \in Call(t) PROVE c # None
<1>1. "renderer" \in DOMAIN c
  BY DEF Call
<1>2. "renderer" \notin DOMAIN None
  BY DEF None
<1> QED BY <1>1, <1>2

-----------------------------------------------------------------------------
\* What the service sees of a call is the call.
LEMMA AskedInCall ==
    ASSUME Inv, NEW t \in Threads, InCall(t)
    PROVE  Asked(t) = call[t] /\ Asked(t) # None /\ Answered(t) = None
<1>1. call[t] \in Call(t)
  BY CallTyped DEF InCall
<1> QED BY <1>1, CallIsNotNone DEF Asked, Answered, InCall

LEMMA StartIsAsk ==
    ASSUME Inv, NEW t \in Threads, pc[t] \in {"idle", "returned"},
           NEW c \in Calls, Start(t, c)
    PROVE  Service!Ask(t)
<1>1. /\ pc'[t] = "entered" /\ call'[t] = c /\ counter' = counter /\ Alone(t)
  BY DEF Start, Inv, TypeOK, Alone
<1>2. Asked(t) = None /\ ~Counted(t)
  BY DEF Asked, InCall, Counted
<1>3. Asked(t)' = c /\ Answered(t)' = None /\ ~Counted(t)'
  BY <1>1 DEF Asked, Answered, InCall, Counted
<1>4. Counted(t)' = Counted(t)
  BY <1>2, <1>3 DEF Counted
<1> QED BY <1>1, <1>2, <1>3, <1>4, SeenAsk

LEMMA AskIsAsk == ASSUME Inv, NEW t \in Threads, Ask(t) PROVE Service!Ask(t)
<1>1. pc[t] \in {"idle", "returned"}
  BY DEF Ask, Free
<1>2. PICK r \in Requests[t], cap \in Capacities[t] :
          Start(t, [renderer |-> renderer[t], request |-> r, capacity |-> cap])
  BY DEF Ask
<1>3. r \in AllOf(Requests) /\ cap \in AllOf(Capacities) /\ renderer[t] \in {"none", "live"}
  BY DEF AllOf, Inv, TypeOK
<1>4. [renderer |-> renderer[t], request |-> r, capacity |-> cap] \in Calls
  BY <1>3 DEF Calls
<1> QED BY <1>1, <1>2, <1>4, StartIsAsk

\* The size a caller is told is that of the image, so that its second call is
\* one the service knows.
LEMMA RetryIsAsk == ASSUME Inv, AllDue, NEW t \in Threads, Retry(t) PROVE Service!Ask(t)
<1> DEFINE r == call[t].request
           c == [call[t] EXCEPT !.capacity = response[t].required]
<1>1. pc[t] = "returned" /\ status[t] = "BUFFER_TOO_SMALL" /\ Start(t, c)
  BY DEF Retry
<1>2. call[t] \in Call(t)
  BY <1>1, CallTyped
<1>3. response[t].required = r.size
  BY <1>1 DEF AllDue, Due, Gives
<1>4. call[t].renderer \in {"none", "live"} /\ r \in AllOf(Requests)
  BY <1>2 DEF Call, AllOf
<1>5. c = [renderer |-> call[t].renderer, request |-> r, capacity |-> r.size]
  BY <1>2, <1>3 DEF Call
<1> HIDE DEF r, c
<1>6. c \in Calls
  <2>1. \A h \in {"none", "live"}, q \in AllOf(Requests) :
            [renderer |-> h, request |-> q, capacity |-> q.size] \in Calls
    <3> DEFINE K == AllOf(Capacities) \cup {q.size : q \in AllOf(Requests)}
    <3>1. \A q \in AllOf(Requests) : q.size \in K
      OBVIOUS
    <3>2. Calls = {[renderer |-> h, request |-> q, capacity |-> k] :
                      h \in {"none", "live"}, q \in AllOf(Requests), k \in K}
      BY DEF Calls
    <3> HIDE DEF K
    <3> QED BY <3>1, <3>2
  <2>2. call[t].renderer \in {"none", "live"} /\ r \in AllOf(Requests)
    BY <1>4 DEF r
  <2> QED BY <1>5, <2>1, <2>2
<1> QED BY <1>1, <1>6, StartIsAsk

LEMMA RendererIsForget ==
    ASSUME Inv, NEW t \in Threads, RendererNew(t) \/ RendererFree(t)
    PROVE  Service!Forget(t)
<1>1. pc[t] \in {"idle", "returned"} /\ counter' = counter /\ Alone(t) /\ pc'[t] = "idle"
  BY DEF RendererNew, RendererFree, Free, Discard, Inv, TypeOK, Alone
<1>2. Asked(t) = None /\ Asked(t)' = None /\ Answered(t)' = None /\ Counted(t)' = Counted(t)
  BY <1>1 DEF Asked, Answered, Counted, InCall, None
<1> QED BY <1>1, <1>2, SeenForget

\* What a call gives at its end is the answer of the contract.
LEMMA GivesTheAnswer ==
    ASSUME NEW resp, NEW code, NEW c, Gives(resp, code, c)
    PROVE  [status |-> code, opcodes |-> resp.opcodes, required |-> resp.required]
               = ContractAnswer(c)
BY DEF Gives, ContractAnswer

\* A call that ends is a reply, if its opcodes were counted or there are none.
LEMMA EndIsReply ==
    ASSUME Inv, NEW t \in Threads, InCall(t), Alone(t), call' = call, counter' = counter,
           pc'[t] = "returned", Due(t)', Counted(t) \/ ContractDecodes(call[t]) = 0
    PROVE  Service!Reply(t)
<1>1. Asked(t) = call[t] /\ Asked(t) # None
  BY AskedInCall
<1>2. Asked(t)' = None /\ ~Counted(t)'
  BY DEF Asked, Counted, InCall, None
<1>3. Gives(response'[t], status'[t], call[t])
  BY DEF Due
<1>4. Answered(t)' = [call |-> call[t], answer |-> ContractAnswer(call[t])]
  BY <1>3, GivesTheAnswer DEF Answered
<1> QED BY <1>1, <1>2, <1>4, SeenReply

\* A stage of a call that neither counts nor ends it is not seen.
LEMMA StageUnseen ==
    ASSUME Inv, NEW t \in Threads, InCall(t), InCall(t)', Alone(t), call' = call,
           counter' = counter, Counted(t)' = Counted(t)
    PROVE  UNCHANGED Service!vars
<1>1. Asked(t)' = Asked(t)
  BY DEF Asked
<1>2. Answered(t)' = None /\ Answered(t) = None
  BY DEF Answered, InCall, None
<1> QED BY <1>1, <1>2, Unseen

ServiceStep(t) == Service!Reply(t) \/ Service!Count(t) \/ UNCHANGED Service!vars

LEMMA EnterIsAStep ==
    ASSUME Inv, AllDue, AllDue', NEW t \in Threads, Enter(t) PROVE ServiceStep(t)
<1>1. pc[t] = "entered" /\ call' = call /\ counter' = counter /\ Alone(t) /\ InCall(t)
  BY DEF Enter, Goto, Inv, TypeOK, Alone, InCall
<1>2. CASE call[t].renderer = "none"
  <2>1. pc'[t] = "returned" /\ Due(t)'
    BY <1>2 DEF Enter, Goto, Inv, TypeOK, AllDue
  <2>2. ContractDecodes(call[t]) = 0
    BY <1>2 DEF ContractDecodes, Decoded, Accepted
  <2> QED BY <1>1, <2>1, <2>2, EndIsReply DEF ServiceStep
<1>3. CASE call[t].renderer # "none"
  <2>1. pc'[t] = "check"
    BY <1>3 DEF Enter, Goto, Inv, TypeOK
  <2>2. InCall(t)' /\ Counted(t)' = Counted(t)
    BY <1>1, <2>1 DEF InCall, Counted
  <2> QED BY <1>1, <2>2, StageUnseen DEF ServiceStep
<1> QED BY <1>2, <1>3

LEMMA CheckIsAStep == ASSUME Inv, NEW t \in Threads, Check(t) PROVE ServiceStep(t)
<1>1. pc[t] = "check" /\ call' = call /\ counter' = counter /\ Alone(t) /\ InCall(t)
  BY DEF Check, Leave, Goto, local, Inv, TypeOK, Alone, InCall
<1>2. call[t] \in Call(t) /\ call[t].renderer = "live"
  BY <1>1, CallTyped DEF Inv, ThreadInv, CallIsOwn, Within
<1>3. \/ pc'[t] = "emit"
      \/ pc'[t] = "return" /\ Refusal(call[t].request) # NoError
  BY DEF Check, Leave, Goto, Inv, TypeOK
<1>4. pc'[t] = "return" => ~Decoded(call[t])
  BY <1>2, <1>3, RefusedAsPromised DEF Decoded
<1>5. InCall(t)' /\ Counted(t)' = Counted(t)
  BY <1>1, <1>3, <1>4 DEF InCall, Counted
<1> QED BY <1>1, <1>5, StageUnseen DEF ServiceStep

LEMMA EmitIsAStep == ASSUME Inv, AllDue, NEW t \in Threads, Emit(t) PROVE ServiceStep(t)
<1>1. pc[t] = "emit" /\ call' = call /\ Alone(t) /\ InCall(t)
  BY DEF Emit, Leave, Goto, local, Inv, TypeOK, Alone, InCall
<1>2. call[t] \in Call(t) /\ Accepted(call[t])
  BY <1>1, CallTyped DEF AllDue, Due
<1>3. Asked(t) = call[t] /\ Asked(t) # None /\ Answered(t) = None
  BY <1>1, AskedInCall
<1>4. CASE DecodeError(call[t].request) = NoError
  <2>1. /\ pc'[t] = "draw"
        /\ counter' = (counter + Opcodes(call[t].request)) % CounterSize
    BY <1>4 DEF Emit, Goto, RecordOpcodes, Opcodes, Inv, TypeOK
  <2>2. Decoded(call[t])
    BY <1>2, <1>4, DecodedAsPromised DEF Decoded
  <2>3. counter' = (counter + ContractDecodes(Asked(t))) % CounterSize
    BY <1>3, <2>1, <2>2, CountsAsPromised
  <2>4. /\ Asked(t)' = Asked(t) /\ Answered(t)' = Answered(t)
        /\ ~Counted(t) /\ Counted(t)'
    BY <1>1, <1>3, <2>1 DEF Asked, Answered, Counted, InCall, None
  <2> QED BY <1>1, <1>3, <2>3, <2>4, SeenCount DEF ServiceStep
<1>5. CASE DecodeError(call[t].request) # NoError
  <2>1. pc'[t] = "return" /\ counter' = counter
    BY <1>5 DEF Emit, Leave, Goto, Inv, TypeOK
  <2>2. ~Decoded(call[t])
    BY <1>2, <1>5, DecodedAsPromised DEF Decoded
  <2>3. InCall(t)' /\ Counted(t)' = Counted(t)
    BY <1>1, <2>1, <2>2 DEF InCall, Counted
  <2> QED BY <1>1, <2>1, <2>3, StageUnseen DEF ServiceStep
<1> QED BY <1>4, <1>5

LEMMA DrawOrCopyIsAStep ==
    ASSUME Inv, AllDue, NEW t \in Threads, Draw(t) \/ Copy(t) PROVE ServiceStep(t)
<1>1. /\ pc[t] \in {"draw", "copy"} /\ pc'[t] \in {"copy", "return"}
      /\ call' = call /\ counter' = counter /\ Alone(t)
  BY DEF Draw, Copy, Leave, Goto, local, Inv, TypeOK, Alone
<1>2. Decoded(call[t])
  BY <1>1 DEF AllDue, Due, Decoded
<1>3. InCall(t) /\ InCall(t)' /\ Counted(t)' = Counted(t)
  BY <1>1, <1>2 DEF InCall, Counted
<1> QED BY <1>1, <1>3, StageUnseen DEF ServiceStep

LEMMA ReturnIsAStep ==
    ASSUME Inv, AllDue, AllDue', NEW t \in Threads, Return(t) PROVE ServiceStep(t)
<1>1. /\ pc[t] = "return" /\ pc'[t] = "returned" /\ call' = call /\ counter' = counter
      /\ Alone(t) /\ InCall(t) /\ Due(t)'
  BY DEF Return, Goto, Inv, TypeOK, Alone, InCall, AllDue
<1>2. Counted(t) \/ ContractDecodes(call[t]) = 0
  BY <1>1 DEF Counted, ContractDecodes
<1> QED BY <1>1, <1>2, EndIsReply DEF ServiceStep

\* Where no call changes, nothing is seen.
LEMMA NothingSeen ==
    ASSUME UNCHANGED <<pc, call, status, response, counter>> PROVE UNCHANGED Service!vars
<1>1. ASSUME NEW t \in Threads
      PROVE  Asked(t)' = Asked(t) /\ Answered(t)' = Answered(t) /\ Counted(t)' = Counted(t)
  BY DEF Asked, Answered, Counted, InCall, None
<1> QED BY <1>1 DEF Service!vars, AllAsked, AllAnswered, AllCounted

\* Every step of the library and its host is a step of the service, or none.
LEMMA StepIsAStep == Inv /\ AllDue /\ AllDue' /\ [Next]_vars => [Service!Next]_(Service!vars)
<1> SUFFICES ASSUME Inv, AllDue, AllDue', [Next]_vars PROVE [Service!Next]_(Service!vars)
  OBVIOUS
<1>1. ASSUME NEW t \in Threads, Ask(t) \/ Retry(t) \/ RendererNew(t) \/ RendererFree(t)
      PROVE  Service!Next
  BY <1>1, AskIsAsk, RetryIsAsk, RendererIsForget DEF Service!Next
<1>2. ASSUME NEW t \in Threads, Render(t)
      PROVE  Service!Next \/ UNCHANGED Service!vars
  <2>1. ServiceStep(t)
    BY <1>2, EnterIsAStep, CheckIsAStep, EmitIsAStep, DrawOrCopyIsAStep, ReturnIsAStep DEF Render
  <2> QED BY <2>1 DEF ServiceStep, Service!Next
<1>3. ASSUME NEW t \in Threads, LastErrorSize(t) \/ LastErrorText(t)
      PROVE  UNCHANGED Service!vars
  BY <1>3, NothingSeen DEF LastErrorSize, LastErrorText
<1>4. CASE UNCHANGED vars
  BY <1>4, NothingSeen DEF vars
<1> QED BY <1>1, <1>2, <1>3, <1>4 DEF Next

LEMMA StartIsAStart == Init => Service!Init
<1> SUFFICES ASSUME Init PROVE Service!Init
  OBVIOUS
<1>1. \A t \in Threads : Asked(t) = None /\ Answered(t) = None /\ Counted(t) = FALSE
  BY DEF Init, Asked, Answered, Counted, InCall
<1> QED BY <1>1 DEF Init, Service!Init, Service!None, None, AllAsked, AllAnswered, AllCounted

\* The library does nothing the service does not allow, however many threads
\* call it and wherever their calls are: every call is answered by what its
\* arguments alone determine, once, and counted once, before its answer.
THEOREM ServiceIsKept == Spec => Service!Init /\ [][Service!Next]_(Service!vars)
<1>1. Init => Inv /\ AllDue /\ Service!Init
  BY Initial, NothingDue, StartIsAStart
<1>2. Inv /\ AllDue /\ [Next]_vars => Inv' /\ AllDue' /\ [Service!Next]_(Service!vars)
  BY Inductive, DueKept, StepIsAStep
<1> QED BY <1>1, <1>2, PTL DEF Spec
=============================================================================
