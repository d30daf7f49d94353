--------------------------------- MODULE Ffi ---------------------------------
(***************************************************************************)
(* The C ABI (bk-ffi/src/lib.rs) under a host with several threads.        *)
(*                                                                         *)
(* Each thread keeps a renderer of its own, as bytekodex.h asks, calls     *)
(* bk_render, grows its buffer when told to and calls again, and may read  *)
(* the message of a failure with the two calls of bk_last_error.  Calls of *)
(* different threads interleave between the stages of bk_render; what they *)
(* share is the counter of decoded opcodes.                                *)
(*                                                                         *)
(* A request is abstracted to what each stage of the call makes of it: how *)
(* its input decodes, into how many rows and opcodes, what drawing the     *)
(* page comes to, and the size of the PNG.  Decoding and drawing are       *)
(* functions of the request; the glyph cache only saves work.              *)
(***************************************************************************)
EXTENDS Pagination

CONSTANTS
    Threads,
    Requests,       \* the requests each thread makes: see Request
    Capacities,     \* out_cap of its first calls; 0 is also a null out
    Fonts,          \* what bk_renderer_new makes of its fonts: see Font
    DefaultPageRows,\* ViewOptions::DEFAULT_PAGE_ROWS
    MessageLength(_), \* the length of the text of an error
    CounterSize     \* the values of the AtomicU64

Font == {"ok", "empty", "badSize", "unreadable", "panics"}
Request ==
    [abi : BOOLEAN,             \* abi_version = BK_ABI_VERSION
     kind : {"binary", "text", "diagnostic", "unknown"},
     platform : {"jvm", "cil", "unknown"},
     empty : BOOLEAN,           \* a null or zero-length input slice
     decode : {"ok", "malformed", "version", "notUtf8", "panics"},
     opcodes : Nat, rows : Nat, \* of the decoded document
     page : Nat, pageRows : Nat,
     draw : {"ok", "tooLarge", "encode", "panics"},
     width : Nat, size : Nat]   \* of the image, in pixels and in bytes

\* What a call returns, and what its message says.
Statuses == {"OK", "ABI_MISMATCH", "INVALID_ARGUMENT", "UNSUPPORTED_PLATFORM",
             "UNSUPPORTED_INPUT", "MALFORMED", "UNSUPPORTED_VERSION", "PAGE_OUT_OF_RANGE",
             "BUFFER_TOO_SMALL", "IMAGE_TOO_LARGE", "ENCODE", "FONT", "INTERNAL"}
Error == [status : Statuses,
          what : {"none", "abi", "kind", "platform", "input slice is empty", "input",
                  "version", "diagnostic input is not UTF-8", "input is not UTF-8",
                  "page", "image", "encode", "buffer", "font slice is empty",
                  "font size out of range", "font could not be parsed",
                  "panic while rendering", "panic while building the renderer",
                  "null renderer, request or response"}]

ASSUME FfiAssumption ==
    /\ Requests \in [Threads -> SUBSET Request]
    /\ \A t \in Threads : \A r \in Requests[t] : r.width > 0 /\ r.size > 0 /\ r.rows > 0
    /\ Fonts \in [Threads -> SUBSET Font]
    /\ Capacities \in [Threads -> SUBSET Nat]
    /\ DefaultPageRows \in Nat \ {0}
    /\ CounterSize \in Nat \ {0}
    /\ \A e \in Error : MessageLength(e) \in Nat

VARIABLES
    pc,         \* where each thread is
    renderer,   \* its handle: "none" (a null pointer) or "live"
    call,       \* the arguments of its call
    partial,    \* the response under construction
    pending,    \* the error the call is about to return, or NoError
    response,   \* the caller's bk_response
    buffer,     \* how much of the caller's buffer was written
    status,     \* what the last library call of the thread returned
    lastError,  \* LAST_ERROR, thread-local
    needed,     \* what bk_last_error said it needs, 0 if not asked
    message,    \* what bk_last_error copied out
    counter     \* TOTAL_OPCODES

vars == <<pc, renderer, call, partial, pending, response, buffer, status,
          lastError, needed, message, counter>>
local == <<renderer, call, buffer, status, lastError, needed, message>>
-----------------------------------------------------------------------------
NoError == [status |-> "OK", what |-> "none"]
Failure(code, what) == [status |-> code, what |-> what]

\* BkResponse::default(), but for a status no call returns.
Blank == [status |-> "unset", written |-> 0, required |-> 0, pages |-> 0,
          width |-> 0, opcodes |-> 0]
NoCall == [renderer |-> "none"]
NoMessage == [error |-> NoError, whole |-> TRUE]

PanicRendering == Failure("INTERNAL", "panic while rendering")

\* A zero in the request asks for the default.
PageRows(r) == IF r.pageRows = 0 THEN DefaultPageRows ELSE r.pageRows
PagesTotal(r) == Pages(r.rows, PageRows(r))

\* The checks of render, in order.  A diagnostic belongs to no platform.
Refusal(r) ==
    CASE ~r.abi                -> Failure("ABI_MISMATCH", "abi")
      [] r.abi /\ r.kind = "unknown" -> Failure("UNSUPPORTED_INPUT", "kind")
      [] r.abi /\ r.kind \in {"binary", "text"} /\ r.platform # "jvm" ->
             Failure("UNSUPPORTED_PLATFORM", "platform")
      [] r.abi /\ r.kind # "unknown"
         /\ (r.kind = "diagnostic" \/ r.platform = "jvm") /\ r.empty ->
             Failure("INVALID_ARGUMENT", "input slice is empty")
      [] OTHER                 -> NoError

\* What emitting the input fails with.
DecodeError(r) ==
    CASE r.decode = "panics"    -> PanicRendering
      [] r.decode = "malformed" -> Failure("MALFORMED", "input")
      [] r.decode = "version"   -> Failure("UNSUPPORTED_VERSION", "version")
      [] r.decode = "notUtf8" /\ r.kind = "diagnostic" ->
             Failure("INVALID_ARGUMENT", "diagnostic input is not UTF-8")
      [] r.decode = "notUtf8" /\ r.kind # "diagnostic" ->
             Failure("MALFORMED", "input is not UTF-8")
      [] OTHER                  -> NoError

\* What render_page fails with.
DrawError(r) ==
    CASE r.page >= PagesTotal(r) -> Failure("PAGE_OUT_OF_RANGE", "page")
      [] r.page < PagesTotal(r) /\ r.draw = "tooLarge" ->
             Failure("IMAGE_TOO_LARGE", "image")
      [] r.page < PagesTotal(r) /\ r.draw = "encode" -> Failure("ENCODE", "encode")
      [] r.page < PagesTotal(r) /\ r.draw = "panics" -> PanicRendering
      [] OTHER                   -> NoError

TooSmall == Failure("BUFFER_TOO_SMALL", "buffer")

\* What bk_renderer_new fails with.
FontError(f) ==
    CASE f = "empty"      -> Failure("INVALID_ARGUMENT", "font slice is empty")
      [] f = "badSize"    -> Failure("INVALID_ARGUMENT", "font size out of range")
      [] f = "unreadable" -> Failure("FONT", "font could not be parsed")
      [] f = "panics"     -> Failure("INTERNAL", "panic while building the renderer")
      [] OTHER            -> NoError
-----------------------------------------------------------------------------
\* Mutant: one LAST_ERROR for the whole process.
RememberForAll(t, error) == lastError' = [u \in Threads |-> error]

\* remember, remember_message: the message of the calling thread.
Remember(t, error) == lastError' = [lastError EXCEPT ![t] = error]

Goto(t, from, to) == pc[t] = from /\ pc' = [pc EXCEPT ![t] = to]

\* Leave bk_render's closure with this response and this error.
Leave(t, from, resp, error) ==
    /\ Goto(t, from, "return")
    /\ partial' = [partial EXCEPT ![t] = resp]
    /\ pending' = [pending EXCEPT ![t] = error]

\* A thread that has its answer and need not call again for a larger buffer.
Free(t) == pc[t] \in {"idle", "returned"} /\ status[t] # "BUFFER_TOO_SMALL"
-----------------------------------------------------------------------------
(***************************************************************************)
(* The host (external).                                                    *)
(***************************************************************************)
Start(t, c) ==
    /\ pc' = [pc EXCEPT ![t] = "entered"]
    /\ call' = [call EXCEPT ![t] = c]
    /\ response' = [response EXCEPT ![t] = Blank]
    /\ buffer' = [buffer EXCEPT ![t] = 0]
    /\ needed' = [needed EXCEPT ![t] = 0]
    /\ message' = [message EXCEPT ![t] = NoMessage]
    /\ UNCHANGED <<renderer, partial, pending, status, lastError, counter>>

\* A first call, with whatever buffer the thread has; the renderer pointer is
\* null when building it failed.
Ask(t) ==
    /\ Free(t)
    /\ \E r \in Requests[t], cap \in Capacities[t] :
           Start(t, [renderer |-> renderer[t], request |-> r, capacity |-> cap])

\* "If it is too small, required says how big it must be: grow it and call
\* again."
Retry(t) ==
    /\ pc[t] = "returned"
    /\ status[t] = "BUFFER_TOO_SMALL"
    /\ Start(t, [call[t] EXCEPT !.capacity = response[t].required])
-----------------------------------------------------------------------------
(***************************************************************************)
(* The library.                                                            *)
(***************************************************************************)
Init ==
    /\ pc = [t \in Threads |-> "idle"]
    /\ renderer = [t \in Threads |-> "none"]
    /\ call = [t \in Threads |-> NoCall]
    /\ partial = [t \in Threads |-> Blank]
    /\ pending = [t \in Threads |-> NoError]
    /\ response = [t \in Threads |-> Blank]
    /\ buffer = [t \in Threads |-> 0]
    /\ status = [t \in Threads |-> "OK"]
    /\ lastError = [t \in Threads |-> NoError]
    /\ needed = [t \in Threads |-> 0]
    /\ message = [t \in Threads |-> NoMessage]
    /\ counter = 0

\* The thread is done with its last call; the message of a failure stays.
Discard(t) ==
    /\ pc' = [pc EXCEPT ![t] = "idle"]
    /\ call' = [call EXCEPT ![t] = NoCall]
    /\ response' = [response EXCEPT ![t] = Blank]
    /\ buffer' = [buffer EXCEPT ![t] = 0]
    /\ needed' = [needed EXCEPT ![t] = 0]
    /\ message' = [message EXCEPT ![t] = NoMessage]

RendererNew(t) ==
    /\ Free(t)
    /\ renderer[t] = "none"
    /\ \E f \in Fonts[t] :
           /\ renderer' = [renderer EXCEPT ![t] = IF f = "ok" THEN "live" ELSE "none"]
           /\ status' = [status EXCEPT ![t] = FontError(f).status]
           /\ IF f = "ok" THEN UNCHANGED lastError ELSE Remember(t, FontError(f))
    /\ Discard(t)
    /\ UNCHANGED <<partial, pending, counter>>

RendererFree(t) ==
    /\ Free(t)
    /\ renderer[t] = "live"
    /\ renderer' = [renderer EXCEPT ![t] = "none"]
    /\ status' = [status EXCEPT ![t] = "OK"]
    /\ Discard(t)
    /\ UNCHANGED <<partial, pending, lastError, counter>>

\* bk_render, before the closure: a null argument leaves response alone.
Enter(t) ==
    /\ IF call[t].renderer = "none"
       THEN LET error == Failure("INVALID_ARGUMENT", "null renderer, request or response")
            IN  /\ Goto(t, "entered", "returned")
                /\ status' = [status EXCEPT ![t] = error.status]
                /\ Remember(t, error)
       ELSE /\ Goto(t, "entered", "check")
            /\ UNCHANGED <<status, lastError>>
    /\ UNCHANGED <<renderer, call, partial, pending, response, buffer, needed,
                   message, counter>>

Check(t) ==
    LET error == Refusal(call[t].request)
    IN  /\ pc[t] = "check"
        /\ IF error = NoError
           THEN Goto(t, "check", "emit") /\ UNCHANGED <<partial, pending>>
           ELSE Leave(t, "check", Blank, error)
        /\ UNCHANGED <<local, response, counter>>

\* Mutant: the counter is stored, not added to.
RecordOpcodesStore(n) == counter' = n % CounterSize

\* record_opcodes: one atomic addition, when a class was decoded to its end.
RecordOpcodes(n) == counter' = (counter + n) % CounterSize

\* Emit the input and finish the document.  A diagnostic is not bytecode and
\* counts no opcodes.
Emit(t) ==
    LET r == call[t].request
        n == IF r.kind = "diagnostic" THEN 0 ELSE r.opcodes
    IN  /\ pc[t] = "emit"
        /\ IF DecodeError(r) = NoError
           THEN /\ Goto(t, "emit", "draw")
                /\ RecordOpcodes(n)
                /\ partial' = [partial EXCEPT ![t] =
                       [Blank EXCEPT !.pages = PagesTotal(r), !.opcodes = n]]
                /\ UNCHANGED pending
           ELSE /\ Leave(t, "emit", Blank, DecodeError(r))
                /\ UNCHANGED counter
        /\ UNCHANGED <<local, response>>

\* Mutant: a page that could not be drawn loses the counts.
FailedDrawBlank(t) == Blank

\* What is returned with an error of render_page: the counts, unless it
\* panicked, since the panic unwinds past them to catch_unwind.
FailedDraw(t) ==
    IF DrawError(call[t].request) = PanicRendering THEN Blank ELSE partial[t]

Draw(t) ==
    LET error == DrawError(call[t].request)
    IN  /\ pc[t] = "draw"
        /\ IF error = NoError
           THEN Goto(t, "draw", "copy") /\ UNCHANGED <<partial, pending>>
           ELSE Leave(t, "draw", FailedDraw(t), error)
        /\ UNCHANGED <<local, response, counter>>

\* Mutant: the size reported is that of the buffer that was too small.
RequiredAsGiven(t) == call[t].capacity

\* The size reported with BUFFER_TOO_SMALL.
Required(t) == call[t].request.size

\* Mutant: what fits of the PNG is copied out, and the call succeeds.
CopyWhatFits(t) ==
    LET r == call[t].request
        n == IF r.size > call[t].capacity THEN call[t].capacity ELSE r.size
    IN  /\ Leave(t, "copy", [partial[t] EXCEPT !.written = n, !.required = r.size,
                                               !.width = r.width], NoError)
        /\ buffer' = [buffer EXCEPT ![t] = n]
        /\ UNCHANGED <<renderer, call, status, lastError, needed, message,
                       response, counter>>

\* The staged PNG is copied out if it fits.
Copy(t) ==
    LET r == call[t].request
    IN  /\ pc[t] = "copy"
        /\ IF r.size > call[t].capacity
           THEN /\ Leave(t, "copy", [partial[t] EXCEPT !.required = Required(t)], TooSmall)
                /\ UNCHANGED buffer
           ELSE /\ Leave(t, "copy", [partial[t] EXCEPT !.written = r.size,
                                                       !.required = r.size,
                                                       !.width = r.width], NoError)
                /\ buffer' = [buffer EXCEPT ![t] = r.size]
        /\ UNCHANGED <<renderer, call, status, lastError, needed, message,
                       response, counter>>

\* bk_render, after the closure: remember the error, write the response.
Return(t) ==
    /\ Goto(t, "return", "returned")
    /\ response' = [response EXCEPT ![t] = [partial[t] EXCEPT !.status = pending[t].status]]
    /\ status' = [status EXCEPT ![t] = pending[t].status]
    /\ IF pending[t] = NoError THEN UNCHANGED lastError ELSE Remember(t, pending[t])
    /\ partial' = [partial EXCEPT ![t] = Blank]
    /\ pending' = [pending EXCEPT ![t] = NoError]
    /\ UNCHANGED <<renderer, call, buffer, needed, message, counter>>

\* What bk_last_error copies: the message if it fits with its terminator.
Copied(error, cap) == [error |-> error, whole |-> MessageLength(error) <= cap - 1]

\* bk_last_error(null, 0) by a thread that saw a failure.
LastErrorSize(t) ==
    /\ pc[t] \in {"idle", "returned"}
    /\ status[t] # "OK"
    /\ needed[t] = 0
    /\ needed' = [needed EXCEPT ![t] = MessageLength(lastError[t]) + 1]
    /\ UNCHANGED <<pc, renderer, call, partial, pending, response, buffer,
                   status, lastError, message, counter>>

\* bk_last_error(buf, cap) with a buffer of the size it asked for.
LastErrorText(t) ==
    /\ pc[t] \in {"idle", "returned"}
    /\ needed[t] > 0
    /\ message' = [message EXCEPT ![t] = Copied(lastError[t], needed[t])]
    /\ needed' = [needed EXCEPT ![t] = 0]
    /\ UNCHANGED <<pc, renderer, call, partial, pending, response, buffer,
                   status, lastError, counter>>

\* A call of bk_render goes on to its end once it was made.
Render(t) == Enter(t) \/ Check(t) \/ Emit(t) \/ Draw(t) \/ Copy(t) \/ Return(t)

Next ==
    \E t \in Threads :
        \/ Ask(t) \/ Retry(t)
        \/ RendererNew(t) \/ RendererFree(t)
        \/ Render(t)
        \/ LastErrorSize(t) \/ LastErrorText(t)

\* A call runs to its end; a host that was told the size calls again.
Spec ==
    /\ Init
    /\ [][Next]_vars
    /\ \A t \in Threads : WF_vars(Render(t)) /\ WF_vars(Retry(t))
-----------------------------------------------------------------------------
(***************************************************************************)
(* Properties.                                                             *)
(***************************************************************************)
\* The message a thread can read is that of its own last failure, whatever
\* calls of other threads failed since; and what it read with the two calls
\* of bk_last_error is the whole of it, although others failed between them.
LastErrorIsOwn ==
    \A t \in Threads :
        /\ pc[t] \in {"idle", "returned"} /\ status[t] # "OK" =>
               lastError[t].status = status[t]
        /\ message[t] # NoMessage =>
               message[t].whole /\ message[t].error.status = status[t]

\* The caller's buffer is written only by a call that succeeds, never past
\* its capacity, and wholly: required and written agree.  No call gets as far
\* as that with a renderer that could not be built.
BufferHoldsOnlyWholeImages ==
    \A t \in Threads :
        /\ pc[t] \in {"check", "emit", "draw", "copy", "return"} =>
               renderer[t] = "live" /\ call[t].renderer = "live"
        /\ buffer[t] > 0 => buffer[t] <= call[t].capacity
        /\ pc[t] = "returned" /\ response[t].status # "unset" =>
               /\ response[t].written = buffer[t]
               /\ (status[t] = "OK") = (buffer[t] > 0)
               /\ status[t] = "OK" => response[t].required = buffer[t]

\* "Counts survive even a failed render": once the input decoded, the
\* response has the counts, unless the call panicked.
CountsSurviveFailedRender ==
    \A t \in Threads :
        /\ pc[t] = "returned"
        /\ status[t] \in {"OK", "BUFFER_TOO_SMALL", "IMAGE_TOO_LARGE", "ENCODE",
                          "PAGE_OUT_OF_RANGE"}
        => /\ response[t].pages = PagesTotal(call[t].request)
           /\ call[t].request.kind # "diagnostic" =>
                  response[t].opcodes = call[t].request.opcodes

\* Every call settles: a host that retries as told gets, in the end, an
\* answer other than BUFFER_TOO_SMALL.
CallsSettle ==
    \A t \in Threads :
        pc[t] = "entered" ~> pc[t] = "returned" /\ status[t] # "BUFFER_TOO_SMALL"

\* bk_render's comment: on BK_ERR_BUFFER_TOO_SMALL "every other field of
\* response is filled in either way".
GeometryOnTooSmall ==
    \A t \in Threads :
        pc[t] = "returned" /\ response[t].status = "BUFFER_TOO_SMALL" =>
            response[t].width = call[t].request.width
=============================================================================
