----------------------------- MODULE FfiService -----------------------------
(***************************************************************************)
(* The C ABI implements RenderService: however the stages of the calls of  *)
(* several threads interleave, each call amounts to one answer that        *)
(* follows from its arguments alone, and to one addition to the counter.   *)
(***************************************************************************)
EXTENDS Ffi

-----------------------------------------------------------------------------
\* The contract, as a table of the arguments.
Accepted(c) ==
    /\ c.renderer = "live"
    /\ c.request.abi
    /\ \/ c.request.kind = "diagnostic"
       \/ c.request.kind \in {"binary", "text"} /\ c.request.platform = "jvm"
    /\ ~c.request.empty

Decoded(c) == Accepted(c) /\ c.request.decode = "ok"

ContractDecodes(c) ==
    IF Decoded(c) /\ c.request.kind # "diagnostic" THEN c.request.opcodes ELSE 0

RefusedStatus(c) ==
    IF c.renderer = "none" THEN "INVALID_ARGUMENT"
    ELSE IF ~c.request.abi THEN "ABI_MISMATCH"
    ELSE IF c.request.kind = "unknown" THEN "UNSUPPORTED_INPUT"
    ELSE IF c.request.kind # "diagnostic" /\ c.request.platform # "jvm"
         THEN "UNSUPPORTED_PLATFORM"
    ELSE "INVALID_ARGUMENT"

RenderedStatus(c) ==
    IF c.request.page * PageRows(c.request) >= c.request.rows THEN "PAGE_OUT_OF_RANGE"
    ELSE IF c.request.draw # "ok" THEN DrawError(c.request).status
    ELSE IF c.request.size > c.capacity THEN "BUFFER_TOO_SMALL" ELSE "OK"

ContractStatus(c) ==
    IF ~Accepted(c) THEN RefusedStatus(c)
    ELSE IF ~Decoded(c) THEN DecodeError(c.request).status
    ELSE RenderedStatus(c)

ContractAnswer(c) ==
    [status   |-> ContractStatus(c),
     opcodes  |-> IF ContractStatus(c) = "INTERNAL" THEN 0 ELSE ContractDecodes(c),
     required |-> IF ContractStatus(c) \in {"OK", "BUFFER_TOO_SMALL"}
                  THEN c.request.size ELSE 0]
-----------------------------------------------------------------------------
InCall(t) == pc[t] \in {"entered", "check", "emit", "draw", "copy", "return"}

None == [none |-> TRUE]
AllOf(f) == UNION {f[t] : t \in Threads}

\* The arguments of first calls, and of calls with a buffer that was grown.
Calls ==
    {[renderer |-> h, request |-> r, capacity |-> k] :
        h \in {"none", "live"}, r \in AllOf(Requests),
        k \in AllOf(Capacities) \cup {q.size : q \in AllOf(Requests)}}

\* A thread as the service sees it.
Asked(t) == IF InCall(t) THEN call[t] ELSE None

Answered(t) ==
    IF pc[t] = "returned"
    THEN [call   |-> call[t],
          answer |-> [status |-> status[t], opcodes |-> response[t].opcodes,
                      required |-> response[t].required]]
    ELSE None

Counted(t) == pc[t] \in {"draw", "copy"} \/ (pc[t] = "return" /\ Decoded(call[t]))

AllAsked == [t \in Threads |-> Asked(t)]
AllAnswered == [t \in Threads |-> Answered(t)]
AllCounted == [t \in Threads |-> Counted(t)]

Service == INSTANCE RenderService WITH
    Answer <- ContractAnswer,
    Decodes <- ContractDecodes,
    asked <- AllAsked,
    answered <- AllAnswered,
    counted <- AllCounted

\* The stages of bk_render amount, for every thread and interleaving, to the
\* one answer of the service; every call is answered.
ImplementsService == Service!Spec
=============================================================================
