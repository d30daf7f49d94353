-------------------------------- MODULE MCFfi --------------------------------
(***************************************************************************)
(* Small instances of the C ABI: a request for each way a call can end.    *)
(***************************************************************************)
EXTENDS FfiService, TLC

CONSTANTS Main, Other

Good == [abi |-> TRUE, kind |-> "text", platform |-> "jvm", empty |-> FALSE,
         decode |-> "ok", opcodes |-> 1, rows |-> 3, page |-> 0, pageRows |-> 2,
         draw |-> "ok", width |-> 5, size |-> 2]
Diagnostic == [Good EXCEPT !.kind = "diagnostic", !.platform = "unknown", !.pageRows = 0]

\* One thread makes a request for each way a call can end.
AllRequests ==
    {Good, Diagnostic, [Good EXCEPT !.page = 2],
     [Good EXCEPT !.kind = "unknown", !.platform = "cil"],
     [Good EXCEPT !.platform = "cil", !.empty = TRUE],
     [Diagnostic EXCEPT !.decode = "notUtf8"],
     [Good EXCEPT !.draw = "tooLarge"], [Good EXCEPT !.draw = "panics"]}

\* The other only has to grow its buffer, which fails once before it succeeds.
MCRequests == Main :> AllRequests @@ Other :> {Good}
MCFonts == Main :> {"ok", "unreadable"} @@ Other :> {"ok"}
MCCapacities == Main :> {2} @@ Other :> {1}

\* Lengths that tell the messages of different failures apart.
MCMessageLength(error) ==
    CASE error.status = "INTERNAL" -> 3
      [] error.status = "BUFFER_TOO_SMALL" -> 4
      [] OTHER -> 2
=============================================================================
