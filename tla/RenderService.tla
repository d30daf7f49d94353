---------------------------- MODULE RenderService ----------------------------
(***************************************************************************)
(* What the library promises a host with several threads, whatever goes on *)
(* inside a call: every call of bk_render is answered once, by an answer   *)
(* that depends on the arguments of that call alone (bytekodex.h calls the *)
(* library "stateless apart from the thread-local error message"), and the *)
(* counter of decoded opcodes goes up by what the call decoded.            *)
(***************************************************************************)
EXTENDS Integers

CONSTANTS
    Threads,
    Calls,          \* the arguments of a call
    Answer(_),      \* the answer to a call
    Decodes(_),     \* the opcodes a call decodes
    CounterSize     \* the number of values of the counter, which wraps

VARIABLES
    asked,          \* the call each thread waits for, or None
    answered,       \* the call a thread had answered, and the answer
    counted,        \* the call a thread waits for was counted
    counter         \* bk_opcodes_decoded_total

vars == <<asked, answered, counted, counter>>

None == [none |-> TRUE]

Init ==
    /\ asked = [t \in Threads |-> None]
    /\ answered = [t \in Threads |-> None]
    /\ counted = [t \in Threads |-> FALSE]
    /\ counter = 0

Ask(t) ==
    /\ asked[t] = None
    /\ \E c \in Calls : asked' = [asked EXCEPT ![t] = c]
    /\ answered' = [answered EXCEPT ![t] = None]
    /\ UNCHANGED <<counted, counter>>

\* The opcodes of a call are counted at some moment before it is answered.
Count(t) ==
    /\ asked[t] # None
    /\ ~counted[t]
    /\ counted' = [counted EXCEPT ![t] = TRUE]
    /\ counter' = (counter + Decodes(asked[t])) % CounterSize
    /\ UNCHANGED <<asked, answered>>

Reply(t) ==
    /\ asked[t] # None
    /\ counted[t] \/ Decodes(asked[t]) = 0
    /\ answered' = [answered EXCEPT ![t] =
                       [call |-> asked[t], answer |-> Answer(asked[t])]]
    /\ asked' = [asked EXCEPT ![t] = None]
    /\ counted' = [counted EXCEPT ![t] = FALSE]
    /\ UNCHANGED counter

\* The host is done with an answer.
Forget(t) ==
    /\ asked[t] = None
    /\ answered' = [answered EXCEPT ![t] = None]
    /\ UNCHANGED <<asked, counted, counter>>

Next == \E t \in Threads : Ask(t) \/ Count(t) \/ Reply(t) \/ Forget(t)

Spec ==
    /\ Init
    /\ [][Next]_vars
    /\ \A t \in Threads : WF_vars(Count(t) \/ Reply(t))
=============================================================================
