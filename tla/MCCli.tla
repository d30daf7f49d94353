-------------------------------- MODULE MCCli --------------------------------
(***************************************************************************)
(* Small instances of the driver: one to three inputs, of each kind a file *)
(* can be, and documents of up to four pages.                              *)
(***************************************************************************)
EXTENDS Cli, TLC

MCFileNames == {"a", "b", "c"}
MCNumbers == "2" :> 2 @@ "9" :> 9

Line(c, as) == [command |-> c, args |-> as]
OneFont == <<"--font", "--all", "--rows", "2">>

MCCommandLines ==
    {Line(c, o \o is) : c \in {"dump", "render", "diagnostic", "frobnicate"},
                       o \in {OneFont, <<"--pool", "--locals">>},
                       is \in {<<"a">>, <<"a", "b">>, <<"b", "a", "c">>}}
    \cup {Line("dump", as) : as \in {<<>>, <<"a", "--rows">>, <<"--rows", "a", "b">>,
                                     <<"--other", "a">>, <<"--size", "9", "--all", "a", "--out", "p">>}}

Good == [reads |-> TRUE, text |-> TRUE, lists |-> TRUE, rows |-> 2, opcodes |-> 1]
Kinds == {Good, [Good EXCEPT !.reads = FALSE], [Good EXCEPT !.lists = FALSE],
          [Good EXCEPT !.text = FALSE, !.rows = 1, !.opcodes = 2]}

MCDisks ==
    {[files |-> f, font |-> TRUE, undrawn |-> u, unwritable |-> w, full |-> c] :
         f \in [MCFileNames -> Kinds], u \in {1, 9}, w \in {2, 9}, c \in BOOLEAN}
    \cup {[files |-> [n \in MCFileNames |-> Good], font |-> FALSE,
           undrawn |-> 9, unwritable |-> 9, full |-> FALSE]}
=============================================================================
