---------------------------- MODULE MCDiagnostic ----------------------------
(***************************************************************************)
(* Small instances of Diagnostic: every short line, every line shaped like *)
(* a diagnostic, and outputs of several lines for the heading.             *)
(***************************************************************************)
EXTENDS Diagnostic

\* Every line of up to five lexemes.
ShortLines == BoundedSeq({":", " ", "1", "w", "error", "warning", "^"}, 5)

Paths == {<<>>, <<"w">>, <<"w", ":", "w">>, <<"note">>, <<"error", ":", "w">>}
Positions == {<<>>, <<":", "1">>, <<":", "1", ":", "1">>, <<":", "w">>}
Severities == {<<"error">>, <<"fatal", " ", "error">>, <<"warning">>, <<"note">>, <<"info">>, <<"w">>}
Messages == {<<>>, <<"w">>, <<"error", ":", "w">>, <<"w", " ", "warning", ":">>,
             <<"w", ":", "1", ":", " ", "note", ":", "w">>}
Gaps == {<<>>, <<" ">>}

ShapedLines ==
    {p \o q \o <<":">> \o g \o s \o <<":">> \o g \o m :
        p \in Paths, q \in Positions, s \in Severities, m \in Messages, g \in Gaps}

Shaped(severity) == <<"w", ":", "1", ":", " ", severity, ":", " ", "w">>
FewLines == {Shaped("error"), Shaped("warning"), Shaped("note"), <<" ", "^">>, <<"w">>}

MCOutputs == {<<line>> : line \in ShortLines \cup ShapedLines} \cup BoundedSeq(FewLines, 3)
=============================================================================
