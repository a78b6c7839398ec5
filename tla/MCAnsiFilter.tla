---------------------------- MODULE MCAnsiFilter ----------------------------
(* Instances of AnsiFilter for TLC: every paste of up to MaxPieces pieces,   *)
(* whole sequences and parts of sequences, so that one ends where the next   *)
(* begins.                                                                   *)
EXTENDS AnsiFilter

CONSTANT MaxPieces

Pieces == {
    <<"x">>, <<"&">>, <<"lt;">>, <<"<">>, <<"LF">>, <<"CR">>, <<"BS">>,
    <<"ESC">>, <<"ESC", "[">>, <<"1">>, <<"2", "4">>, <<";">>, <<"m">>, <<"K">>, <<"J">>, <<"f">>,
    <<"ESC", "[", "(", "B">>, <<"ESC", "[", "m">>, <<"ESC", "[", "1", "m">>,
    <<"ESC", "[", "3", "1", ";", "4", "m">>, <<"ESC", "[", "2", "4", ";", "0", "m">>,
    <<"ESC", "[", "3", "8", ";", "5", ";">>, <<"ESC", "[", "4", "8", ";", "5", ";">>,
    <<"ESC", "[", "4", "8", ";", "2", ";", "1", ";", "1", ";">>}
MCPastes == {FlattenSeq(p) : p \in SeqOf(Pieces, MaxPieces)}
=============================================================================
