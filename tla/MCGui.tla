-------------------------------- MODULE MCGui --------------------------------
(* A small instance of Gui for TLC: a file and a directory there are at    *)
(* first, a file in each, and a path whose directory may come later.       *)
EXTENDS Gui, TLC

MCPaths == {<<"", "welcome.txt">>, <<"", "documents", "n">>, <<"", "x">>,
            <<"", "x", "n">>}
MCSymmetry == Permutations(Buffers)
=============================================================================
