------------------------------ MODULE MCExports -----------------------------
(* Names for Exports.  With the names a, a-b and b, and the applications x *)
(* and b-x of a and x of the others, a's name is the beginning of a-b's,   *)
(* and the two share the file podbox-a-b-x.desktop.  The user may have a   *)
(* program that has nothing to do with podbox, and a script that enters    *)
(* both a and b.                                                           *)
EXTENDS Exports, TLC

SomeNames == {<<"a">>, <<"a", Dash, "b">>, <<"b">>}
SomeApps  == [c \in SomeNames |-> {<<"x">>} \cup (IF c = <<"a">> THEN {<<"b", Dash, "x">>} ELSE {})]

SomeScripts == {{}, {<<"a">>, <<"b">>}}

Symmetry == Permutations(Commands)
=============================================================================
