------------------------------ MODULE MCCodec ------------------------------
(* Texts for TLC: empty, of one byte, of one character, and both kinds.     *)
EXTENDS Codec

TextsHere == {<<>>, <<"a">>, <<"u">>, <<"a", "u">>}

NumbersHere == {0, 7}
=============================================================================
