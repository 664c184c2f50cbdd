----------------------------- MODULE MCFontFile -----------------------------
(***************************************************************************)
(* Fonts for TLC: four pictures of three dots by two, as many as a char of *)
(* two bits has values; all contents of the first two, also a first row    *)
(* that is too wide, and dots of the other kind in the last two.           *)
(***************************************************************************)
EXTENDS FontFile

Rows3 == [1 .. 3 -> {".", "@"}]
Wide  == {<<"@", ".", ".", "@">>, <<".", "@", ".", "@">>}

SomePictures ==
  {<< <<p, q>>, <<r, s>>, << <<"*", ".", "*">>, <<".", ".", "*">> >>,
      << <<"@", "*", "@">>, <<"*", "*", ".">> >> >> : p \in Rows3 \union Wide, q, r, s \in Rows3}

SomeCharacters == -2 .. 1
=============================================================================
