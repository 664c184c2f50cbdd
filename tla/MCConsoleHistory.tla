-------------------------- MODULE MCConsoleHistory --------------------------
(***************************************************************************)
(* Strings for TLC: all those of up to two characters over two characters  *)
(* with a glyph, one without (above 0x7f) and the newline.                 *)
(***************************************************************************)
EXTENDS ConsoleHistory

ShortStrings == UNION {[1 .. n -> Char \union {NL}] : n \in 0 .. 2}
=============================================================================
