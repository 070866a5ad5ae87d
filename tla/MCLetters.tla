----------------------------- MODULE MCLetters ------------------------------
(* Letters for TLC: every text of up to six runes over three kinds of rune.  *)
EXTENDS Letters

SmallTexts == UNION {[1..n -> {"x", " ", "\n"}] : n \in 0..6}
=============================================================================
