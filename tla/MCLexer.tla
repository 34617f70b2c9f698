------------------------------ MODULE MCLexer -------------------------------
(* Lexer on every text up to some length, in every way to fill blocks. *)
EXTENDS Lexer, TLC

(* Word characters, a soft and a hard boundary, a space, and the quote. *)
MCLetters == {"a", "b", "=", "(", " ", Quote}

(* Two keywords, one the beginning of the other. *)
MCKeywords == <<"a", "b">> :> "USE" @@ <<"a", "b", "a">> :> "FUNC"
=============================================================================
