------------------------------- MODULE Tokens -------------------------------
(***************************************************************************)
(* The tokens of UniLogic, as Lexer/src2token.py hands them to the parser: *)
(* a kind, a value, and whether the token is the first of its line.        *)
(* Keywords, operators and brackets are all of the kind "WORD".  The end   *)
(* of a line is no token.                                                  *)
(***************************************************************************)
EXTENDS Integers, Sequences, SequencesExt

Word(w) == << <<"WORD", w, FALSE>> >>
Ident(x) == << <<"IDENT", x, FALSE>> >>
Numeral(n) == << <<"INT", n, FALSE>> >>
EndOfFile == << <<"EOF", "", FALSE>> >>

\* A text at the beginning of a line.
Line(text) == <<[text[1] EXCEPT ![3] = TRUE]>> \o Tail(text)

\* What stands between brackets, and what stands between commas.
In(open, text, close) == Word(open) \o text \o Word(close)
Commas(texts) == FlattenSeq([i \in DOMAIN texts |-> IF i = 1 THEN texts[i] ELSE Word(",") \o texts[i]])

\* The name of a function; some are keywords.
Callable == {"change", "cast", "size", "range"}
FunctionName(f) == IF f \in Callable THEN Word(f) ELSE Ident(f)

\* What the characters of a minus become that stands right before a text.
Glued(text) ==
    CASE text[1] = Word("-")[1] -> Word("--") \o Tail(text)
      [] text[1] = Word("--")[1] -> Word("--") \o Word("-") \o Tail(text)
      [] OTHER -> Word("-") \o text
=============================================================================
