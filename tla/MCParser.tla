------------------------------ MODULE MCParser ------------------------------
(* Parser for TLC: the inputs made of a few tokens. *)
EXTENDS Parser, FiniteSets, SequencesExt

Tok(kind, arg) == [kind |-> kind, arg |-> arg]

Primaries == {Tok("variable", 1), Tok("number", 2)}

Tokens == Primaries \cup {Mark("["), Mark("]"), Mark("="), Mark("open_string")}

\* Every input of up to five tokens, and the lines of up to fifteen.
ShortInputs == SeqOf(Tokens, 5)

Expressions == {Spelling(ps) : ps \in SeqOf(Primaries, 3) \ {<<>>}}

FullLines == Expressions
               \cup {l \o <<Mark("=")>> \o r : l \in Expressions, r \in Expressions}

\* The same with one token replaced.
SpoiltLines ==
  UNION {{[l EXCEPT ![i] = t] : i \in DOMAIN l, t \in Tokens \cup {Mark("other")}} :
           l \in FullLines}

SomeInputs ==
  {s \in ShortInputs \cup SpoiltLines :
     \A i \in 1 .. Len(s) - 1 : s[i].kind # "open_string"}
=============================================================================
