------------------------------- MODULE Parser -------------------------------
(***************************************************************************)
(* The recursive-descent parser of AST.cpp: what becomes of one line of    *)
(* input.  The characters are taken as the tokens they spell, and the      *)
(* white space between them, which SkipWS passes over, is left out.        *)
(*                                                                         *)
(* ParseExpression and ParseIndexExpression call each other and build      *)
(* nothing but nested index expressions p1[p2[...pn]], so the activations  *)
(* on the stack are as many as the brackets that are open, and what they   *)
(* hold is the sequence of the primaries p1, ..., pn.  What is parsed is a *)
(* line as module Interpreter takes it.                                    *)
(***************************************************************************)
EXTENDS Integers, Sequences

CONSTANTS
  Inputs,      \* the lines of input, as sequences of tokens
  MaxInteger   \* the greatest std::int64_t

\* A "string" is closed by a quote; an "open_string" is not, and spans the rest
\* of the line.  "other" is a character no expression starts with.
PrimaryKinds == {"variable", "number", "string"}

Punctuation == {"[", "]", "=", "open_string", "other"}

Token == [kind : PrimaryKinds, arg : Nat] \cup [kind : Punctuation, arg : {0}]

ASSUME InputsAssumption  ==
  /\ Inputs \subseteq Seq(Token)
  /\ \A s \in Inputs : \A i \in 1 .. Len(s) - 1 : s[i].kind # "open_string"
ASSUME IntegerAssumption == MaxInteger \in Nat

VARIABLES
  input,   \* ParseBuffer::buff_
  pos,     \* ParseBuffer::cur_
  pc,      \* the function that looks at the next token, or the outcome
  open,    \* the number of activations of ParseIndexExpression
  chain,   \* the primaries of the expression being parsed
  lhs      \* the expression before the =, or <<>>

vars == <<input, pos, pc, open, chain, lhs>>

Outcomes == {"parsed", "error", "aborted"}

IsEOF == pos > Len(input)

\* The next token is one of these kinds.
Sees(kinds) == /\ ~IsEOF
               /\ input[pos].kind \in kinds

\* Mutant: a number that is too large is read as it stands.
LiteralUnbounded(t) == t

\* What the parser makes of a primary.  std::from_chars reads all the digits of
\* a number that is too large, and leaves intValue at 0.
Literal(t) == IF t.kind = "number" /\ t.arg > MaxInteger
                THEN [t EXCEPT !.arg = 0]
                ELSE t

Init ==
  /\ input \in Inputs
  /\ pos = 1
  /\ pc = "expression"
  /\ open = 0
  /\ chain = <<>>
  /\ lhs = <<>>

Advance == pos' = pos + 1

\* A ParseError, which main.cpp reports, or an assertion.
Fail(outcome) == /\ pc' = outcome
                 /\ UNCHANGED <<input, pos, open, chain, lhs>>

-----------------------------------------------------------------------------
(* ParseExpression, up to its first SkipWS after the primary. *)

ParsePrimary ==
  /\ pc = "expression"
  /\ Sees(PrimaryKinds)
  /\ Advance
  /\ chain' = Append(chain, Literal(input[pos]))
  /\ pc' = "suffix"
  /\ UNCHANGED <<input, open, lhs>>

RejectPrimary ==
  /\ pc = "expression"
  /\ ~Sees(PrimaryKinds)
  /\ Fail("error")

\* Mutant: an index is sought only where no index is open.
ParseShallowSuffix ==
  /\ pc = "suffix"
  /\ \/ /\ Sees({"["}) /\ open = 0
        /\ Advance
        /\ open' = open + 1
        /\ pc' = "expression"
     \/ /\ ~(Sees({"["}) /\ open = 0)
        /\ pc' = "close"
        /\ UNCHANGED <<pos, open>>
  /\ UNCHANGED <<input, chain, lhs>>

\* The end of ParseExpression: a bracket starts an index, anything else is left
\* to the caller.
ParseSuffix ==
  /\ pc = "suffix"
  /\ \/ /\ Sees({"["})
        /\ Advance
        /\ open' = open + 1
        /\ pc' = "expression"
     \/ /\ ~Sees({"["})
        /\ pc' = "close"
        /\ UNCHANGED <<pos, open>>
  /\ UNCHANGED <<input, chain, lhs>>

-----------------------------------------------------------------------------
(* The end of ParseIndexExpression, once for each open bracket. *)

CloseIndex ==
  /\ pc = "close"
  /\ open > 0
  /\ Sees({"]"})
  /\ Advance
  /\ open' = open - 1
  /\ UNCHANGED <<input, pc, chain, lhs>>

RejectUnclosed ==
  /\ pc = "close"
  /\ open > 0
  /\ IsEOF
  /\ Fail("error")

AssertClosed ==
  /\ pc = "close"
  /\ open > 0
  /\ ~IsEOF
  /\ ~Sees({"]"})
  /\ Fail("aborted")

-----------------------------------------------------------------------------
(* Parse, after its first expression, and again after that of an assignment. *)

ParseAssignment ==
  /\ pc = "close"
  /\ open = 0
  /\ lhs = <<>>
  /\ Sees({"="})
  /\ Advance
  /\ lhs' = chain
  /\ chain' = <<>>
  /\ pc' = "expression"
  /\ UNCHANGED <<input, open>>

\* Mutant: what follows the statement is not looked at.
FinishAnyway ==
  /\ pc = "close"
  /\ open = 0
  /\ ~(lhs = <<>> /\ Sees({"="}))
  /\ pc' = "parsed"
  /\ UNCHANGED <<input, pos, open, chain, lhs>>

Finish ==
  /\ pc = "close"
  /\ open = 0
  /\ ~(lhs = <<>> /\ Sees({"="}))
  /\ pc' = IF IsEOF THEN "parsed" ELSE "error"
  /\ UNCHANGED <<input, pos, open, chain, lhs>>

Ended == /\ pc \in Outcomes
         /\ UNCHANGED vars

Next ==
  \/ ParsePrimary \/ RejectPrimary \/ ParseSuffix
  \/ CloseIndex \/ RejectUnclosed \/ AssertClosed
  \/ ParseAssignment \/ Finish
  \/ Ended

Spec == Init /\ [][Next]_vars

-----------------------------------------------------------------------------
\* The primaries of a tree.
Parsed == [kind : {"number"}, arg : 0 .. MaxInteger]
            \cup [kind : {"variable", "string"}, arg : Nat]

TypeOK ==
  /\ input \in Inputs
  /\ pos \in 1 .. Len(input) + 1
  /\ pc \in {"expression", "suffix", "close"} \cup Outcomes
  /\ open \in Nat
  /\ chain \in Seq(Parsed)
  /\ lhs \in Seq(Parsed)

(***************************************************************************)
(* The grammar: an expression is p1[p2[...pn]], a line is an expression or *)
(* expression = expression.                                                *)
(***************************************************************************)
Mark(kind) == [kind |-> kind, arg |-> 0]

\* The i-th token of the expression with the primaries ps, and all of them.
TokenOf(ps, i) == IF i > 2 * Len(ps) - 1 THEN Mark("]")
                  ELSE IF i % 2 = 0 THEN Mark("[")
                  ELSE ps[(i + 1) \div 2]

Spelling(ps) == [i \in 1 .. 3 * Len(ps) - 2 |-> TokenOf(ps, i)]

LineSpelling(l, r) == IF l = <<>> THEN Spelling(r)
                                  ELSE Spelling(l) \o <<Mark("=")>> \o Spelling(r)

IsPrimary(t) == t.kind \in PrimaryKinds

\* The primaries of an expression of that length.
Operands(ts) == [k \in 1 .. (Len(ts) + 2) \div 3 |-> ts[2 * k - 1]]

IsExpression(ts) == LET ps == Operands(ts)
                    IN  /\ ps # <<>>
                        /\ \A k \in DOMAIN ps : IsPrimary(ps[k])
                        /\ ts = Spelling(ps)

IsLine(ts) ==
  \/ IsExpression(ts)
  \/ \E i \in 1 .. Len(ts) : /\ ts[i] = Mark("=")
                             /\ IsExpression(SubSeq(ts, 1, i - 1))
                             /\ IsExpression(SubSeq(ts, i + 1, Len(ts)))

\* Nothing of the input is lost, added or put in another order on the way to the
\* tree: spelled again, it is the input, up to the numbers that are too large.
ParsesBack ==
  pc = "parsed" =>
    LineSpelling(lhs, chain) = [i \in 1 .. Len(input) |-> Literal(input[i])]

\* The lines of the grammar are accepted, and nothing else is: the rest ends in a
\* ParseError or at an assertion.
AcceptsTheGrammar == pc \in Outcomes => (pc = "parsed" <=> IsLine(input))

-----------------------------------------------------------------------------
(* A claim of the code that does not hold. *)

\* "Failed parsing integer" (AST.cpp:114): a number that is parsed is the number
\* that was written.
NumbersAsWritten == pc = "parsed" => LineSpelling(lhs, chain) = input
=============================================================================
