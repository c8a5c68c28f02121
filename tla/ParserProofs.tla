---------------------------- MODULE ParserProofs ----------------------------
(***************************************************************************)
(* For every set of inputs: the parser keeps its types (ParserTyped), what *)
(* it has parsed, spelled again, is the input (ParsesBackAlways), and what *)
(* it parses are the lines of the grammar (ParsesExactlyTheGrammar).       *)
(*                                                                         *)
(* ParsesBack speaks of the end.  The invariant Progress says of every     *)
(* moment which tokens of the input the primaries collected so far came    *)
(* from, and that the tokens between them are the brackets.                *)
(***************************************************************************)
EXTENDS Parser, SequenceTheorems, TLAPS

\* The primaries ps come from every other token after the s-th,
Reads(ps, s) == \A k \in 1 .. Len(ps) : Literal(input[s + 2 * k - 1]) = ps[k]

\* the tokens between them are opening brackets,
Opens(s, n) == \A k \in 1 .. n : input[s + 2 * k].kind = "["

\* and those from the i-th to the j-th are closing ones.
Closes(s, i, j) == \A k \in i .. j : input[s + k].kind = "]"

Whole(ps, s) == /\ Reads(ps, s)
                /\ Opens(s, Len(ps) - 1)
                /\ Closes(s, 2 * Len(ps), 3 * Len(ps) - 2)

\* How many tokens precede the expression being parsed: the left-hand side and
\* the equals sign.
Start == IF lhs = <<>> THEN 0 ELSE 3 * Len(lhs) - 1

Progress ==
  /\ lhs # <<>> => /\ Whole(lhs, 0)
                   /\ Start < pos
                   /\ input[Start].kind = "="
  /\ Reads(chain, Start)
  /\ pc = "expression" => /\ pos = Start + 2 * Len(chain) + 1
                          /\ open = Len(chain)
                          /\ Opens(Start, Len(chain))
  /\ pc = "suffix" => /\ chain # <<>>
                      /\ pos = Start + 2 * Len(chain)
                      /\ open = Len(chain) - 1
                      /\ Opens(Start, Len(chain) - 1)
  /\ pc = "close" => /\ chain # <<>>
                     /\ pos = Start + 3 * Len(chain) - 1 - open
                     /\ open < Len(chain)
                     /\ Opens(Start, Len(chain) - 1)
                     /\ Closes(Start, 2 * Len(chain), 3 * Len(chain) - 2 - open)
  /\ pc = "parsed" => /\ chain # <<>>
                      /\ pos = Start + 3 * Len(chain) - 1
                      /\ pos = Len(input) + 1
                      /\ Whole(chain, Start)

Inv == TypeOK /\ Progress

-----------------------------------------------------------------------------
(* Lemmas. *)

\* A token of the input is a token.
LEMMA InputToken ==
  ASSUME TypeOK, NEW i \in 1 .. Len(input)
  PROVE  /\ input \in Seq(Token)
         /\ Len(input) \in Nat
         /\ input[i] \in Token
BY InputsAssumption, ElementOfSeq, LenProperties DEF TypeOK

\* What is read of a primary is one of a tree; a bracket is read as it is.
LEMMA LiteralOfToken ==
  ASSUME NEW t \in Token
  PROVE  /\ t.kind \in PrimaryKinds => Literal(t) \in Parsed
         /\ t.kind \in Punctuation => Literal(t) = t /\ t = Mark(t.kind)
<1>1. CASE t \in [kind : PrimaryKinds, arg : Nat]
  BY <1>1, IntegerAssumption
     DEF PrimaryKinds, Punctuation, Literal, Parsed
<1>2. CASE t \in [kind : Punctuation, arg : {0}]
  BY <1>2 DEF PrimaryKinds, Punctuation, Literal, Mark
<1> QED  BY <1>1, <1>2 DEF Token

\* The initial states satisfy the invariant.
LEMMA InitInv == Init => Inv
<1> SUFFICES ASSUME Init PROVE Inv
  OBVIOUS
<1>1. /\ input \in Seq(Token)
      /\ Len(input) \in Nat
  BY InputsAssumption, LenProperties DEF Init
<1>2. /\ chain \in Seq(Parsed)
      /\ lhs \in Seq(Parsed)
      /\ Len(chain) = 0
  BY EmptySeq DEF Init
<1>3. TypeOK
  BY <1>1, <1>2 DEF Init, TypeOK
<1>4. Progress
  BY <1>2 DEF Init, Progress, Start, Reads, Opens
<1> QED  BY <1>3, <1>4 DEF Inv

\* Reading on preserves it: one step per action.
LEMMA NextInv == Inv /\ [Next]_vars => Inv'
<1> SUFFICES ASSUME Inv, [Next]_vars PROVE Inv'
  OBVIOUS
<1> USE DEF Inv, vars
<1>t. /\ TypeOK
      /\ Progress
  OBVIOUS
<1>l. /\ Len(input) \in Nat
      /\ Len(chain) \in Nat
      /\ Len(lhs) \in Nat
      /\ Start \in Nat
      /\ pos \in Nat
      /\ open \in Nat
      /\ lhs # <<>> => Len(lhs) > 0
  <2>1. /\ Len(input) \in Nat
        /\ Len(chain) \in Nat
        /\ Len(lhs) \in Nat
        /\ lhs # <<>> => Len(lhs) > 0
    BY <1>t, InputsAssumption, LenProperties, EmptySeq DEF TypeOK
  <2>2. pos \in Nat /\ open \in Nat
    BY <1>t, <2>1 DEF TypeOK
  <2> QED  BY <2>1, <2>2 DEF Start
<1>1. CASE ParsePrimary
  <2> DEFINE p == Literal(input[pos])
  <2>1. /\ pos \in 1 .. Len(input)
        /\ pc = "expression"
        /\ pc' = "suffix"
        /\ pos' = pos + 1
        /\ chain' = Append(chain, p)
        /\ UNCHANGED <<input, open, lhs>>
        /\ input[pos].kind \in PrimaryKinds
    BY <1>1, <1>t, <1>l DEF ParsePrimary, Sees, IsEOF, Advance, TypeOK
  <2>2. p \in Parsed
    BY <2>1, <1>t, InputToken, LiteralOfToken
  <2> HIDE DEF p
  <2>3. /\ chain' \in Seq(Parsed)
        /\ chain' # <<>>
        /\ Len(chain') = Len(chain) + 1
        /\ \A i \in 1 .. Len(chain) : chain'[i] = chain[i]
        /\ chain'[Len(chain) + 1] = p
    BY <2>1, <2>2, <1>t, AppendProperties DEF TypeOK
  <2>4. TypeOK'
    BY <2>1, <2>3, <1>t, <1>l DEF TypeOK
  <2>5. Start' = Start
    BY <2>1 DEF Start
  <2>6. /\ pos = Start + 2 * Len(chain) + 1
        /\ open = Len(chain)
        /\ Opens(Start, Len(chain))
        /\ Reads(chain, Start)
    BY <1>t, <2>1 DEF Progress
  <2>7. Reads(chain, Start)'
    <3> SUFFICES ASSUME NEW k \in 1 .. Len(chain) + 1
                 PROVE  Literal(input[Start + 2 * k - 1]) = chain'[k]
      BY <2>1, <2>3, <2>5 DEF Reads, Literal
    <3>1. CASE k \in 1 .. Len(chain)
      BY <3>1, <2>3, <2>6 DEF Reads
    <3>2. CASE k = Len(chain) + 1
      <4>1. Start + 2 * k - 1 = pos
        BY <3>2, <2>6, <1>l
      <4> QED  BY <4>1, <3>2, <2>3 DEF p
    <3> QED  BY <3>1, <3>2, <1>l
  <2>8. (pc = "suffix" => /\ chain # <<>>
                          /\ pos = Start + 2 * Len(chain)
                          /\ open = Len(chain) - 1
                          /\ Opens(Start, Len(chain) - 1))'
    BY <2>1, <2>3, <2>5, <2>6, <1>l DEF Opens
  <2>9. (lhs # <<>> => /\ Whole(lhs, 0)
                       /\ Start < pos
                       /\ input[Start].kind = "=")'
    BY <2>1, <2>5, <1>t, <1>l
       DEF Progress, Whole, Reads, Opens, Closes, Literal
  <2> QED  BY <2>1, <2>4, <2>7, <2>8, <2>9 DEF Progress
<1>2. CASE \/ /\ pc' \in {"error", "aborted"}
              /\ UNCHANGED <<input, pos, open, chain, lhs>>
           \/ UNCHANGED vars
  <2>1. TypeOK'
    BY <1>2, <1>t DEF TypeOK, Outcomes
  <2>2. Start' = Start
    BY <1>2 DEF Start
  <2>3. /\ Reads(chain, Start)'
        /\ (lhs # <<>> => /\ Whole(lhs, 0)
                         /\ Start < pos
                         /\ input[Start].kind = "=")'
    BY <1>2, <1>t, <2>2
       DEF Progress, Whole, Reads, Opens, Closes, Literal
  <2>4. CASE pc' \in {"error", "aborted"}
    BY <2>1, <2>3, <2>4 DEF Progress
  <2>5. CASE UNCHANGED vars
    BY <2>1, <2>2, <2>3, <2>5, <1>t
       DEF Progress, Whole, Reads, Opens, Closes, Literal
  <2> QED  BY <1>2, <2>4, <2>5
<1>3. CASE ParseSuffix
  <2>1. /\ pc = "suffix"
        /\ UNCHANGED <<input, chain, lhs>>
    BY <1>3 DEF ParseSuffix
  <2>2. /\ chain # <<>>
        /\ pos = Start + 2 * Len(chain)
        /\ open = Len(chain) - 1
        /\ Opens(Start, Len(chain) - 1)
        /\ Reads(chain, Start)
    BY <1>t, <2>1 DEF Progress
  <2>3. Start' = Start
    BY <2>1 DEF Start
  <2>4. Reads(chain, Start)'
    BY <2>1, <2>2, <2>3 DEF Reads, Literal
  <2>5. CASE Sees({"["})
    <3>1. /\ pos \in 1 .. Len(input)
          /\ pos' = pos + 1
          /\ open' = open + 1
          /\ pc' = "expression"
          /\ input[pos].kind = "["
      BY <1>3, <2>5, <1>t, <1>l DEF ParseSuffix, Sees, IsEOF, Advance, TypeOK
    <3>2. TypeOK'
      BY <2>1, <3>1, <1>t, <1>l DEF TypeOK
    <3>3. Opens(Start, Len(chain))'
      <4> SUFFICES ASSUME NEW k \in 1 .. Len(chain)
                   PROVE  input[Start + 2 * k].kind = "["
        BY <2>1, <2>3 DEF Opens
      <4>1. CASE k \in 1 .. Len(chain) - 1
        BY <4>1, <2>2 DEF Opens
      <4>2. CASE k = Len(chain)
        BY <4>2, <2>2, <3>1
      <4> QED  BY <4>1, <4>2, <1>l
    <3>4. (lhs # <<>> => /\ Whole(lhs, 0)
                         /\ Start < pos
                         /\ input[Start].kind = "=")'
      BY <2>1, <2>3, <3>1, <1>t, <1>l
         DEF Progress, Whole, Reads, Opens, Closes, Literal
    <3>5. (pc = "expression" => /\ pos = Start + 2 * Len(chain) + 1
                                /\ open = Len(chain)
                                /\ Opens(Start, Len(chain)))'
      BY <2>1, <2>2, <2>3, <3>1, <3>3, <1>l
    <3> QED  BY <2>4, <3>1, <3>2, <3>4, <3>5 DEF Progress
  <2>6. CASE ~Sees({"["})
    <3>1. /\ pc' = "close"
          /\ UNCHANGED <<pos, open>>
      BY <1>3, <2>6 DEF ParseSuffix
    <3>2. TypeOK'
      BY <2>1, <3>1, <1>t DEF TypeOK
    <3>3. (lhs # <<>> => /\ Whole(lhs, 0)
                         /\ Start < pos
                         /\ input[Start].kind = "=")'
      BY <2>1, <2>3, <3>1, <1>t
         DEF Progress, Whole, Reads, Opens, Closes, Literal
    <3>4. /\ pos' = Start' + 3 * Len(chain') - 1 - open'
          /\ open' < Len(chain')
          /\ Opens(Start, Len(chain) - 1)'
      BY <2>1, <2>2, <2>3, <3>1, <1>l DEF Opens
    <3>5. Closes(Start, 2 * Len(chain), 3 * Len(chain) - 2 - open)'
      BY <2>1, <2>2, <2>3, <3>1, <1>l DEF Closes
    <3> QED  BY <2>1, <2>2, <2>4, <3>1, <3>2, <3>3, <3>4, <3>5 DEF Progress
  <2> QED  BY <2>5, <2>6
<1>4. CASE CloseIndex
  <2>1. /\ pc = "close"
        /\ open > 0
        /\ pos \in 1 .. Len(input)
        /\ pos' = pos + 1
        /\ open' = open - 1
        /\ input[pos].kind = "]"
        /\ UNCHANGED <<input, pc, chain, lhs>>
    BY <1>4, <1>t, <1>l DEF CloseIndex, Sees, IsEOF, Advance, TypeOK
  <2>2. /\ chain # <<>>
        /\ pos = Start + 3 * Len(chain) - 1 - open
        /\ open < Len(chain)
        /\ Opens(Start, Len(chain) - 1)
        /\ Closes(Start, 2 * Len(chain), 3 * Len(chain) - 2 - open)
        /\ Reads(chain, Start)
    BY <1>t, <2>1 DEF Progress
  <2>3. Start' = Start
    BY <2>1 DEF Start
  <2>4. TypeOK'
    BY <2>1, <1>t, <1>l DEF TypeOK
  <2>5. Closes(Start, 2 * Len(chain), 3 * Len(chain) - 2 - open)'
    <3> SUFFICES ASSUME NEW k \in 2 * Len(chain) .. 3 * Len(chain) - 1 - open
                 PROVE  input[Start + k].kind = "]"
      BY <2>1, <2>3, <1>l DEF Closes
    <3>1. CASE k \in 2 * Len(chain) .. 3 * Len(chain) - 2 - open
      BY <3>1, <2>2 DEF Closes
    <3>2. CASE k = 3 * Len(chain) - 1 - open
      <4>1. Start + k = pos
        BY <3>2, <2>2, <1>l
      <4> QED  BY <4>1, <2>1
    <3> QED  BY <3>1, <3>2, <1>l
  <2>6. /\ Reads(chain, Start)'
        /\ Opens(Start, Len(chain) - 1)'
    BY <2>1, <2>2, <2>3 DEF Reads, Opens, Literal
  <2>7. (lhs # <<>> => /\ Whole(lhs, 0)
                       /\ Start < pos
                       /\ input[Start].kind = "=")'
    BY <2>1, <2>3, <1>t, <1>l
       DEF Progress, Whole, Reads, Opens, Closes, Literal
  <2>8. /\ pos' = Start' + 3 * Len(chain') - 1 - open'
        /\ open' < Len(chain')
    BY <2>1, <2>2, <2>3, <1>l
  <2> QED  BY <2>1, <2>2, <2>4, <2>5, <2>6, <2>7, <2>8 DEF Progress
<1>5. CASE ParseAssignment
  <2>1. /\ pc = "close"
        /\ open = 0
        /\ lhs = <<>>
        /\ pos \in 1 .. Len(input)
        /\ pos' = pos + 1
        /\ lhs' = chain
        /\ chain' = <<>>
        /\ pc' = "expression"
        /\ input[pos].kind = "="
        /\ UNCHANGED <<input, open>>
    BY <1>5, <1>t, <1>l DEF ParseAssignment, Sees, IsEOF, Advance, TypeOK
  <2>2. /\ chain # <<>>
        /\ pos = 3 * Len(chain) - 1
        /\ Opens(0, Len(chain) - 1)
        /\ Closes(0, 2 * Len(chain), 3 * Len(chain) - 2)
        /\ Reads(chain, 0)
    BY <1>t, <2>1, <1>l DEF Progress, Start
  <2>3. Start' = pos
    BY <2>1, <2>2 DEF Start
  <2>4. /\ <<>> \in Seq(Parsed)
        /\ Len(<<>>) = 0
    BY EmptySeq
  <2>5. TypeOK'
    BY <2>1, <2>4, <1>t, <1>l DEF TypeOK
  <2>6. (lhs # <<>> => /\ Whole(lhs, 0)
                       /\ Start < pos
                       /\ input[Start].kind = "=")'
    BY <2>1, <2>2, <2>3, <1>l DEF Whole, Reads, Opens, Closes, Literal
  <2>7. /\ Reads(chain, Start)'
        /\ Opens(Start, Len(chain))'
        /\ Len(chain') = 0
    BY <2>1, <2>4 DEF Reads, Opens
  <2>8. pos' = Start' + 2 * Len(chain') + 1 /\ open' = Len(chain')
    BY <2>1, <2>3, <2>7, <1>l
  <2> QED  BY <2>1, <2>5, <2>6, <2>7, <2>8 DEF Progress
<1>6. CASE Finish /\ IsEOF
  <2>1. /\ pc = "close"
        /\ open = 0
        /\ pc' = "parsed"
        /\ pos > Len(input)
        /\ UNCHANGED <<input, pos, open, chain, lhs>>
    BY <1>6 DEF Finish, IsEOF
  <2>2. /\ chain # <<>>
        /\ pos = Start + 3 * Len(chain) - 1
        /\ pos = Len(input) + 1
        /\ Whole(chain, Start)
    BY <1>t, <2>1, <1>l DEF Progress, TypeOK, Whole
  <2>3. Start' = Start
    BY <2>1 DEF Start
  <2>4. TypeOK'
    BY <2>1, <1>t DEF TypeOK, Outcomes
  <2>5. (lhs # <<>> => /\ Whole(lhs, 0)
                       /\ Start < pos
                       /\ input[Start].kind = "=")'
    BY <2>1, <2>3, <1>t DEF Progress, Whole, Reads, Opens, Closes, Literal
  <2>6. Whole(chain, Start)'
    BY <2>1, <2>2, <2>3 DEF Whole, Reads, Opens, Closes, Literal
  <2> QED  BY <2>1, <2>2, <2>3, <2>4, <2>5, <2>6 DEF Progress, Whole
<1> QED
  BY <1>1, <1>2, <1>3, <1>4, <1>5, <1>6
     DEF Next, RejectPrimary, RejectUnclosed, AssertClosed, Finish, Fail, Ended

\* The invariant holds throughout.
LEMMA InvAlways == Spec => []Inv
BY InitInv, NextInv, PTL DEF Spec

\* The types of the parser: the position stays within the line or at its end,
\* and a tree only has primaries the evaluator knows, its numbers in range.
THEOREM ParserTyped == Spec => []TypeOK
<1>1. Inv => TypeOK
  BY DEF Inv
<1> QED  BY <1>1, InvAlways, PTL

-----------------------------------------------------------------------------
(* What has been parsed, spelled again. *)

\* The tokens of an expression that has been read.
LEMMA WholeSpells ==
  ASSUME TypeOK,
         NEW ps \in Seq(Parsed), ps # <<>>,
         NEW s \in Nat, s + 3 * Len(ps) - 2 <= Len(input),
         Whole(ps, s)
  PROVE  /\ Spelling(ps) \in Seq(Token)
         /\ Len(Spelling(ps)) = 3 * Len(ps) - 2
         /\ \A i \in 1 .. 3 * Len(ps) - 2 :
              Spelling(ps)[i] = Literal(input[s + i])
<1> DEFINE n == Len(ps)
<1>1. /\ n \in Nat \ {0}
      /\ Len(input) \in Nat
  BY LenProperties, EmptySeq, InputsAssumption DEF TypeOK
<1>2. ASSUME NEW i \in 1 .. 3 * n - 2
      PROVE  /\ TokenOf(ps, i) = Literal(input[s + i])
             /\ TokenOf(ps, i) \in Token
  <2>1. s + i \in 1 .. Len(input)
    BY <1>1
  <2>2. /\ input[s + i] \in Token
        /\ input[s + i].kind \in Punctuation =>
             /\ Literal(input[s + i]) = input[s + i]
             /\ input[s + i] = Mark(input[s + i].kind)
    BY <2>1, InputToken, LiteralOfToken
  <2>3. CASE i > 2 * n - 1
    <3>1. input[s + i].kind = "]"
      BY <2>3, <1>1 DEF Whole, Closes
    <3> QED  BY <3>1, <2>2, <2>3 DEF TokenOf, Punctuation
  <2>4. CASE i <= 2 * n - 1 /\ i % 2 = 0
    <3>1. PICK k \in 1 .. n - 1 : i = 2 * k
      <4>1. i \div 2 \in 1 .. n - 1 /\ i = 2 * (i \div 2)
        BY <2>4, <1>1
      <4> QED  BY <4>1
    <3>2. input[s + i].kind = "["
      BY <3>1 DEF Whole, Opens
    <3> QED  BY <3>2, <2>2, <2>4, <1>1 DEF TokenOf, Punctuation
  <2>5. CASE i <= 2 * n - 1 /\ i % 2 # 0
    <3> DEFINE k == (i + 1) \div 2
    <3>1. k \in 1 .. n /\ i = 2 * k - 1
      BY <2>5, <1>1
    <3>2. TokenOf(ps, i) = ps[k]
      BY <2>5, <1>1 DEF TokenOf
    <3> HIDE DEF k
    <3>3. Literal(input[s + 2 * k - 1]) = ps[k]
      BY <3>1 DEF Whole, Reads
    <3>4. s + 2 * k - 1 = s + i
      BY <3>1
    <3>5. ps[k] \in Parsed
      BY <3>1, ElementOfSeq
    <3>6. ps[k] \in Token
      BY <3>5, IntegerAssumption DEF Parsed, Token, PrimaryKinds
    <3> QED  BY <3>2, <3>3, <3>4, <3>6
  <2> QED  BY <2>3, <2>4, <2>5, <1>1
<1> DEFINE f == Spelling(ps)
<1>3. /\ 3 * n - 2 \in Nat
      /\ f \in [1 .. 3 * n - 2 -> Token]
      /\ \A i \in 1 .. 3 * n - 2 : f[i] = Literal(input[s + i])
  BY <1>1, <1>2 DEF Spelling
<1> HIDE DEF f, n
<1>4. f \in Seq(Token)
  BY <1>3
<1>5. Len(f) = 3 * n - 2
  BY <1>3, <1>4, LenProperties
<1> QED  BY <1>3, <1>4, <1>5 DEF f, n

\* ParsesBack, for every set of inputs: the tree of a line that was accepted
\* spells that line, token by token, numbers that are too large excepted.
THEOREM ParsesBackAlways == Spec => []ParsesBack
<1>1. Inv => ParsesBack
  <2> SUFFICES ASSUME Inv, pc = "parsed"
               PROVE  LineSpelling(lhs, chain)
                        = [i \in 1 .. Len(input) |-> Literal(input[i])]
    BY DEF ParsesBack
  <2>t. TypeOK /\ Progress
    BY DEF Inv
  <2>l. /\ Len(input) \in Nat
        /\ Len(chain) \in Nat \ {0}
        /\ Len(lhs) \in Nat
        /\ lhs # <<>> => Len(lhs) > 0
        /\ chain # <<>>
    BY <2>t, InputsAssumption, LenProperties, EmptySeq DEF TypeOK, Progress
  <2>p. /\ Start \in Nat
        /\ Len(input) = Start + 3 * Len(chain) - 2
        /\ Whole(chain, Start)
    <3>1. Start \in Nat
      BY <2>l DEF Start
    <3>2. /\ pos = Start + 3 * Len(chain) - 1
          /\ pos = Len(input) + 1
          /\ Whole(chain, Start)
      BY <2>t DEF Progress
    <3> QED  BY <2>l, <3>1, <3>2
  <2>1. /\ Spelling(chain) \in Seq(Token)
        /\ Len(Spelling(chain)) = 3 * Len(chain) - 2
        /\ \A i \in 1 .. 3 * Len(chain) - 2 :
             Spelling(chain)[i] = Literal(input[Start + i])
    BY <2>t, <2>l, <2>p, WholeSpells DEF TypeOK
  <2> DEFINE r == Spelling(chain)
             m == 3 * Len(chain) - 2
             g == LineSpelling(lhs, chain)
  <2> SUFFICES /\ g \in Seq(Token)
               /\ Len(g) = Len(input)
               /\ \A i \in 1 .. Len(input) : g[i] = Literal(input[i])
    <3>1. /\ DOMAIN g = 1 .. Len(input)
          /\ g = [i \in 1 .. Len(input) |-> g[i]]
      <4> HIDE DEF g
      <4>1. g \in [1 .. Len(g) -> Token]
        BY LenProperties
      <4> QED  BY <4>1
    <3> HIDE DEF g
    <3>2. g = [i \in 1 .. Len(input) |-> Literal(input[i])]
      BY <3>1
    <3> QED  BY <3>2 DEF g
  <2>2. CASE lhs = <<>>
    <3>1. g = r /\ Start = 0
      BY <2>2 DEF LineSpelling, Start
    <3> QED  BY <3>1, <2>1, <2>p, <2>l
  <2>3. CASE lhs # <<>>
    <3> DEFINE q == Spelling(lhs)
               k == 3 * Len(lhs) - 2
               e == Mark("=")
    <3>1. /\ q \in Seq(Token)
          /\ Len(q) = k
          /\ \A i \in 1 .. k : q[i] = Literal(input[i])
      <4>1. Whole(lhs, 0) /\ Start = k + 1
        BY <2>3, <2>t DEF Progress, Start
      <4> QED  BY <4>1, <2>t, <2>l, <2>p, <2>3, WholeSpells DEF TypeOK
    <3>2. /\ Start = k + 1
          /\ k \in Nat
          /\ Start \in 1 .. Len(input)
      BY <2>3, <2>l, <2>p DEF Start
    <3>3. /\ e \in Token
          /\ Literal(input[Start]) = e
      <4>1. input[Start].kind = "="
        BY <2>3, <2>t DEF Progress
      <4> QED  BY <4>1, <3>2, <2>t, InputToken, LiteralOfToken
               DEF Punctuation
    <3>4. g = q \o <<e>> \o r
      BY <2>3 DEF LineSpelling
    <3> HIDE DEF q, r, g, e, k, m
    <3>5. q \o <<e>> = Append(q, e)
      BY <3>1, <3>3, AppendIsConcat
    <3> DEFINE a == Append(q, e)
    <3>6. /\ a \in Seq(Token)
          /\ Len(a) = k + 1
          /\ \A i \in 1 .. k : a[i] = q[i]
          /\ a[k + 1] = e
      BY <3>1, <3>3, AppendProperties
    <3> HIDE DEF a
    <3>7. /\ g \in Seq(Token)
          /\ Len(g) = Len(a) + Len(r)
          /\ \A i \in 1 .. Len(a) + Len(r) :
               g[i] = IF i <= Len(a) THEN a[i] ELSE r[i - Len(a)]
      <4>1. g = a \o r
        BY <3>4, <3>5 DEF a
      <4>2. r \in Seq(Token)
        BY <2>1 DEF r
      <4>3. /\ a \o r \in Seq(Token)
            /\ Len(a \o r) = Len(a) + Len(r)
            /\ \A i \in 1 .. Len(a) + Len(r) :
                 (a \o r)[i] = IF i <= Len(a) THEN a[i] ELSE r[i - Len(a)]
        BY <4>2, <3>6, ConcatProperties
      <4> HIDE <3>4, <3>5, <3>6
      <4> QED  BY <4>1, <4>3, Zenon
    <3>8. Len(r) = m /\ m \in Nat /\ Len(input) = k + 1 + m
      BY <2>1, <2>p, <2>l, <3>2 DEF r, m
    <3>9. ASSUME NEW i \in 1 .. Len(input)
          PROVE  g[i] = Literal(input[i])
      <4>1. CASE i \in 1 .. k
        BY <4>1, <3>1, <3>2, <3>6, <3>7, <3>8
      <4>2. CASE i = k + 1
        BY <4>2, <3>2, <3>3, <3>6, <3>7, <3>8
      <4>3. CASE i > k + 1
        <5>1. i - (k + 1) \in 1 .. m /\ Start + (i - (k + 1)) = i
          BY <4>3, <3>2, <3>8
        <5>2. g[i] = r[i - (k + 1)]
          BY <4>3, <3>2, <3>6, <3>7, <3>8
        <5>3. \A j \in 1 .. m : r[j] = Literal(input[Start + j])
          BY <2>1 DEF r, m
        <5> QED  BY <5>1, <5>2, <5>3
      <4> QED  BY <4>1, <4>2, <4>3, <3>2
    <3> QED  BY <3>6, <3>7, <3>8, <3>9
  <2> QED  BY <2>2, <2>3
<1> QED  BY <1>1, InvAlways, PTL

-----------------------------------------------------------------------------
(***************************************************************************)
(* What is turned down.  In a line of the grammar the expression that is   *)
(* being parsed has a number of primaries, and what has been read agrees   *)
(* with it up to the current token; so the parser finds what it looks for. *)
(***************************************************************************)

\* The tokens after the s-th spell an expression of n primaries.
Expression(s, n) ==
  /\ n \in Nat \ {0}
  /\ s + 3 * n - 2 <= Len(input)
  /\ \A k \in 1 .. n : IsPrimary(input[s + 2 * k - 1])
  /\ Opens(s, n - 1)
  /\ Closes(s, 2 * n, 3 * n - 2)

\* What may follow an expression: the end, or the equals sign after the first.
Followed(s, n) ==
  \/ Len(input) = s + 3 * n - 2
  \/ /\ lhs = <<>>
     /\ s + 3 * n - 1 <= Len(input)
     /\ input[s + 3 * n - 1].kind = "="

\* An expression is closed only when no bracket opens another index.
Sought == pc = "close" => ~(/\ Start + 2 * Len(chain) <= Len(input)
                            /\ input[Start + 2 * Len(chain)].kind = "[")

LEMMA SpelledExpression ==
  ASSUME NEW ts \in Seq(Token), NEW s \in Nat, Len(input) \in Nat,
         s + Len(ts) <= Len(input),
         \A i \in 1 .. Len(ts) : ts[i] = input[s + i],
         IsExpression(ts)
  PROVE  \E n : Expression(s, n) /\ Len(ts) = 3 * n - 2
<1> DEFINE L == Len(ts)
           n == (L + 2) \div 3
           ps == Operands(ts)
<1>1. L \in Nat /\ DOMAIN ts = 1 .. L
  BY LenProperties
<1>2. n \in Nat /\ 3 * n <= L + 2
  <2> HIDE DEF L
  <2> QED BY <1>1
<1>3. ps = [k \in 1 .. n |-> ts[2 * k - 1]]
  BY DEF Operands
<1>4. ps # <<>> /\ (\A k \in DOMAIN ps : IsPrimary(ps[k])) /\ ts = Spelling(ps)
  BY DEF IsExpression
<1>5. \A k \in 1 .. n : 2 * k - 1 \in 1 .. L
  <2> HIDE DEF L, n
  <2> QED BY <1>1, <1>2
<1> HIDE DEF L, n, ps
<1>6. ps \in Seq(Token) /\ Len(ps) = n
  <2>1. \A k \in 1 .. n : ts[2 * k - 1] \in Token
    BY <1>5, ElementOfSeq DEF L
  <2>2. ps \in [1 .. n -> Token]
    BY <1>3, <2>1
  <2>3. ps \in Seq(Token)
    BY <1>2, <2>2, SeqDef
  <2> QED BY <1>2, <2>2, <2>3, LenProperties
<1>7. n # 0
  BY <1>4, <1>6, EmptySeq
<1>8. /\ DOMAIN ts = 1 .. 3 * n - 2
      /\ \A i \in 1 .. 3 * n - 2 : ts[i] = TokenOf(ps, i)
  BY <1>4, <1>6 DEF Spelling
<1>9. L = 3 * n - 2
  BY <1>1, <1>2, <1>7, <1>8
<1>10. \A i \in 1 .. 3 * n - 2 : input[s + i] = TokenOf(ps, i)
  BY <1>8, <1>9 DEF L
<1>11. ASSUME NEW k \in 1 .. n
       PROVE  IsPrimary(input[s + 2 * k - 1])
  <2>1. /\ 2 * k - 1 \in 1 .. 3 * n - 2 /\ s + 2 * k - 1 = s + (2 * k - 1)
        /\ ~(2 * k - 1 > 2 * n - 1) /\ (2 * k - 1) % 2 # 0 /\ (2 * k - 1 + 1) \div 2 = k
    BY <1>2
  <2>2. TokenOf(ps, 2 * k - 1) = ps[k]
    BY <1>6, <2>1 DEF TokenOf
  <2>3. IsPrimary(ps[k])
    BY <1>3, <1>4
  <2> QED BY <1>10, <2>1, <2>2, <2>3
<1>12. ASSUME NEW k \in 1 .. n - 1
       PROVE  input[s + 2 * k].kind = "["
  <2>1. 2 * k \in 1 .. 3 * n - 2 /\ ~(2 * k > 2 * n - 1) /\ (2 * k) % 2 = 0
    BY <1>2
  <2>2. TokenOf(ps, 2 * k) = Mark("[")
    BY <1>6, <2>1 DEF TokenOf
  <2> QED BY <1>10, <2>1, <2>2 DEF Mark
<1>13. ASSUME NEW k \in 2 * n .. 3 * n - 2
       PROVE  input[s + k].kind = "]"
  <2>1. k \in 1 .. 3 * n - 2 /\ k > 2 * n - 1
    BY <1>2, <1>7
  <2>2. TokenOf(ps, k) = Mark("]")
    BY <1>6, <2>1 DEF TokenOf
  <2> QED BY <1>10, <2>1, <2>2 DEF Mark
<1>14. Expression(s, n)
  <2>1. s + 3 * n - 2 <= Len(input)
    BY <1>2, <1>9 DEF L
  <2> QED BY <1>2, <1>7, <1>11, <1>12, <1>13, <2>1 DEF Expression, Opens, Closes
<1> QED BY <1>9, <1>14 DEF L

LEMMA NoEqualsSign ==
  ASSUME NEW s \in Nat, NEW n, Expression(s, n), NEW j \in Int, s < j, j <= s + 3 * n - 2
  PROVE  input[j].kind # "="
<1>1. n \in Nat \ {0}
  BY DEF Expression
<1>2. PICK i \in 1 .. 3 * n - 2 : j = s + i
  <2>1. j - s \in 1 .. 3 * n - 2 /\ j = s + (j - s)
    BY <1>1
  <2> QED BY <2>1
<1>3. CASE i > 2 * n - 1
  <2>1. i \in 2 * n .. 3 * n - 2
    BY <1>1, <1>2, <1>3
  <2>2. input[s + i].kind = "]"
    BY <2>1 DEF Expression, Closes
  <2> QED BY <1>2, <2>2
<1>4. CASE i <= 2 * n - 1 /\ i % 2 = 0
  <2>1. i \div 2 \in 1 .. n - 1 /\ i = 2 * (i \div 2)
    BY <1>1, <1>4
  <2>2. input[s + 2 * (i \div 2)].kind = "["
    BY <2>1 DEF Expression, Opens
  <2> QED BY <1>2, <2>1, <2>2
<1>5. CASE i <= 2 * n - 1 /\ i % 2 # 0
  <2>1. (i + 1) \div 2 \in 1 .. n /\ i = 2 * ((i + 1) \div 2) - 1
    BY <1>1, <1>5
  <2>2. PICK k \in 1 .. n : i = 2 * k - 1
    BY <2>1
  <2>3. IsPrimary(input[s + 2 * k - 1]) /\ s + 2 * k - 1 = j
    BY <1>2, <2>2 DEF Expression
  <2> QED BY <2>3 DEF IsPrimary, PrimaryKinds
<1> QED BY <1>1, <1>2, <1>3, <1>4, <1>5

LEMMA LineAhead ==
  ASSUME TypeOK, Progress, IsLine(input)
  PROVE  \E n : Expression(Start, n) /\ Followed(Start, n)
<1>1. /\ input \in Seq(Token) /\ Len(input) \in Nat
      /\ Len(lhs) \in Nat /\ (lhs # <<>> => Len(lhs) # 0)
      /\ pos \in 1 .. Len(input) + 1
  BY InputsAssumption, LenProperties, EmptySeq DEF TypeOK
<1>2. Start \in Nat /\ (lhs = <<>> => Start = 0)
  BY <1>1 DEF Start
<1>3. lhs # <<>> => /\ Start \in 1 .. Len(input)
                    /\ input[Start].kind = "="
  BY <1>1, <1>2 DEF Progress, Start
<1>4. CASE IsExpression(input)
  <2>1. 0 \in Nat /\ 0 + Len(input) <= Len(input) /\ \A i \in 1 .. Len(input) : 0 + i = i
    BY <1>1
  <2>2. PICK n : Expression(0, n) /\ Len(input) = 3 * n - 2
    BY <1>1, <1>4, <2>1, SpelledExpression
  <2>3. n \in Nat
    BY <2>2 DEF Expression
  <2>4. lhs = <<>>
    <3>1. ASSUME lhs # <<>>
          PROVE  FALSE
      <4>1. Start \in Int /\ 0 < Start /\ Start <= 0 + 3 * n - 2
        BY <1>3, <2>2, <2>3, <3>1
      <4> QED BY <1>3, <2>1, <2>2, <3>1, <4>1, NoEqualsSign
    <3> QED BY <3>1
  <2>5. Followed(0, n)
    BY <2>2, <2>3 DEF Followed
  <2> QED BY <1>2, <2>2, <2>4, <2>5
<1>5. ASSUME NEW i \in 1 .. Len(input), input[i] = Mark("="),
             IsExpression(SubSeq(input, 1, i - 1)),
             IsExpression(SubSeq(input, i + 1, Len(input)))
      PROVE  \E n : Expression(Start, n) /\ Followed(Start, n)
  <2> DEFINE l == SubSeq(input, 1, i - 1)
             r == SubSeq(input, i + 1, Len(input))
  <2>1. \A k \in 1 .. Len(input) : input[k] \in Token
    BY <1>1, ElementOfSeq
  <2>2. /\ l \in Seq(Token) /\ Len(l) = i - 1
        /\ \A k \in 1 .. i - 1 : l[k] = input[k]
    <3>1. 1 \in Int /\ i - 1 \in Int /\ \A k \in 1 .. i - 1 : k \in 1 .. Len(input)
      BY <1>1
    <3>2. /\ l \in Seq(Token)
          /\ Len(l) = IF 1 <= i - 1 THEN i - 1 - 1 + 1 ELSE 0
          /\ \A k \in 1 .. i - 1 - 1 + 1 : l[k] = input[1 + k - 1]
      BY <2>1, <3>1, SubSeqProperties
    <3>3. /\ i - 1 - 1 + 1 = i - 1
          /\ (IF 1 <= i - 1 THEN i - 1 - 1 + 1 ELSE 0) = i - 1
          /\ \A k \in 1 .. i - 1 : 1 + k - 1 = k
      BY <1>1
    <3> HIDE DEF l
    <3> QED BY <3>2, <3>3
  <2>3. /\ r \in Seq(Token) /\ Len(r) = Len(input) - i
        /\ \A k \in 1 .. Len(input) - i : r[k] = input[i + k]
    <3>1. i + 1 \in Int /\ Len(input) \in Int /\ \A k \in i + 1 .. Len(input) : k \in 1 .. Len(input)
      BY <1>1
    <3>2. /\ r \in Seq(Token)
          /\ Len(r) = IF i + 1 <= Len(input) THEN Len(input) - (i + 1) + 1 ELSE 0
          /\ \A k \in 1 .. Len(input) - (i + 1) + 1 : r[k] = input[i + 1 + k - 1]
      BY <2>1, <3>1, SubSeqProperties
    <3>3. /\ Len(input) - (i + 1) + 1 = Len(input) - i
          /\ (IF i + 1 <= Len(input) THEN Len(input) - (i + 1) + 1 ELSE 0) = Len(input) - i
          /\ \A k \in 1 .. Len(input) - i : i + 1 + k - 1 = i + k
      BY <1>1
    <3> HIDE DEF r
    <3> QED BY <3>2, <3>3
  <2> HIDE DEF l, r
  <2>4. PICK m : Expression(0, m) /\ i - 1 = 3 * m - 2
    <3>1. IsExpression(l)
      BY <1>5 DEF l
    <3>2. 0 \in Nat /\ 0 + Len(l) <= Len(input) /\ \A k \in 1 .. Len(l) : l[k] = input[0 + k]
      BY <1>1, <2>2
    <3> QED BY <1>1, <2>2, <3>1, <3>2, SpelledExpression
  <2>5. PICK n : Expression(i, n) /\ Len(input) - i = 3 * n - 2
    <3>1. IsExpression(r)
      BY <1>5 DEF r
    <3>2. i \in Nat /\ i + (Len(input) - i) <= Len(input)
      BY <1>1
    <3>3. i + Len(r) <= Len(input) /\ \A k \in 1 .. Len(r) : r[k] = input[i + k]
      BY <2>3, <3>2
    <3> QED BY <1>1, <2>3, <3>1, <3>2, <3>3, SpelledExpression
  <2>6. m \in Nat /\ n \in Nat
    BY <2>4, <2>5 DEF Expression
  <2>7. CASE lhs = <<>>
    <3>1. 0 + 3 * m - 1 = i
      BY <2>4, <2>6
    <3>2. Followed(0, m)
      BY <1>1, <1>5, <2>7, <3>1 DEF Followed, Mark
    <3> QED BY <1>2, <2>4, <2>7, <3>2
  <2>8. CASE lhs # <<>>
    <3>1. ~(Start < i)
      <4>1. ASSUME Start < i
            PROVE  Start \in Int /\ 0 < Start /\ Start <= 0 + 3 * m - 2
        BY <1>3, <2>4, <2>6, <2>8, <4>1
      <4> QED BY <1>3, <2>4, <2>8, <4>1, NoEqualsSign
    <3>2. ~(i < Start)
      <4>1. ASSUME i < Start
            PROVE  Start \in Int /\ i \in Nat /\ Start <= i + 3 * n - 2
        BY <1>1, <1>3, <2>5, <2>6, <2>8, <4>1
      <4> QED BY <1>3, <2>5, <2>8, <4>1, NoEqualsSign
    <3>3. Start = i
      BY <1>2, <3>1, <3>2
    <3>4. Len(input) = i + 3 * n - 2
      BY <1>1, <2>5, <2>6
    <3> QED BY <2>5, <3>3, <3>4 DEF Followed
  <2> QED BY <2>7, <2>8
<1> QED BY <1>4, <1>5 DEF IsLine

LEMMA SoughtStep ==
  ASSUME TypeOK, Progress, Sought, [Next]_vars
  PROVE  Sought'
<1>1. CASE ParseSuffix
  <2>1. SUFFICES ASSUME pc' = "close"
                 PROVE  ~(/\ Start + 2 * Len(chain) <= Len(input)
                          /\ input[Start + 2 * Len(chain)].kind = "[")
    BY <1>1 DEF Sought, ParseSuffix, Start
  <2>2. ~Sees({"["}) /\ pos = Start + 2 * Len(chain)
    BY <1>1, <2>1 DEF ParseSuffix, Progress
  <2>3. pos \in Nat /\ Len(input) \in Nat
    BY InputsAssumption, LenProperties DEF TypeOK
  <2> QED BY <2>2, <2>3 DEF Sees, IsEOF
<1>2. CASE CloseIndex
  BY <1>2 DEF CloseIndex, Sought, Start
<1>3. CASE UNCHANGED vars
  BY <1>3 DEF vars, Sought, Start
<1> QED BY <1>1, <1>2, <1>3 DEF Next, ParsePrimary, RejectPrimary, RejectUnclosed, AssertClosed,
                                Fail, ParseAssignment, Finish, Ended, Outcomes, Sought

\* In a line of the grammar, no more brackets were read than it has.
LEMMA WithinExpression ==
  ASSUME NEW s \in Nat, NEW n, Expression(s, n), Followed(s, n), Len(input) \in Nat,
         NEW k \in Nat, Opens(s, k), s + 2 * k <= Len(input)
  PROVE  k < n
<1>1. n \in Nat \ {0}
  BY DEF Expression
<1>2. ASSUME n <= k
      PROVE  FALSE
  <2>1. n \in 1 .. k /\ s + 2 * n <= Len(input)
    BY <1>1, <1>2
  <2>2. input[s + 2 * n].kind = "["
    BY <2>1 DEF Opens
  <2>3. CASE n = 1
    BY <2>1, <2>2, <2>3 DEF Followed
  <2>4. CASE n # 1
    <3>1. 2 * n \in 2 * n .. 3 * n - 2
      BY <1>1, <2>4
    <3> QED BY <2>2, <3>1 DEF Expression, Closes
  <2> QED BY <2>3, <2>4
<1> QED BY <1>1, <1>2

LEMMA NothingTurnedDown ==
  ASSUME TypeOK, Progress, Sought, IsLine(input), [Next]_vars, pc \notin {"error", "aborted"}
  PROVE  pc' \notin {"error", "aborted"}
<1> DEFINE c == Len(chain)
<1>1. /\ Len(input) \in Nat /\ c \in Nat
      /\ pos \in 1 .. Len(input) + 1 /\ open \in Nat
  BY InputsAssumption, LenProperties DEF TypeOK
<1>2. Start \in Nat
  <2>1. Len(lhs) \in Nat /\ (lhs # <<>> => Len(lhs) # 0)
    BY LenProperties, EmptySeq DEF TypeOK
  <2> QED BY <2>1 DEF Start
<1>3. PICK n : Expression(Start, n) /\ Followed(Start, n)
  BY LineAhead
<1>4. n \in Nat \ {0} /\ Start + 3 * n - 2 <= Len(input)
  BY <1>3 DEF Expression
<1> HIDE DEF c
<1>5. pc = "expression" => Sees(PrimaryKinds)
  <2> SUFFICES ASSUME pc = "expression"
               PROVE  Sees(PrimaryKinds)
    OBVIOUS
  <2>1. pos = Start + 2 * c + 1 /\ Opens(Start, c)
    BY DEF Progress, c
  <2>2. Start + 2 * c <= Len(input)
    BY <1>1, <1>2, <2>1
  <2>3. c < n
    BY <1>1, <1>2, <1>3, <2>1, <2>2, WithinExpression
  <2>4. /\ c + 1 \in 1 .. n
        /\ pos = Start + 2 * (c + 1) - 1
        /\ pos <= Len(input)
    BY <1>1, <1>2, <1>4, <2>1, <2>3
  <2>5. IsPrimary(input[Start + 2 * (c + 1) - 1])
    BY <1>3, <2>4 DEF Expression
  <2> QED BY <1>1, <2>4, <2>5 DEF IsPrimary, Sees, IsEOF
<1>6. ASSUME pc = "close"
      PROVE  /\ pos = Start + 3 * n - 1 - open
             /\ open < n
  <2>1. /\ c # 0 /\ pos = Start + 3 * c - 1 - open /\ open < c
        /\ Opens(Start, c - 1)
    BY <1>6, EmptySeq DEF Progress, TypeOK, c
  <2>2. c - 1 \in Nat /\ Start + 2 * (c - 1) <= Len(input)
    BY <1>1, <1>2, <2>1
  <2>3. c - 1 < n
    BY <1>1, <1>2, <1>3, <2>1, <2>2, WithinExpression
  <2>4. ~(c < n)
    <3>1. ASSUME c < n
          PROVE  c \in 1 .. n - 1 /\ Start + 2 * c <= Len(input)
      BY <1>1, <1>2, <1>4, <2>1, <3>1
    <3>2. ASSUME c < n
          PROVE  input[Start + 2 * c].kind = "["
      BY <1>3, <3>1, <3>2 DEF Expression, Opens
    <3> QED BY <1>6, <3>1, <3>2 DEF Sought, c
  <2>5. c = n
    BY <1>1, <1>4, <2>3, <2>4
  <2> QED BY <2>1, <2>5
<1>7. pc = "close" /\ open > 0 => Sees({"]"}) /\ ~IsEOF
  <2> SUFFICES ASSUME pc = "close", open > 0
               PROVE  Sees({"]"}) /\ ~IsEOF
    OBVIOUS
  <2>1. /\ 3 * n - 1 - open \in 2 * n .. 3 * n - 2
        /\ pos = Start + (3 * n - 1 - open)
        /\ pos <= Len(input)
    BY <1>1, <1>2, <1>4, <1>6
  <2>2. input[Start + (3 * n - 1 - open)].kind = "]"
    BY <1>3, <2>1 DEF Expression, Closes
  <2> QED BY <1>1, <2>1, <2>2 DEF Sees, IsEOF
<1>8. pc = "close" /\ open = 0 => IsEOF \/ (lhs = <<>> /\ Sees({"="}))
  <2> SUFFICES ASSUME pc = "close", open = 0
               PROVE  IsEOF \/ (lhs = <<>> /\ Sees({"="}))
    OBVIOUS
  <2>1. pos = Start + 3 * n - 1
    BY <1>2, <1>4, <1>6
  <2>2. CASE Len(input) = Start + 3 * n - 2
    BY <1>1, <1>2, <1>4, <2>1, <2>2 DEF IsEOF
  <2>3. CASE Len(input) # Start + 3 * n - 2
    BY <1>1, <1>2, <1>3, <1>4, <2>1, <2>3 DEF Followed, Sees, IsEOF
  <2> QED BY <2>2, <2>3
<1> QED BY <1>5, <1>7, <1>8 DEF Next, vars, ParsePrimary, RejectPrimary, ParseSuffix, CloseIndex,
          RejectUnclosed, AssertClosed, ParseAssignment, Finish, Ended, Fail, Outcomes

\* What Whole says of the primaries that were read, it says of the input.
LEMMA WholeIsExpression ==
  ASSUME TypeOK, NEW ps \in Seq(Parsed), ps # <<>>, NEW s \in Nat,
         s + 3 * Len(ps) - 2 <= Len(input), Whole(ps, s)
  PROVE  Expression(s, Len(ps))
<1> DEFINE n == Len(ps)
<1>1. n \in Nat \ {0} /\ Len(input) \in Nat
  BY LenProperties, EmptySeq, InputsAssumption DEF TypeOK
<1>2. ASSUME NEW k \in 1 .. n
      PROVE  IsPrimary(input[s + 2 * k - 1])
  <2>1. Literal(input[s + 2 * k - 1]) = ps[k]
    BY <1>2 DEF Whole, Reads
  <2>2. ps[k] \in Parsed
    BY <1>2, ElementOfSeq
  <2>3. s + 2 * k - 1 \in 1 .. Len(input)
    <3> HIDE DEF n
    <3>1. s + 3 * n - 2 <= Len(input)
      BY DEF n
    <3> QED BY <1>1, <1>2, <3>1
  <2>4. input[s + 2 * k - 1] \in Token
    BY <2>3, InputToken
  <2>5. input[s + 2 * k - 1].kind \in Punctuation
          => ps[k].kind \in Punctuation
    BY <2>1, <2>4, LiteralOfToken
  <2> QED
    BY <2>2, <2>4, <2>5 DEF Parsed, Token, Punctuation, PrimaryKinds, IsPrimary
<1> QED
  BY <1>1, <1>2 DEF Whole, Expression

\* The tokens of an expression are the spelling of its primaries.
LEMMA ExpressionSpelled ==
  ASSUME NEW ts \in Seq(Token), NEW s \in Nat, NEW n, Expression(s, n),
         Len(ts) = 3 * n - 2,
         \A i \in 1 .. Len(ts) : ts[i] = input[s + i]
  PROVE  IsExpression(ts)
<1> DEFINE ps == Operands(ts)
<1>1. /\ n \in Nat \ {0}
      /\ 3 * n - 2 \in Nat
      /\ (3 * n - 2 + 2) \div 3 = n
  BY DEF Expression
<1>2. ps = [k \in 1 .. n |-> ts[2 * k - 1]]
  BY <1>1 DEF Operands
<1>3. \A i \in 1 .. 3 * n - 2 : ts[i] \in Token /\ ts[i] = input[s + i]
  BY ElementOfSeq
<1>4. ASSUME NEW k \in 1 .. n
      PROVE  /\ 2 * k - 1 \in 1 .. 3 * n - 2
             /\ ps[k] = ts[2 * k - 1]
             /\ IsPrimary(ps[k])
  <2>1. 2 * k - 1 \in 1 .. 3 * n - 2 /\ s + (2 * k - 1) = s + 2 * k - 1
    BY <1>1
  <2>2. IsPrimary(input[s + 2 * k - 1])
    BY DEF Expression
  <2> HIDE DEF ps
  <2> QED
    BY <1>2, <1>3, <2>1, <2>2
<1> HIDE DEF ps
<1>5. ps \in Seq(Token) /\ Len(ps) = n /\ DOMAIN ps = 1 .. n
  <2>1. ps \in [1 .. n -> Token]
    BY <1>2, <1>3, <1>4
  <2>2. ps \in Seq(Token)
    BY <1>1, <2>1, SeqDef
  <2> QED
    BY <1>1, <2>1, <2>2, LenProperties
<1>6. ps # <<>>
  BY <1>1, <1>5, EmptySeq
<1>7. ASSUME NEW i \in 1 .. 3 * n - 2
      PROVE  ts[i] = TokenOf(ps, i)
  <2>1. CASE i > 2 * n - 1
    <3>1. i \in 2 * n .. 3 * n - 2
      BY <1>1, <2>1
    <3>2. ts[i].kind = "]"
      BY <1>3, <3>1 DEF Expression, Closes
    <3>3. ts[i] = Mark("]")
      BY <1>3, <3>2, LiteralOfToken DEF Punctuation
    <3> QED
      BY <1>5, <2>1, <3>3 DEF TokenOf
  <2>2. CASE ~(i > 2 * n - 1) /\ i % 2 = 0
    <3>1. i \div 2 \in 1 .. n - 1 /\ i = 2 * (i \div 2)
      BY <1>1, <2>2
    <3>2. input[s + 2 * (i \div 2)].kind = "["
      BY <3>1 DEF Expression, Opens
    <3>3. ts[i].kind = "["
      BY <1>3, <3>1, <3>2
    <3>4. ts[i] = Mark("[")
      BY <1>3, <3>3, LiteralOfToken DEF Punctuation
    <3> QED
      BY <1>5, <2>2, <3>4 DEF TokenOf
  <2>3. CASE ~(i > 2 * n - 1) /\ i % 2 # 0
    <3>1. (i + 1) \div 2 \in 1 .. n /\ i = 2 * ((i + 1) \div 2) - 1
      BY <1>1, <2>3
    <3>2. ps[(i + 1) \div 2] = ts[i]
      BY <1>4, <3>1
    <3> QED
      BY <1>5, <2>3, <3>2 DEF TokenOf
  <2> QED
    BY <2>1, <2>2, <2>3
<1>8. ts = Spelling(ps)
  <2>1. ts = [i \in 1 .. 3 * n - 2 |-> ts[i]]
    OBVIOUS
  <2> QED
    BY <1>5, <1>7, <2>1 DEF Spelling
<1>9. \A k \in DOMAIN ps : IsPrimary(ps[k])
  BY <1>4, <1>5
<1> QED
  BY <1>6, <1>8, <1>9 DEF IsExpression, ps

\* A line that was parsed is one of the grammar.
LEMMA ParsedIsLine ==
  ASSUME TypeOK, Progress, pc = "parsed"
  PROVE  IsLine(input)
<1> DEFINE c == Len(chain)
           m == Len(lhs)
           N == Len(input)
<1>1. /\ input \in Seq(Token) /\ N \in Nat
      /\ c \in Nat /\ m \in Nat /\ (lhs # <<>> => m # 0)
  BY InputsAssumption, LenProperties, EmptySeq DEF TypeOK
<1> HIDE DEF c, m, N
<1>2. /\ Start \in Nat
      /\ lhs # <<>> => Start = 3 * m - 1
      /\ lhs = <<>> => Start = 0
  BY <1>1 DEF Start, m
<1>3. /\ Start + 3 * c - 2 = N
      /\ Expression(Start, c)
  <2>1. /\ pos = Start + 3 * c - 1 /\ pos = N + 1
        /\ chain # <<>> /\ Whole(chain, Start)
    BY DEF Progress, c, N
  <2>2. Start + 3 * c - 2 = N
    BY <1>1, <1>2, <2>1
  <2> QED
    BY <1>1, <1>2, <2>1, <2>2, WholeIsExpression DEF TypeOK, c, N
<1>4. c \in Nat \ {0}
  BY <1>3 DEF Expression
<1>5. CASE lhs = <<>>
  <2>1. /\ Len(input) = 3 * c - 2
        /\ \A i \in 1 .. Len(input) : input[i] = input[Start + i]
    BY <1>1, <1>2, <1>3, <1>4, <1>5 DEF N
  <2>2. IsExpression(input)
    BY <1>1, <1>2, <1>3, <2>1, ExpressionSpelled
  <2> QED
    BY <2>2 DEF IsLine
<1>6. CASE lhs # <<>>
  <2> DEFINE l == SubSeq(input, 1, Start - 1)
             r == SubSeq(input, Start + 1, Len(input))
  <2>1. /\ \A k \in 1 .. N : input[k] \in Token
        /\ Start \in 1 .. N
        /\ input[Start] = Mark("=")
    <3>1. Start \in 1 .. N
      BY <1>1, <1>2, <1>3, <1>4, <1>6
    <3>2. input[Start].kind = "="
      BY <1>6 DEF Progress
    <3>3. \A k \in 1 .. N : input[k] \in Token
      BY <1>1, ElementOfSeq DEF N
    <3> QED
      BY <3>1, <3>2, <3>3, LiteralOfToken DEF Punctuation
  <2>2. /\ l \in Seq(Token) /\ Len(l) = Start - 1
        /\ \A k \in 1 .. Start - 1 : l[k] = input[k]
    <3>1. 1 \in Int /\ Start - 1 \in Int /\ \A k \in 1 .. Start - 1 : k \in 1 .. N
      BY <1>1, <2>1
    <3>2. /\ l \in Seq(Token)
          /\ Len(l) = IF 1 <= Start - 1 THEN Start - 1 - 1 + 1 ELSE 0
          /\ \A k \in 1 .. Start - 1 - 1 + 1 : l[k] = input[1 + k - 1]
      BY <2>1, <3>1, SubSeqProperties
    <3>3. /\ Start - 1 - 1 + 1 = Start - 1
          /\ (IF 1 <= Start - 1 THEN Start - 1 - 1 + 1 ELSE 0) = Start - 1
          /\ \A k \in 1 .. Start - 1 : 1 + k - 1 = k
      BY <1>1, <2>1
    <3> HIDE DEF l
    <3> QED BY <3>2, <3>3
  <2>3. /\ r \in Seq(Token) /\ Len(r) = N - Start
        /\ \A k \in 1 .. N - Start : r[k] = input[Start + k]
    <3>1. Start + 1 \in Int /\ N \in Int /\ \A k \in Start + 1 .. N : k \in 1 .. N
      BY <1>1, <1>2
    <3>2. /\ r \in Seq(Token)
          /\ Len(r) = IF Start + 1 <= N THEN N - (Start + 1) + 1 ELSE 0
          /\ \A k \in 1 .. N - (Start + 1) + 1 : r[k] = input[Start + 1 + k - 1]
      BY <2>1, <3>1, SubSeqProperties DEF N
    <3>3. /\ N - (Start + 1) + 1 = N - Start
          /\ (IF Start + 1 <= N THEN N - (Start + 1) + 1 ELSE 0) = N - Start
          /\ \A k \in 1 .. N - Start : Start + 1 + k - 1 = Start + k
      BY <1>1, <2>1
    <3> HIDE DEF r
    <3> QED BY <3>2, <3>3
  <2> HIDE DEF l, r
  <2>4. Expression(0, m)
    <3>1. Whole(lhs, 0)
      BY <1>6 DEF Progress
    <3>2. 0 + 3 * m - 2 <= N
      BY <1>1, <1>2, <1>6, <2>1
    <3> QED
      BY <1>6, <3>1, <3>2, WholeIsExpression DEF TypeOK, m, N
  <2>5. IsExpression(l)
    <3>1. Start - 1 = 3 * m - 2 /\ \A i \in 1 .. Start - 1 : l[i] = input[0 + i]
      BY <1>1, <1>2, <1>6, <2>2
    <3> QED
      BY <2>2, <2>4, <3>1, ExpressionSpelled
  <2>6. IsExpression(r)
    <3>1. N - Start = 3 * c - 2
      BY <1>2, <1>3, <1>4
    <3> QED
      BY <1>2, <1>3, <2>3, <3>1, ExpressionSpelled
  <2> QED
    BY <2>1, <2>5, <2>6 DEF IsLine, l, r, N
<1> QED
  BY <1>5, <1>6

\* AcceptsTheGrammar, for every set of inputs: every line of the grammar, however
\* deep its indices nest, is parsed, and whatever is parsed is such a line; the
\* rest ends in a ParseError or at an assertion (AST.cpp:75-190).
THEOREM ParsesExactlyTheGrammar == Spec => []AcceptsTheGrammar
<1> DEFINE Kept == pc \in {"error", "aborted"} => ~IsLine(input)
           I == Inv /\ Sought /\ Kept
<1>1. Init => I
  BY InitInv DEF Init, Sought
<1>2. I /\ [Next]_vars => I'
  <2> SUFFICES ASSUME I, [Next]_vars
               PROVE  I'
    OBVIOUS
  <2>1. Inv' /\ Sought'
    BY NextInv, SoughtStep DEF Inv
  <2>2. IsLine(input)' = IsLine(input)
    BY DEF Next, vars, ParsePrimary, RejectPrimary, ParseSuffix, CloseIndex, RejectUnclosed,
           AssertClosed, ParseAssignment, Finish, Ended, Fail, IsLine
  <2>3. Kept'
    BY <2>2, NothingTurnedDown DEF Inv
  <2> QED BY <2>1, <2>3
<1>3. I => AcceptsTheGrammar
  BY ParsedIsLine DEF Inv, AcceptsTheGrammar, Outcomes
<1> QED BY <1>1, <1>2, <1>3, PTL DEF Spec

\* AST.cpp:114 as far as it is kept: if every number of a line is a 64-bit
\* integer, the tree holds the numbers that were written.
THEOREM NumbersThatFit ==
  Spec => []((\A i \in DOMAIN input : input[i].kind = "number"
                                         => input[i].arg <= MaxInteger)
               => NumbersAsWritten)
<1>1. Inv /\ ParsesBack =>
        ((\A i \in DOMAIN input : input[i].kind = "number"
                                     => input[i].arg <= MaxInteger)
           => NumbersAsWritten)
  <2> SUFFICES ASSUME Inv, ParsesBack, pc = "parsed",
                      \A i \in DOMAIN input : input[i].kind = "number"
                                                => input[i].arg <= MaxInteger
               PROVE  LineSpelling(lhs, chain) = input
    BY DEF NumbersAsWritten
  <2>1. input \in Seq(Token)
    BY InputsAssumption DEF Inv, TypeOK
  <2>2. DOMAIN input = 1 .. Len(input) /\ input = [i \in 1 .. Len(input) |-> input[i]]
    BY <2>1
  <2>3. ASSUME NEW i \in 1 .. Len(input)
        PROVE  Literal(input[i]) = input[i]
    <3>1. input[i].arg \in Nat
      BY <2>1, <2>3 DEF Token
    <3> QED
      BY <2>2, <3>1, IntegerAssumption DEF Literal
  <2> QED
    BY <2>2, <2>3 DEF ParsesBack
<1> QED
  BY <1>1, InvAlways, ParsesBackAlways, PTL
=============================================================================
