------------------------ MODULE ThreadBindingProofs ------------------------
(***************************************************************************)
(* For any number of threads and any depth of nesting: native attachments  *)
(* match bindings.  The invariant says of each place in the two functions  *)
(* how the counters of a thread there differ from those of one outside.    *)
(***************************************************************************)
EXTENDS ThreadBinding, TLAPS

Between(t) ==
  /\ pc[t] = "outside" => /\ attachCount[t] = held[t]
                          /\ native[t] = IF held[t] > 0 THEN 1 ELSE 0
  /\ pc[t] = "attach" => attachCount[t] = 0 /\ held[t] = 0 /\ native[t] = 0
  /\ pc[t] = "first_init" => attachCount[t] = 0 /\ held[t] = 0 /\ native[t] = 1
  /\ pc[t] = "last_free" => attachCount[t] = 1 /\ held[t] = 1 /\ native[t] = 1
  /\ pc[t] = "detach" => attachCount[t] = 0 /\ held[t] = 1 /\ native[t] = 1
  /\ held[t] > 0 => held[t] <= MaxNesting
  /\ pc[t] \in {"attach", "first_init"} => MaxNesting > 0

Inv == TypeOK /\ \A t \in Thread : Between(t)

\* A step of one thread, which the others do not see.
LEMMA StepOfOne ==
  ASSUME Inv, NEW t \in Thread,
         \/ Bind(t) \/ Attach(t) \/ FirstInit(t)
         \/ Unbind(t) \/ LastFree(t) \/ Detach(t)
  PROVE  Inv'
<1> USE NestingAssumption DEF Inv, Goto, Succeed, Fail, Count, Native
<1>1. CASE Bind(t)
  <2>1. attachCount[t] = held[t] /\ held[t] < MaxNesting /\ held[t] \in Nat
    BY <1>1 DEF TypeOK, Between, Bind
  <2>2. CASE attachCount[t] = 0
    BY <1>1, <2>1, <2>2 DEF TypeOK, Between, Bind
  <2>3. CASE attachCount[t] > 0
    <3>1. TypeOK'
      BY <1>1, <2>1, <2>3 DEF TypeOK, Between, Bind, Answers
    <3>2. ASSUME NEW u \in Thread
          PROVE  Between(u)'
      BY <1>1, <2>1, <2>3, <3>2 DEF TypeOK, Between, Bind
    <3> QED
      BY <3>1, <3>2
  <2> QED
    BY <2>1, <2>2, <2>3
<1>2. CASE Attach(t)
  BY <1>2 DEF TypeOK, Between, Attach, Answers
<1>3. CASE FirstInit(t)
  BY <1>3 DEF TypeOK, Between, FirstInit, Answers
<1>4. CASE Unbind(t)
  BY <1>4 DEF TypeOK, Between, Unbind, Answers
<1>5. CASE LastFree(t)
  BY <1>5 DEF TypeOK, Between, LastFree, Answers
<1>6. CASE Detach(t)
  BY <1>6 DEF TypeOK, Between, Detach, Answers
<1> QED
  BY <1>1, <1>2, <1>3, <1>4, <1>5, <1>6

LEMMA Invariant == Spec => []Inv
<1>1. Init => Inv
  BY NestingAssumption DEF Init, Inv, TypeOK, Between, Answers
<1>2. Inv /\ [Next]_vars => Inv'
  <2>1. CASE Next
    BY <2>1, StepOfOne DEF Next
  <2>2. CASE UNCHANGED vars
    BY <2>2 DEF vars, Inv, TypeOK, Between
  <2> QED
    BY <2>1, <2>2
<1> QED
  BY <1>1, <1>2, PTL DEF Spec

\* OMR_Glue_BindCurrentThread and OMR_Glue_UnbindCurrentThread keep native
\* attachments, attach counts and answers in step, whatever fails.
THEOREM BindingsBalance == Spec => []BoundAsAnswered
<1>1. Inv => BoundAsAnswered
  BY DEF Inv, Between, BoundAsAnswered
<1> QED
  BY <1>1, Invariant, PTL

\* At no step of either function is a thread of the VM without its native
\* attachment.
THEOREM VMThreadsNative == Spec => []VMThreadsAreNative
<1>1. Inv => VMThreadsAreNative
  BY DEF Inv, TypeOK, Between, VMThreadsAreNative
<1> QED
  BY <1>1, Invariant, PTL
=============================================================================
