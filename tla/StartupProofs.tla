--------------------------- MODULE StartupProofs ---------------------------
(***************************************************************************)
(* For any processes, names and options.  First the verbose manager by     *)
(* itself: what the names are made of, how many are in memory, and why no  *)
(* two logs are the same.  The invariant behind the last says where each   *)
(* name comes from: it was given, or ends with the number of the process.  *)
(* Then the VM around it, which drives the manager as VerboseManager       *)
(* allows: what holds of the one holds of the other.                       *)
(***************************************************************************)
EXTENDS Startup, SequenceTheorems, TLAPS

-----------------------------------------------------------------------------
(* Names. *)

LEMMA Appending ==
  ASSUME NEW S, NEW s \in Seq(S), NEW e \in S
  PROVE  /\ Append(s, e) \in Seq(S)
         /\ DOMAIN s = 1 .. Len(s)
         /\ DOMAIN Append(s, e) = 1 .. (Len(s) + 1)
         /\ Len(Append(s, e)) = Len(s) + 1
         /\ \A i \in 1 .. Len(s) : Append(s, e)[i] = s[i]
         /\ Append(s, e)[Len(s) + 1] = e
         /\ Len(s) \in Nat
  BY LenProperties

LEMMA PieceTypes ==
  /\ Seq(Text) \subseteq Pieces
  /\ \A s \in Pieces, p \in Pid : Append(Append(s, "_"), p) \in Pieces
  /\ \A s \in Pieces, p \in Pid : Put(s, p) \in Pieces
<1> DEFINE S == Text \cup Pid \cup {"_"}
<1>1. Seq(Text) \subseteq Pieces
  BY SeqMonotonic DEF Pieces
<1>2. ASSUME NEW s \in Pieces, NEW p \in Pid
      PROVE  Append(Append(s, "_"), p) \in Pieces
  <2>1. s \in Seq(S) /\ "_" \in S /\ p \in S
    BY DEF Pieces
  <2> HIDE DEF S
  <2>2. Append(s, "_") \in Seq(S)
    BY <2>1, Appending
  <2>3. Append(Append(s, "_"), p) \in Seq(S)
    BY <2>1, <2>2, Appending
  <2> QED
    BY <2>3 DEF S, Pieces
<1>3. ASSUME NEW s \in Pieces, NEW p \in Pid
      PROVE  Put(s, p) \in Pieces
  <2>1. s \in Seq(S) /\ p \in S
    BY DEF Pieces
  <2> HIDE DEF S
  <2>2. /\ Len(s) \in Nat
        /\ DOMAIN s = 1 .. Len(s)
        /\ \A i \in DOMAIN s : s[i] \in S
    BY <2>1, LenProperties, ElementOfSeq
  <2>3. Put(s, p) \in [1 .. Len(s) -> S]
    BY <2>1, <2>2 DEF Put
  <2>4. Put(s, p) \in Seq(S)
    BY <2>2, <2>3, SeqDef
  <2> QED
    BY <2>4 DEF S, Pieces
<1> QED
  BY <1>1, <1>2, <1>3

LEMMA NameTypes ==
  /\ Given \subseteq Name
  /\ \A name \in Name, p \in Pid : WithPid(name, p) \in Name
  /\ \A name \in Name, p \in Pid : Expanded(name, p) \in Name
  /\ DefaultLog \in Name
  /\ Nil \notin Name
<1>1. Given \subseteq Name
  BY GivenAssumption, PieceTypes DEF Name
<1>2. ASSUME NEW name \in Name, NEW p \in Pid
      PROVE  WithPid(name, p) \in Name
  BY <1>2, PieceTypes DEF Name, WithPid
<1>3. ASSUME NEW name \in Name, NEW p \in Pid
      PROVE  Expanded(name, p) \in Name
  BY <1>3, PieceTypes DEF Name, Expanded
<1>4. DefaultLog \in Name
  <2>1. <<"stderr">> \in Seq(Text) /\ <<>> \in Seq(Text)
    <3>1. "stderr" \in Text
      BY PidAssumption
    <3>2. <<"stderr">> \in [1 .. 1 -> Text]
      BY <3>1
    <3> QED
      BY <3>2, SeqDef, EmptySeq
  <2> QED
    BY <2>1, PieceTypes DEF DefaultLog, Name
<1> QED
  BY <1>1, <1>2, <1>3, <1>4, GivenAssumption

NameInv == /\ status \in [Pid -> Statuses]
           /\ filename \in [Pid -> Name \cup {Nil}]
           /\ log \in [Pid -> Name \cup {Nil}]

LEMMA NameStep == NameInv /\ [Next]_vars => NameInv'
<1> SUFFICES ASSUME NameInv, [Next]_vars
             PROVE  NameInv'
  OBVIOUS
<1> USE DEF NameInv, Statuses, Becomes
<1>1. ASSUME NEW p \in Pid, NewInstance(p)
      PROVE  NameInv'
  BY <1>1 DEF NewInstance
<1>2. ASSUME NEW p \in Pid, NEW name \in Given, Configure(p, name)
      PROVE  NameInv'
  <2>1. name \in Name /\ Expanded(name, p) \in Name
    BY NameTypes
  <2> QED
    BY <1>2, <2>1 DEF Configure
<1>3. ASSUME NEW p \in Pid, NEW q \in Pid, Fork(p, q)
      PROVE  NameInv'
  BY <1>3 DEF Fork
<1>4. ASSUME NEW p \in Pid, Reconfigure(p)
      PROVE  NameInv'
  <2>1. filename[p] # Nil => /\ Expanded(filename[p], p) \in Name
                             /\ WithPid(filename[p], p) \in Name
                             /\ Expanded(WithPid(filename[p], p), p) \in Name
    BY NameTypes
  <2>2. WithPid(filename[p], p) = Nil => filename[p] = Nil
    BY NameTypes
  <2>3. /\ \E s \in Statuses : status' = [status EXCEPT ![p] = s]
        /\ \/ UNCHANGED filename
           \/ filename[p] # Nil /\ filename' = [filename EXCEPT ![p] = WithPid(filename[p], p)]
    BY <1>4 DEF Reconfigure, WithNewName, Reopen
  <2>4. \/ UNCHANGED log
        \/ \E name \in Name : log' = [log EXCEPT ![p] = name]
    <3>1. CASE filename[p] # Nil /\ NeedsPid(filename[p])
      BY <1>4, <2>1, <2>2, <3>1 DEF Reconfigure, Reopen
    <3>2. CASE filename[p] # Nil /\ ~NeedsPid(filename[p])
      BY <1>4, <2>1, <3>2 DEF Reconfigure, Reopen
    <3>3. CASE filename[p] = Nil
      BY <1>4, <3>3, NameTypes DEF Reconfigure, Reopen
    <3> QED
      BY <3>1, <3>2, <3>3
  <2> QED
    BY <2>1, <2>3, <2>4
<1>5. ASSUME NEW p \in Pid, TearDown(p) \/ Exit(p)
      PROVE  NameInv'
  BY <1>5 DEF TearDown, Exit
<1>6. CASE UNCHANGED vars
  BY <1>6 DEF vars
<1> QED
  BY <1>1, <1>2, <1>3, <1>4, <1>5, <1>6 DEF Next, AllGone

-----------------------------------------------------------------------------
(* Memory. *)

NamesInv == /\ NameInv
            /\ names \in [Pid -> Int]
            /\ replaced \in [Pid -> Int]
            /\ LostNamesWereReplaced

\* Every step counts what it does to the names of its process.
LEMMA NamesStep == NamesInv /\ [Next]_vars => NamesInv'
<1> SUFFICES ASSUME NamesInv, [Next]_vars
             PROVE  NamesInv'
  OBVIOUS
<1>0. NameInv'
  BY NameStep DEF NamesInv
<1> USE DEF NamesInv, NameInv, LostNamesWereReplaced, Held
<1>1. ASSUME NEW p \in Pid, NewInstance(p)
      PROVE  NamesInv'
  BY <1>0, <1>1 DEF NewInstance, memory
<1>2. ASSUME NEW p \in Pid, NEW name \in Given, Configure(p, name)
      PROVE  NamesInv'
  <2>1. name # Nil
    BY NameTypes
  <2> QED
    BY <1>0, <1>2, <2>1 DEF Configure, memory
<1>3. ASSUME NEW p \in Pid, NEW q \in Pid, Fork(p, q)
      PROVE  NamesInv'
  BY <1>0, <1>3 DEF Fork
<1>4. ASSUME NEW p \in Pid, Reconfigure(p)
      PROVE  NamesInv'
  <2>1. filename[p] # Nil => WithPid(filename[p], p) # Nil
    BY NameTypes
  <2> QED
    BY <1>0, <1>4, <2>1 DEF Reconfigure, WithNewName, memory
<1>5. ASSUME NEW p \in Pid, TearDown(p)
      PROVE  NamesInv'
  BY <1>0, <1>5 DEF TearDown
<1>6. ASSUME NEW p \in Pid, Exit(p)
      PROVE  NamesInv'
  BY <1>0, <1>6 DEF Exit
<1>7. CASE UNCHANGED vars
  BY <1>0, <1>7 DEF vars, memory
<1> QED
  BY <1>1, <1>2, <1>3, <1>4, <1>5, <1>6, <1>7 DEF Next, AllGone

LEMMA NamesInvariant == Spec => []NamesInv
<1>1. Init => NamesInv
  BY DEF Init, NamesInv, NameInv, Statuses, LostNamesWereReplaced, Held, memory
<1> QED
  BY <1>1, NamesStep, PTL DEF Spec

LEMMA NamesCounted == Spec => [](NameInv /\ LostNamesWereReplaced)
<1>1. NamesInv => NameInv /\ LostNamesWereReplaced
  BY DEF NamesInv
<1> QED
  BY <1>1, NamesInvariant, PTL

\* Configure, the only step that replaces names, minds the bound, and so does Fork.
BoundsInv == /\ replaced \in [Pid -> 0 .. MaxReplaced]
             /\ generation \in [Pid -> 0 .. MaxGenerations]

LEMMA BoundsStep == BoundsInv /\ [Next]_vars => BoundsInv'
<1> SUFFICES ASSUME BoundsInv, [Next]_vars
             PROVE  BoundsInv'
  OBVIOUS
<1> USE BoundsAssumption DEF BoundsInv, memory
<1>1. ASSUME NEW p \in Pid, NewInstance(p)
      PROVE  BoundsInv'
  BY <1>1 DEF NewInstance
<1>2. ASSUME NEW p \in Pid, NEW name \in Given, Configure(p, name)
      PROVE  BoundsInv'
  BY <1>2 DEF Configure, Held
<1>3. ASSUME NEW p \in Pid, NEW q \in Pid, Fork(p, q)
      PROVE  BoundsInv'
  BY <1>3 DEF Fork
<1>4. ASSUME NEW p \in Pid, Reconfigure(p)
      PROVE  BoundsInv'
  BY <1>4 DEF Reconfigure, WithNewName
<1>5. ASSUME NEW p \in Pid, TearDown(p) \/ Exit(p)
      PROVE  BoundsInv'
  BY <1>5 DEF TearDown, Exit
<1>6. CASE UNCHANGED vars
  BY <1>6 DEF vars
<1> QED
  BY <1>1, <1>2, <1>3, <1>4, <1>5, <1>6 DEF Next, AllGone

LEMMA ManagerTyped == Spec => []TypeOK
<1>1. Init => BoundsInv
  BY BoundsAssumption DEF Init, BoundsInv, memory
<1>2. Spec => []BoundsInv
  BY <1>1, BoundsStep, PTL DEF Spec
<1>3. NamesInv /\ BoundsInv => TypeOK
  <2> SUFFICES ASSUME NamesInv, BoundsInv
               PROVE  TypeOK
    OBVIOUS
  <2>1. ASSUME NEW p \in Pid
        PROVE  names[p] \in 0 .. MaxReplaced + 1
    <3>1. Held(p) \in {0, 1} /\ replaced[p] \in 0 .. MaxReplaced
      BY DEF Held, BoundsInv
    <3>2. names[p] = Held(p) + replaced[p]
      BY DEF NamesInv, LostNamesWereReplaced
    <3> QED
      BY <3>1, <3>2, BoundsAssumption
  <2> QED
    BY <2>1 DEF NamesInv, NameInv, BoundsInv, TypeOK
<1> QED
  BY <1>2, <1>3, NamesInvariant, PTL

-----------------------------------------------------------------------------
(* Logs. *)

NamedInv == NameInv /\ LogIsNamed

\* Only the calls that settle a process change its log, and they keep the name.
LEMMA NamedStep == NamedInv /\ [Next]_vars => NamedInv'
<1> SUFFICES ASSUME NamedInv, [Next]_vars
             PROVE  NamedInv'
  OBVIOUS
<1>0. NameInv'
  BY NameStep DEF NamedInv
<1> USE DEF NamedInv, NameInv, Statuses, LogIsNamed, Settled, Becomes
<1>1. ASSUME NEW p \in Pid, NewInstance(p)
      PROVE  NamedInv'
  BY <1>0, <1>1 DEF NewInstance
<1>2. ASSUME NEW p \in Pid, NEW name \in Given, Configure(p, name)
      PROVE  NamedInv'
  <2>1. name # Nil
    BY NameTypes
  <2> QED
    BY <1>0, <1>2, <2>1 DEF Configure
<1>3. ASSUME NEW p \in Pid, NEW q \in Pid, Fork(p, q)
      PROVE  NamedInv'
  BY <1>0, <1>3 DEF Fork
<1>4. ASSUME NEW p \in Pid, Reconfigure(p)
      PROVE  NamedInv'
  <2>1. filename[p] # Nil => WithPid(filename[p], p) # Nil
    BY NameTypes
  <2>2. DefaultLog \in Streams
    BY DEF DefaultLog, Streams
  <2> QED
    BY <1>0, <1>4, <2>1, <2>2 DEF Reconfigure, WithNewName, Reopen
<1>5. ASSUME NEW p \in Pid, TearDown(p) \/ Exit(p)
      PROVE  NamedInv'
  BY <1>0, <1>5 DEF TearDown, Exit
<1>6. CASE UNCHANGED vars
  BY <1>0, <1>6 DEF vars
<1> QED
  BY <1>1, <1>2, <1>3, <1>4, <1>5, <1>6 DEF Next, AllGone

\* What tells the log of a process from those of the others: its number comes
\* last in the stem, or is the only number in the name.
EndsWith(pieces, p) == \E s \in Pieces : pieces = Append(s, p)

HasNumber(name, p) == \/ \E i \in DOMAIN name.stem : name.stem[i] = p
                      \/ \E i \in DOMAIN name.extension : name.extension[i] = p

OnlyNumber(name, p) == \A q \in Pid : HasNumber(name, q) => q = p

Own(name, p) == \/ EndsWith(name.stem, p)
                \/ OnlyNumber(name, p) /\ (p = First \/ HasNumber(name, p))

LEMMA EndIsANumber ==
  ASSUME NEW s \in Pieces, NEW p \in Pid
  PROVE  /\ Len(s) + 1 \in DOMAIN Append(s, p)
         /\ Append(s, p)[Len(s) + 1] = p
         /\ Len(Append(s, p)) = Len(s) + 1
<1> DEFINE S == Text \cup Pid \cup {"_"}
<1>1. s \in Seq(S) /\ p \in S
  BY DEF Pieces
<1> HIDE DEF S
<1> QED
  BY <1>1, Appending

LEMMA OwnAreApart ==
  ASSUME NEW name, NEW p \in Pid, NEW q \in Pid, Own(name, p), Own(name, q)
  PROVE  p = q
<1>1. ASSUME NEW r \in Pid, EndsWith(name.stem, r)
      PROVE  HasNumber(name, r)
  BY <1>1, EndIsANumber DEF EndsWith, HasNumber
<1>2. CASE EndsWith(name.stem, p) /\ EndsWith(name.stem, q)
  <2>1. PICK s \in Pieces : name.stem = Append(s, p)
    BY <1>2 DEF EndsWith
  <2>2. PICK t \in Pieces : name.stem = Append(t, q)
    BY <1>2 DEF EndsWith
  <2>3. /\ name.stem[Len(s) + 1] = p
        /\ Len(name.stem) = Len(s) + 1
    BY <2>1, EndIsANumber
  <2>4. /\ name.stem[Len(t) + 1] = q
        /\ Len(name.stem) = Len(t) + 1
    BY <2>2, EndIsANumber
  <2> QED
    BY <2>3, <2>4
<1>3. CASE OnlyNumber(name, p) /\ HasNumber(name, q)
  BY <1>3 DEF OnlyNumber
<1>4. CASE OnlyNumber(name, q) /\ HasNumber(name, p)
  BY <1>4 DEF OnlyNumber
<1>5. CASE p = First /\ q = First
  BY <1>5
<1> QED
  BY <1>1, <1>2, <1>3, <1>4, <1>5 DEF Own

LEMMA ExpandedIsName ==
  ASSUME NEW name \in Name, NEW p \in Pid, ~HasToken(name)
  PROVE  Expanded(name, p) = name
<1>1. ASSUME NEW s \in Pieces, \A i \in DOMAIN s : s[i] # "%p"
      PROVE  Put(s, p) = s
  <2> DEFINE S == Text \cup Pid \cup {"_"}
  <2>1. s \in Seq(S)
    BY DEF Pieces
  <2> HIDE DEF S
  <2>2. s \in [1 .. Len(s) -> S]
    BY <2>1, LenProperties
  <2> QED
    BY <1>1, <2>2 DEF Put
<1>2. Put(name.stem, p) = name.stem /\ Put(name.extension, p) = name.extension
  BY <1>1 DEF Name, HasToken
<1> QED
  BY <1>2 DEF Expanded, Name

WithoutToken(pieces) == \A i \in DOMAIN pieces : pieces[i] # "%p"

LEMMA AppendingNoToken ==
  ASSUME NEW S, NEW s \in Seq(S), NEW e \in S, WithoutToken(s), e # "%p"
  PROVE  Append(s, e) \in Seq(S) /\ WithoutToken(Append(s, e))
<1>1. /\ Append(s, e) \in Seq(S)
      /\ DOMAIN s = 1 .. Len(s)
      /\ DOMAIN Append(s, e) = 1 .. (Len(s) + 1)
      /\ \A i \in 1 .. Len(s) : Append(s, e)[i] = s[i]
      /\ Append(s, e)[Len(s) + 1] = e
      /\ Len(s) \in Nat
  BY Appending
<1>2. \A i \in 1 .. (Len(s) + 1) : Append(s, e)[i] # "%p"
  BY <1>1 DEF WithoutToken
<1> QED
  BY <1>1, <1>2 DEF WithoutToken

\* A name with its number put in is the log of its process alone, and has no
\* token if it had none.
LEMMA NumberedIsOwn ==
  ASSUME NEW name \in Name, NEW p \in Pid, ~HasToken(name)
  PROVE  /\ ~HasToken(WithPid(name, p))
         /\ Own(Expanded(WithPid(name, p), p), p)
<1> DEFINE S == Text \cup Pid \cup {"_"}
<1>1. name.stem \in Seq(S) /\ "_" \in S /\ p \in S
  BY DEF Pieces, Name
<1>2. "_" # "%p" /\ p # "%p"
  BY PidAssumption
<1> HIDE DEF S
<1>3. /\ Append(name.stem, "_") \in Seq(S)
      /\ WithoutToken(Append(name.stem, "_"))
  BY <1>1, <1>2, AppendingNoToken DEF HasToken, WithoutToken
<1>4. WithoutToken(Append(Append(name.stem, "_"), p))
  BY <1>1, <1>2, <1>3, AppendingNoToken
<1>5. ~HasToken(WithPid(name, p))
  BY <1>4 DEF HasToken, WithPid, WithoutToken
<1>6. Expanded(WithPid(name, p), p) = WithPid(name, p)
  BY <1>5, ExpandedIsName, NameTypes
<1>7. EndsWith(WithPid(name, p).stem, p)
  BY <1>3 DEF EndsWith, WithPid, S, Pieces
<1> QED
  BY <1>5, <1>6, <1>7 DEF Own

\* The token of a name that is given stands for the only number in it.
LEMMA GivenIsOwn ==
  ASSUME NEW name \in Given, NEW p \in Pid, p = First \/ HasToken(name)
  PROVE  Own(Expanded(name, p), p)
<1>1. ASSUME NEW s \in Seq(Text)
      PROVE  /\ DOMAIN Put(s, p) = DOMAIN s
             /\ \A i \in DOMAIN s : /\ s[i] = "%p" => Put(s, p)[i] = p
                                    /\ Put(s, p)[i] \in Pid => Put(s, p)[i] = p
  <2>1. \A i \in DOMAIN s : s[i] \in Text
    BY ElementOfSeq, LenProperties
  <2> QED
    BY <2>1, PidAssumption DEF Put
<1>2. name.stem \in Seq(Text) /\ name.extension \in Seq(Text)
  BY GivenAssumption
<1> DEFINE e == Expanded(name, p)
<1>3. e.stem = Put(name.stem, p) /\ e.extension = Put(name.extension, p)
  BY DEF Expanded
<1>4. OnlyNumber(e, p)
  BY <1>1, <1>2, <1>3 DEF OnlyNumber, HasNumber
<1>5. HasToken(name) => HasNumber(e, p)
  BY <1>1, <1>2, <1>3 DEF HasToken, HasNumber
<1> QED
  BY <1>4, <1>5 DEF Own

-----------------------------------------------------------------------------
(* Processes. *)

ApartInv == /\ NameInv
            /\ \A p \in Pid : \/ filename[p] \in Given
                              \/ filename[p] # Nil => ~HasToken(filename[p])
            /\ \A p \in Settled : log[p] \in Streams \/ Own(log[p], p)

LEMMA ApartStep == ApartInv /\ [Next]_vars => ApartInv'
<1> SUFFICES ASSUME ApartInv, [Next]_vars
             PROVE  ApartInv'
  OBVIOUS
<1>0. NameInv'
  BY NameStep DEF ApartInv
<1> USE DEF ApartInv, NameInv, Statuses, Settled, Becomes
<1>1. ASSUME NEW p \in Pid, NewInstance(p)
      PROVE  ApartInv'
  BY <1>0, <1>1 DEF NewInstance
<1>2. ASSUME NEW p \in Pid, NEW name \in Given, Configure(p, name)
      PROVE  ApartInv'
  <2>1. Own(Expanded(name, p), p)
    BY <1>2, GivenIsOwn DEF Configure
  <2> QED
    BY <1>0, <1>2, <2>1 DEF Configure
<1>3. ASSUME NEW p \in Pid, NEW q \in Pid, Fork(p, q)
      PROVE  ApartInv'
  BY <1>0, <1>3 DEF Fork
<1>4. ASSUME NEW p \in Pid, Reconfigure(p)
      PROVE  ApartInv'
  <2> DEFINE name == filename[p]
  <2>1. CASE status'[p] # "settled"
    <3>1. \/ UNCHANGED filename
          \/ /\ name \in Name /\ ~HasToken(name)
             /\ filename' = [filename EXCEPT ![p] = WithPid(name, p)]
      BY <1>4 DEF Reconfigure, WithNewName, NeedsPid
    <3>2. name \in Name /\ ~HasToken(name) => ~HasToken(WithPid(name, p))
      BY NumberedIsOwn
    <3>3. \A q \in Pid \ {p} : status'[q] = status[q] /\ log'[q] = log[q]
      BY <1>4 DEF Reconfigure, Reopen
    <3> QED
      BY <1>0, <2>1, <3>1, <3>2, <3>3
  <2>2. CASE name # Nil /\ NeedsPid(name) /\ status'[p] = "settled"
    <3>1. name \in Name /\ ~HasToken(name)
      BY <2>2 DEF NeedsPid
    <3>2. /\ filename' = [filename EXCEPT ![p] = WithPid(name, p)]
          /\ status' = [status EXCEPT ![p] = "settled"]
          /\ log' = [log EXCEPT ![p] = Expanded(WithPid(name, p), p)]
      BY <1>4, <2>2, <3>1, NameTypes DEF Reconfigure, Reopen, WithNewName
    <3> QED
      BY <1>0, <3>1, <3>2, NumberedIsOwn
  <2>3. CASE name # Nil /\ ~NeedsPid(name) /\ status'[p] = "settled"
    <3>1. /\ UNCHANGED filename
          /\ status' = [status EXCEPT ![p] = "settled"]
          /\ log' = [log EXCEPT ![p] = Expanded(name, p)]
      BY <1>4, <2>3 DEF Reconfigure, Reopen
    <3>2. Expanded(name, p) \in Streams \/ Own(Expanded(name, p), p)
      <4>1. CASE name \in Streams
        <5>1. ~HasToken(name)
          BY <4>1 DEF Streams, HasToken
        <5> QED
          BY <2>3, <4>1, <5>1, ExpandedIsName
      <4>2. CASE HasToken(name)
        BY <2>3, <4>2, GivenIsOwn
      <4> QED
        BY <2>3, <4>1, <4>2 DEF NeedsPid
    <3> QED
      BY <1>0, <3>1, <3>2
  <2>4. CASE name = Nil
    <3>1. DefaultLog \in Streams
      BY DEF DefaultLog, Streams
    <3> QED
      BY <1>0, <1>4, <2>4, <3>1 DEF Reconfigure, Reopen
  <2> QED
    BY <2>1, <2>2, <2>3, <2>4
<1>5. ASSUME NEW p \in Pid, TearDown(p) \/ Exit(p)
      PROVE  ApartInv'
  BY <1>0, <1>5 DEF TearDown, Exit
<1>6. CASE UNCHANGED vars
  BY <1>0, <1>6 DEF vars
<1> QED
  BY <1>1, <1>2, <1>3, <1>4, <1>5, <1>6 DEF Next, AllGone

LEMMA LogsKept == Spec => [](LogIsNamed /\ ProcessesApart)
<1>1. Init => NamedInv /\ ApartInv
  BY DEF Init, NamedInv, ApartInv, NameInv, Statuses, LogIsNamed, Settled
<1>2. NamedInv => LogIsNamed
  BY DEF NamedInv
<1>3. ApartInv => ProcessesApart
  BY OwnAreApart DEF ApartInv, ProcessesApart, Settled
<1> QED
  BY <1>1, <1>2, <1>3, NamedStep, ApartStep, PTL DEF Spec

-----------------------------------------------------------------------------
(* The VM around the manager. *)

\* Whatever becomes of the VM, its process and those that descend from it use the
\* verbose manager as VerboseManager says a process may: configure it while it is
\* there, reconfigure it once after a fork, and tear it down
\* (StartupManagerImpl.cpp:67-71, VerboseManagerImpl.cpp:52-118).
THEOREM StartupUsesManager == StartupSpec => Spec
<1>1. StartupInit => Init
  BY DEF StartupInit
<1>2. [StartupNext]_<<vars, startupVars>> => [Next]_vars
  <2> SUFFICES ASSUME [StartupNext]_<<vars, startupVars>>
               PROVE  Next \/ UNCHANGED vars
    OBVIOUS
  <2>0. First \in Pid
    BY PidAssumption
  <2>1. CASE NextOption \/ OptionsHandled \/ Up \/ Shutdown
    BY <2>1 DEF NextOption, OptionsHandled, Up, Shutdown
  <2>2. CASE \/ createConfiguration \/ createCollectorLanguageInterface
             \/ createVerboseManager \/ createFrequentObjectsStats
    BY <2>2 DEF createConfiguration, createCollectorLanguageInterface,
                createVerboseManager, createFrequentObjectsStats
  <2>3. CASE allocate \/ initialize \/ tearDown \/ free
    BY <2>0, <2>3 DEF allocate, initialize, tearDown, free, InHand, Next
  <2>4. ASSUME NEW part \in Part, Kill(part)
        PROVE  Next \/ UNCHANGED vars
    BY <2>4 DEF Kill
  <2>5. CASE End
    BY <2>0, <2>5 DEF End, Next
  <2>6. CASE Logging
    BY <2>0, <2>6 DEF Logging, Next
  <2>7. CASE UNCHANGED <<vars, startupVars>>
    BY <2>7
  <2> QED
    BY <2>1, <2>2, <2>3, <2>4, <2>5, <2>6, <2>7 DEF StartupNext
<1> QED
  BY <1>1, <1>2, PTL DEF StartupSpec, Spec

\* However many processes fork from each other and whatever numbers they get, the
\* logs of no two of them are the same, unless both write to a stream
\* (VerboseManagerImpl.cpp:79-118).
THEOREM LogsApart == StartupSpec => []ProcessesApart
  BY StartupUsesManager, LogsKept, PTL

\* The name of a process that logs is the one its log was opened with: the number
\* put in last is that of the process itself (VerboseManagerImpl.cpp:76, 114).
THEOREM LogsNamed == StartupSpec => []LogIsNamed
  BY StartupUsesManager, LogsKept, PTL

\* Only names a second configureVerboseGC overwrites are lost
\* (VerboseManagerImpl.cpp:57, 71, 113).
THEOREM NamesFreed == StartupSpec => []LostNamesWereReplaced
  BY StartupUsesManager, NamesCounted, PTL

\* What is allocated, at every step of newInstance and kill.
PartsInv ==
  /\ parts \subseteq Part
  /\ inHand \in Made \cup {"none"}
  /\ step \in {"none", "allocate", "initialize", "tearDown", "free"}
  /\ step = "none" <=> inHand = "none"
  /\ step \in {"allocate", "initialize"} => inHand \notin parts
  /\ step # "none" => stage \in {"parts", "closing"}
  /\ forge \in [Part -> Int]
  /\ \A part \in Part :
       forge[part] = IF part \in parts \/ (part = inHand /\ step # "allocate") THEN 1 ELSE 0

LEMMA PartsStep ==
  PartsInv /\ [StartupNext]_<<vars, startupVars>> => PartsInv'
<1> SUFFICES ASSUME PartsInv, [StartupNext]_<<vars, startupVars>>
             PROVE  PartsInv'
  OBVIOUS
<1> USE DEF PartsInv, Made, Part
<1>1. CASE NextOption \/ OptionsHandled \/ Up \/ Shutdown \/ createFrequentObjectsStats
  BY <1>1 DEF NextOption, OptionsHandled, Up, Shutdown, createFrequentObjectsStats, making
<1>2. CASE createConfiguration
  <2>1. /\ "configuration" \notin parts /\ inHand = "none" /\ step = "none"
        /\ inHand' = inHand /\ step' = step
    BY <1>2 DEF createConfiguration, Asked
  <2>2. CASE /\ parts' = parts \cup {"configuration"}
             /\ forge' = [forge EXCEPT !["configuration"] = @ + 1]
    <3>1. forge["configuration"] = 0
      BY <2>1
    <3>2. forge' \in [Part -> Int] /\ forge'["configuration"] = 1
      BY <2>2, <3>1
    <3>3. \A part \in Part \ {"configuration"} : forge'[part] = forge[part]
      BY <2>2
    <3> QED
      BY <2>1, <2>2, <3>2, <3>3
  <2>3. CASE UNCHANGED <<parts, forge>>
    BY <2>1, <2>3
  <2> QED
    BY <1>2, <2>2, <2>3 DEF createConfiguration
<1>3. CASE createCollectorLanguageInterface \/ createVerboseManager
  BY <1>3 DEF createCollectorLanguageInterface, createVerboseManager, Asked, Takes
<1>4. CASE allocate
  BY <1>4 DEF allocate, Takes, Returns
<1>5. CASE initialize
  BY <1>5 DEF initialize, Takes, Returns
<1>6. CASE tearDown
  BY <1>6 DEF tearDown, Takes
<1>7. CASE free
  BY <1>7 DEF free, Takes, Returns
<1>8. ASSUME NEW part \in Part, Kill(part)
      PROVE  PartsInv'
  <2>1. part \in parts /\ inHand = "none" /\ step = "none" /\ stage' = "closing"
    BY <1>8 DEF Kill
  <2>2. CASE part \in Made /\ Takes(part, "tearDown") /\ UNCHANGED <<parts, forge>>
    BY <2>1, <2>2 DEF Takes
  <2>3. CASE /\ parts' = parts \ {part}
             /\ forge' = [forge EXCEPT ![part] = @ - 1]
             /\ UNCHANGED <<inHand, step>>
    <3>1. forge[part] = 1
      BY <2>1
    <3>2. forge' \in [Part -> Int] /\ forge'[part] = 0
      BY <2>3, <3>1
    <3>3. \A other \in Part \ {part} : forge'[other] = forge[other]
      BY <2>3
    <3> QED
      BY <2>1, <2>3, <3>2, <3>3
  <2> QED
    BY <1>8, <2>2, <2>3 DEF Kill
<1>9. CASE End
  BY <1>9 DEF End, Takes, Returns
<1>10. CASE Logging \/ UNCHANGED <<vars, startupVars>>
  BY <1>10 DEF Logging, startupVars, making
<1> QED
  BY <1>1, <1>2, <1>3, <1>4, <1>5, <1>6, <1>7, <1>8, <1>9, <1>10 DEF StartupNext

LEMMA PartsInvariant == StartupSpec => []PartsInv
<1>1. StartupInit => PartsInv
  <2> SUFFICES ASSUME StartupInit
               PROVE  PartsInv
    OBVIOUS
  <2>1. /\ parts = {} /\ inHand = "none" /\ step = "none"
        /\ forge = [part \in Part |-> 0]
    BY DEF StartupInit
  <2>2. "none" \notin Part
    BY DEF Part
  <2>3. forge \in [Part -> Int] /\ \A part \in Part : forge[part] = 0 /\ part # inHand
    BY <2>1, <2>2
  <2> QED
    BY <2>1, <2>3 DEF PartsInv
<1> QED
  BY <1>1, PartsStep, PTL DEF StartupSpec

\* As long as the VM's process runs it has a name for its log only while OMR has
\* its verbose manager.
NamelessInv ==
  stage # "ended" =>
    /\ status[First] # "forked"
    /\ "verbose" \notin parts \/ (inHand = "verbose" /\ step = "free") => filename[First] = Nil

LEMMA NamelessStep ==
  NamelessInv /\ PartsInv /\ NameInv /\ [StartupNext]_<<vars, startupVars>> => NamelessInv'
<1> SUFFICES ASSUME NamelessInv, PartsInv, NameInv, [StartupNext]_<<vars, startupVars>>
             PROVE  NamelessInv'
  OBVIOUS
<1>0. First \in Pid
  BY PidAssumption
<1> USE DEF NamelessInv
<1>1. CASE \/ NextOption \/ OptionsHandled \/ Up \/ Shutdown
           \/ createFrequentObjectsStats
  BY <1>1 DEF NextOption, OptionsHandled, Up, Shutdown,
              createFrequentObjectsStats, making, vars
<1>2. CASE \/ createConfiguration \/ createCollectorLanguageInterface
           \/ createVerboseManager
  BY <1>2 DEF createConfiguration, createCollectorLanguageInterface,
              createVerboseManager, Asked, Takes, vars
<1>3. CASE allocate
  BY <1>0, <1>3 DEF allocate, InHand, Takes, Returns, NewInstance, Becomes, vars, PartsInv, NameInv
<1>4. CASE initialize
  BY <1>4 DEF initialize, Takes, Returns, vars
<1>5. CASE tearDown
  BY <1>0, <1>5 DEF tearDown, InHand, Takes, TearDown, Becomes, vars, PartsInv, NameInv
<1>6. CASE free
  BY <1>6 DEF free, Takes, Returns, vars, PartsInv, Made
<1>7. ASSUME NEW part \in Part, Kill(part)
      PROVE  NamelessInv'
  BY <1>7 DEF Kill, Takes, vars, Part
<1>8. CASE End
  BY <1>8 DEF End
<1>9. CASE Logging
  <2>0. UNCHANGED <<stage, parts, inHand, step>>
    BY <1>9 DEF Logging, startupVars, making
  <2>1. CASE "verbose" \in parts /\ inHand = "none" /\ \E name \in Given : Configure(First, name)
    BY <1>0, <2>0, <2>1 DEF Configure, Becomes, NameInv
  <2>2. ASSUME NEW p \in Pid, NEW q \in Pid, q = First => stage = "ended", Fork(p, q)
        PROVE  NamelessInv'
    BY <1>0, <2>0, <2>2 DEF Fork, Becomes, NameInv
  <2>3. ASSUME NEW p \in Pid, Reconfigure(p), stage # "ended"
        PROVE  filename'[First] = filename[First] /\ status'[First] = status[First]
    <3>1. p # First
      BY <2>3 DEF Reconfigure
    <3>2. /\ filename' = [filename EXCEPT ![p] = filename'[p]]
          /\ status' = [status EXCEPT ![p] = status'[p]]
      BY <2>3 DEF Reconfigure, WithNewName, Reopen, Becomes, NameInv
    <3> QED
      BY <1>0, <3>1, <3>2 DEF NameInv
  <2>4. ASSUME NEW p \in Pid, p = First => stage = "ended", TearDown(p) \/ Exit(p)
        PROVE  NamelessInv'
    BY <1>0, <2>0, <2>4 DEF TearDown, Exit, Becomes, NameInv
  <2>5. CASE AllGone
    BY <2>0, <2>5 DEF AllGone, vars
  <2> QED
    BY <1>9, <2>0, <2>1, <2>2, <2>3, <2>4, <2>5 DEF Logging
<1>10. CASE UNCHANGED <<vars, startupVars>>
  BY <1>10 DEF vars, startupVars, making
<1> QED
  BY <1>1, <1>2, <1>3, <1>4, <1>5, <1>6, <1>7, <1>8, <1>9, <1>10 DEF StartupNext

\* Nothing of the VM is left behind, whichever call fails at whichever step: between
\* the calls of newInstance and kill a part is allocated once if OMR has it, and
\* otherwise not at all; and of a VM that did not start, or was shut down, the
\* only names left are those overwritten (CollectorLanguageInterfaceImpl.cpp:61-85,
\* VerboseManagerImpl.cpp:37-58).
THEOREM PartsKilled == StartupSpec => []NothingLost
<1>1. StartupInit => NamelessInv
  <2> SUFFICES ASSUME StartupInit
               PROVE  NamelessInv
    OBVIOUS
  <2>1. status[First] = "starting" /\ filename[First] = Nil
    BY PidAssumption DEF StartupInit, Init
  <2> QED
    BY <2>1 DEF NamelessInv
<1>2. NamesInv /\ PartsInv /\ NamelessInv => NothingLost
  <2> SUFFICES ASSUME NamesInv, PartsInv, NamelessInv, step = "none"
               PROVE  /\ \A part \in Part : forge[part] = IF part \in parts THEN 1 ELSE 0
                      /\ stage = "closing" /\ parts = {} => names[First] = replaced[First]
    BY DEF NothingLost
  <2>1. \A part \in Part : forge[part] = IF part \in parts THEN 1 ELSE 0
    BY DEF PartsInv, Part
  <2>2. ASSUME stage = "closing", parts = {}
        PROVE  names[First] = replaced[First]
    <3>1. filename[First] = Nil
      BY <2>2 DEF NamelessInv
    <3>2. names[First] = 0 + replaced[First] /\ replaced[First] \in Int
      BY <3>1, PidAssumption DEF NamesInv, LostNamesWereReplaced, Held
    <3> QED
      BY <3>2
  <2> QED
    BY <2>1, <2>2
<1>3. NamesInv => NameInv
  BY DEF NamesInv
<1>4. StartupSpec => []NamesInv
  BY NamesInvariant, StartupUsesManager, PTL
<1> QED
  BY <1>1, <1>2, <1>3, <1>4, PartsInvariant, NamelessStep, PTL DEF StartupSpec

-----------------------------------------------------------------------------
(* The policy. *)

\* An option that asks for the segregated collector, and one that enables the
\* scavenger, as handleOption sees them.
Asks(o) == o.segregated /\ ~o.base

Enables(o) == o.base /\ o.scavenger

OptionsInv ==
  /\ build \in [segregated : BOOLEAN, scavenger : BOOLEAN]
  /\ given \in Seq(Option)
  /\ handled \in 0 .. Len(given)
  /\ stage = "parts" => handled = Len(given)
  /\ useSegregatedGC <=> build.segregated /\ \E i \in 1 .. handled : Asks(given[i])
  /\ scavengerEnabled <=> \E i \in 1 .. handled : Enables(given[i])
  /\ useSegregatedGC \in BOOLEAN /\ scavengerEnabled \in BOOLEAN
  /\ configuration # "none" => stage # "options" /\ handled = Len(given)
                               /\ configuration = Policy

LEMMA OptionsStep ==
  OptionsInv /\ [StartupNext]_<<vars, startupVars>> => OptionsInv'
<1> SUFFICES ASSUME OptionsInv, [StartupNext]_<<vars, startupVars>>
             PROVE  OptionsInv'
  OBVIOUS
<1>1. CASE NextOption
  <2> DEFINE o == given[handled + 1]
  <2>1. /\ handled \in Nat /\ Len(given) \in Nat
        /\ handled < Len(given)
        /\ stage = "options" /\ configuration = "none"
        /\ handled' = handled + 1
        /\ UNCHANGED <<build, given, configuration>>
    BY <1>1, LenProperties DEF NextOption, OptionsInv
  <2>2. o \in Option
    BY <2>1, ElementOfSeq DEF OptionsInv
  <2>3. /\ useSegregatedGC' <=> useSegregatedGC \/ (build.segregated /\ Asks(o))
        /\ scavengerEnabled' <=> scavengerEnabled \/ Enables(o)
        /\ useSegregatedGC' \in BOOLEAN /\ scavengerEnabled' \in BOOLEAN
        /\ stage' # "parts"
    BY <1>1, <2>1, <2>2
       DEF NextOption, handleOption, Asks, Enables, Option, OptionsInv
  <2>4. 1 .. (handled + 1) = (1 .. handled) \cup {handled + 1}
    BY <2>1
  <2>5. (\E i \in 1 .. handled' : Asks(given'[i]))
          <=> (\E i \in 1 .. handled : Asks(given[i])) \/ Asks(o)
    BY <2>1, <2>4
  <2>6. (\E i \in 1 .. handled' : Enables(given'[i]))
          <=> (\E i \in 1 .. handled : Enables(given[i])) \/ Enables(o)
    BY <2>1, <2>4
  <2>7. handled' \in 0 .. Len(given')
    BY <2>1
  <2> QED
    BY <2>1, <2>3, <2>5, <2>6, <2>7 DEF OptionsInv
<1>2. CASE OptionsHandled
  BY <1>2 DEF OptionsHandled, options, OptionsInv
<1>3. CASE createConfiguration
  <2>1. UNCHANGED options /\ stage = "parts" /\ stage' # "options"
    BY <1>3 DEF createConfiguration, Asked
  <2>2. configuration' = configuration \/ configuration' = Policy
    BY <1>3 DEF createConfiguration
  <2>3. stage' = "parts" => handled = Len(given)
    BY <2>1 DEF OptionsInv
  <2> QED
    BY <2>1, <2>2, <2>3 DEF OptionsInv, options, Policy
<1>4. ASSUME UNCHANGED <<options, configuration>>,
             stage' = stage \/ stage' \in {"up", "closing", "ended"}
      PROVE  OptionsInv'
  BY <1>4 DEF OptionsInv, options, Policy
<1>5. CASE \/ createCollectorLanguageInterface \/ createVerboseManager
           \/ createFrequentObjectsStats
           \/ allocate \/ initialize \/ tearDown \/ free
  BY <1>4, <1>5 DEF createCollectorLanguageInterface, createVerboseManager,
                    createFrequentObjectsStats, allocate, initialize, tearDown, free
<1>6. CASE Up \/ Shutdown \/ End
  BY <1>4, <1>6 DEF Up, Shutdown, End
<1>7. ASSUME NEW part \in Part, Kill(part)
      PROVE  OptionsInv'
  BY <1>4, <1>7 DEF Kill
<1>8. CASE Logging \/ UNCHANGED <<vars, startupVars>>
  BY <1>4, <1>8 DEF Logging, startupVars
<1> QED
  BY <1>1, <1>2, <1>3, <1>5, <1>6, <1>7, <1>8 DEF StartupNext

LEMMA OptionsInvariant == StartupSpec => []OptionsInv
<1>1. StartupInit => OptionsInv
  <2> SUFFICES ASSUME StartupInit
               PROVE  OptionsInv
    OBVIOUS
  <2>1. given \in Seq(Option) /\ Len(given) \in Nat
    BY OptionsAssumption, LenProperties DEF StartupInit
  <2>2. handled = 0 /\ 1 .. handled = {}
    BY DEF StartupInit
  <2>3. handled \in 0 .. Len(given)
    BY <2>1, <2>2
  <2>4. /\ useSegregatedGC = FALSE /\ scavengerEnabled = FALSE
        /\ stage = "options" /\ configuration = "none"
        /\ build \in [segregated : BOOLEAN, scavenger : BOOLEAN]
    BY DEF StartupInit
  <2>5. \A i \in 1 .. handled : FALSE
    BY <2>2
  <2> QED
    BY <2>1, <2>3, <2>4, <2>5 DEF OptionsInv
<1> QED
  BY <1>1, OptionsStep, PTL DEF StartupSpec

\* Whatever options there are, in whatever order: the collector is the one they
\* ask for, of those that are compiled in (StartupManagerImpl.cpp:41-59, 81-100).
THEOREM PolicyIsAsked == StartupSpec => []PolicyAsAsked
<1>1. OptionsInv => PolicyAsAsked
  <2> SUFFICES ASSUME OptionsInv, configuration # "none"
               PROVE  PolicyAsAsked
    BY DEF PolicyAsAsked
  <2>1. DOMAIN given = 1 .. handled
    BY LenProperties DEF OptionsInv
  <2>2. configuration = Policy
    BY DEF OptionsInv
  <2> QED
    BY <2>1, <2>2 DEF OptionsInv, PolicyAsAsked, Policy, Asks, Enables
<1> QED
  BY <1>1, OptionsInvariant, PTL

-----------------------------------------------------------------------------
(* Types. *)

StageInv ==
  /\ given \in Options
  /\ stage \in {"options", "parts", "up", "closing", "ended"}

LEMMA StageStep ==
  StageInv /\ [StartupNext]_<<vars, startupVars>> => StageInv'
<1> SUFFICES ASSUME StageInv, [StartupNext]_<<vars, startupVars>>
             PROVE  StageInv'
  OBVIOUS
<1> USE DEF StageInv, options
<1>1. CASE NextOption
  BY <1>1 DEF NextOption, handleOption
<1>2. CASE OptionsHandled \/ Up \/ Shutdown \/ End
  BY <1>2 DEF OptionsHandled, Up, Shutdown, End
<1>3. CASE \/ createConfiguration \/ createCollectorLanguageInterface
           \/ createVerboseManager \/ createFrequentObjectsStats
  BY <1>3 DEF createConfiguration, createCollectorLanguageInterface,
              createVerboseManager, createFrequentObjectsStats
<1>4. CASE allocate \/ initialize \/ tearDown \/ free
  BY <1>4 DEF allocate, initialize, tearDown, free
<1>5. ASSUME NEW part \in Part, Kill(part)
      PROVE  StageInv'
  BY <1>5 DEF Kill
<1>6. CASE Logging \/ UNCHANGED <<vars, startupVars>>
  BY <1>6 DEF Logging, startupVars
<1> QED
  BY <1>1, <1>2, <1>3, <1>4, <1>5, <1>6 DEF StartupNext

\* Type correctness of the start and of the verbose manager in every process.
THEOREM StartupTyped == StartupSpec => []StartupTypeOK
<1>1. StartupInit => StageInv
  BY DEF StartupInit, StageInv
<1>2. StartupSpec => []StageInv
  BY <1>1, StageStep, PTL DEF StartupSpec
<1>3. OptionsInv => configuration \in {"none", "flat", "generational", "segregated"}
  BY DEF OptionsInv, Policy
<1>4. PartsInv => forge \in [Part -> {0, 1}]
  BY DEF PartsInv
<1>5. TypeOK /\ StageInv /\ PartsInv /\ OptionsInv => StartupTypeOK
  BY <1>3, <1>4 DEF StageInv, PartsInv, OptionsInv, StartupTypeOK
<1> QED
  BY <1>2, <1>5, PartsInvariant, OptionsInvariant, ManagerTyped, StartupUsesManager, PTL
=============================================================================
