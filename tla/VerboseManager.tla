--------------------------- MODULE VerboseManager ---------------------------
(***************************************************************************)
(* MM_VerboseManagerImpl: the file a process writes its log of collections *)
(* to, and what becomes of it when processes fork.                         *)
(*                                                                         *)
(* The manager keeps a copy of the file name it was configured with.  A    *)
(* process that was forked reconfigures its manager, which gives it a name *)
(* of its own: the name of its parent with the number of the process put   *)
(* in before the extension, unless the name has a place for that number.   *)
(* Opening the file, and the choice of a writer by name, are done by the   *)
(* base class MM_VerboseManager of OMR.                                    *)
(***************************************************************************)
EXTENDS Integers, Sequences

CONSTANTS
  Pid,             \* the numbers processes may have
  First,           \* the process the VM is started in
  Text,            \* what the names of files are made of
  Given,           \* the names a log may be given there
  Nil,             \* a null pointer
  MaxGenerations,  \* bound: the generations of processes that fork
  MaxReplaced      \* bound: how many names are configured after another

\* A name is parted by its first dot, into a stem and an extension.  One of its
\* parts may be the token %p, and further ones the numbers of processes.
Pieces == Seq(Text \cup Pid \cup {"_"})

Name == [stem : Pieces, extension : Pieces]

\* The names that parseWriterType takes for no file, but a stream.
Streams == {[stem |-> <<"stderr">>, extension |-> <<>>]}

ASSUME PidAssumption == /\ First \in Pid
                        /\ "stderr" \in Text
                        /\ Pid \cap (Text \cup {"%p", "_"}) = {}

ASSUME BoundsAssumption == MaxGenerations \in Nat /\ MaxReplaced \in Nat

\* No number of a process is part of a name that is given.
ASSUME GivenAssumption == /\ Given \subseteq [stem : Seq(Text), extension : Seq(Text)]
                          /\ Nil \notin Name

VARIABLES
  status,      \* of every process: how far its manager got
  filename,    \* MM_VerboseManagerImpl::filename
  log,         \* the name the writer of the process was opened with
  names,       \* the copies of names allocated and not freed
  replaced,    \* history: of these, how many were overwritten by a later call
  generation   \* how often a process of its line has forked

memory == <<names, replaced>>

vars == <<status, filename, log, memory, generation>>

\* "settled" and "refused": the last call answered true or false.
Statuses == {"gone", "starting", "new", "settled", "refused", "forked", "crashed"}

Living == {p \in Pid : status[p] \in {"new", "settled", "refused", "forked"}}

\* Whether the token %p is in a name.
HasToken(name) == \/ \E i \in DOMAIN name.stem : name.stem[i] = "%p"
                  \/ \E i \in DOMAIN name.extension : name.extension[i] = "%p"

\* The number goes before the first dot of the name, or to its end.
WithPid(name, p) == [stem      |-> Append(Append(name.stem, "_"), p),
                     extension |-> name.extension]

Put(pieces, p) == [i \in DOMAIN pieces |-> IF pieces[i] = "%p" THEN p ELSE pieces[i]]

\* The name of the file that is opened: %p stands for the process.
Expanded(name, p) == [stem |-> Put(name.stem, p), extension |-> Put(name.extension, p)]

\* Mutant: a name that has been given a number is kept.
NeedsPidOnce(name) == /\ name \notin Streams
                      /\ ~HasToken(name)
                      /\ \A i \in DOMAIN name.stem : name.stem[i] \notin Pid

NeedsPid(name) == /\ name \notin Streams
                  /\ ~HasToken(name)

Init ==
  /\ status = [p \in Pid |-> IF p = First THEN "starting" ELSE "gone"]
  /\ filename = [p \in Pid |-> Nil]
  /\ log = [p \in Pid |-> Nil]
  /\ names = [p \in Pid |-> 0]
  /\ replaced = [p \in Pid |-> 0]
  /\ generation = [p \in Pid |-> 0]

\* What filename points to.
Held(p) == IF filename[p] = Nil THEN 0 ELSE 1

Becomes(p, s) == status' = [status EXCEPT ![p] = s]

-----------------------------------------------------------------------------
\* newInstance constructs the object, with no name, unless there is no memory for
\* it.  If its base class then cannot be initialised it is torn down again.
NewInstance(p) ==
  /\ status[p] = "starting"
  /\ Becomes(p, "new") \/ Becomes(p, "gone")
  /\ UNCHANGED <<filename, log, memory, generation>>

\* configureVerboseGC(name), by the options of the VM or later.  When there is
\* no memory for the copy the writer has already been opened.  The base class is
\* taken to change nothing when it refuses.  A name from an earlier call is lost.
Configure(p, name) ==
  /\ p = First
  /\ status[p] \in {"new", "settled", "refused"}
  /\ replaced[p] + Held(p) <= MaxReplaced
  /\ \/ /\ Becomes(p, "refused")
        /\ UNCHANGED <<filename, log, memory>>
     \/ /\ log' = [log EXCEPT ![p] = Expanded(name, p)]
        /\ replaced' = [replaced EXCEPT ![p] = @ + Held(p)]
        /\ \/ /\ filename' = [filename EXCEPT ![p] = name]
              /\ names' = [names EXCEPT ![p] = @ + 1]
              /\ Becomes(p, "settled")
           \/ /\ filename' = [filename EXCEPT ![p] = Nil]
              /\ Becomes(p, "refused")
              /\ UNCHANGED names
  /\ UNCHANGED generation

\* The child has copies of its parent's memory and open files.
Fork(p, q) ==
  /\ p \in Living
  /\ status[q] = "gone"
  /\ generation[p] < MaxGenerations
  /\ Becomes(q, "forked")
  /\ filename' = [filename EXCEPT ![q] = filename[p]]
  /\ log' = [log EXCEPT ![q] = log[p]]
  /\ names' = [names EXCEPT ![q] = names[p]]
  /\ replaced' = [replaced EXCEPT ![q] = replaced[p]]
  /\ generation' = [generation EXCEPT ![q] = generation[p] + 1]

\* Mutant: the old name is not freed.
WithNewNameOnly(p, name) ==
  /\ filename' = [filename EXCEPT ![p] = name]
  /\ names' = [names EXCEPT ![p] = @ + 1]
  /\ UNCHANGED replaced

\* The old name is freed once the new one has been made from it.
WithNewName(p, name) ==
  /\ filename' = [filename EXCEPT ![p] = name]
  /\ names' = [names EXCEPT ![p] = @ + 1 - Held(p)]
  /\ UNCHANGED replaced

\* Where the base class writes to when it is given no name.
DefaultLog == [stem |-> <<"stderr">>, extension |-> <<>>]

\* Mutant: the writer is opened by the name of the parent.
ReopenParents(p, name) ==
  \/ /\ Becomes(p, "settled")
     /\ log' = [log EXCEPT ![p] = IF filename[p] = Nil THEN DefaultLog
                                                       ELSE Expanded(filename[p], p)]
  \/ /\ Becomes(p, "refused")
     /\ UNCHANGED log

\* The base class opens the writer anew, or refuses to.
Reopen(p, name) ==
  \/ /\ Becomes(p, "settled")
     /\ log' = [log EXCEPT ![p] = IF name = Nil THEN DefaultLog ELSE Expanded(name, p)]
  \/ /\ Becomes(p, "refused")
     /\ UNCHANGED log

\* reconfigureVerboseGC.  The buffer of the new name is not tested: without
\* memory it is written through a null pointer.  A process whose parent had no
\* name passes a null pointer on.
Reconfigure(p) ==
  /\ status[p] = "forked"
  /\ \/ /\ filename[p] # Nil
        /\ NeedsPid(filename[p])
        /\ WithNewName(p, WithPid(filename[p], p))
        /\ Reopen(p, WithPid(filename[p], p))
     \/ /\ filename[p] # Nil
        /\ ~NeedsPid(filename[p])
        /\ Reopen(p, filename[p])
        /\ UNCHANGED <<filename, memory>>
     \/ /\ filename[p] = Nil
        /\ Reopen(p, Nil)
        /\ UNCHANGED <<filename, memory>>
     \/ /\ filename[p] # Nil => NeedsPid(filename[p])
        /\ Becomes(p, "crashed")
        /\ UNCHANGED <<filename, log, memory>>
  /\ UNCHANGED generation

\* Mutant: the name is not freed.
TearDownKeepingName(p) ==
  /\ p \in Living
  /\ Becomes(p, "gone")
  /\ filename' = [filename EXCEPT ![p] = Nil]
  /\ log' = [log EXCEPT ![p] = Nil]
  /\ generation' = [generation EXCEPT ![p] = 0]
  /\ UNCHANGED memory

\* tearDown.
TearDown(p) ==
  /\ p \in Living
  /\ Becomes(p, "gone")
  /\ names' = [names EXCEPT ![p] = @ - Held(p)]
  /\ filename' = [filename EXCEPT ![p] = Nil]
  /\ log' = [log EXCEPT ![p] = Nil]
  /\ generation' = [generation EXCEPT ![p] = 0]
  /\ UNCHANGED replaced

\* The end of a process, in an orderly way or not; its number may be used again.
Exit(p) ==
  /\ Becomes(p, "gone")
  /\ filename' = [filename EXCEPT ![p] = Nil]
  /\ log' = [log EXCEPT ![p] = Nil]
  /\ names' = [names EXCEPT ![p] = 0]
  /\ replaced' = [replaced EXCEPT ![p] = 0]
  /\ generation' = [generation EXCEPT ![p] = 0]

AllGone == /\ \A p \in Pid : status[p] = "gone"
           /\ UNCHANGED vars

Next ==
  \/ \E p \in Pid : \/ NewInstance(p)
                    \/ \E name \in Given : Configure(p, name)
                    \/ \E q \in Pid : Fork(p, q)
                    \/ Reconfigure(p)
                    \/ TearDown(p)
                    \/ Exit(p)
  \/ AllGone

Spec == Init /\ [][Next]_vars

-----------------------------------------------------------------------------
TypeOK ==
  /\ status \in [Pid -> Statuses]
  /\ names \in [Pid -> 0 .. MaxReplaced + 1]
  /\ replaced \in [Pid -> 0 .. MaxReplaced]
  /\ generation \in [Pid -> 0 .. MaxGenerations]
  /\ filename \in [Pid -> Name \cup {Nil}]
  /\ log \in [Pid -> Name \cup {Nil}]

Settled == {p \in Pid : status[p] = "settled"}

\* What reconfigureVerboseGC is for (VerboseManagerImpl.cpp:85-88): no two living
\* processes whose managers were configured write to one file, however they
\* descend from each other, and however often numbers are used again.
ProcessesApart ==
  \A p, q \in Settled : p # q => log[p] # log[q] \/ log[p] \in Streams

\* The name kept is the one the writer was opened with: what a process passes to
\* its children (VerboseManagerImpl.cpp:76, 114) is where it writes itself.
LogIsNamed ==
  \A p \in Settled : IF filename[p] = Nil THEN log[p] \in Streams
                                          ELSE log[p] = Expanded(filename[p], p)

\* Of the names that were allocated, in this process or in one it descends from, no
\* more is lost than configureVerboseGC overwrites: reconfigureVerboseGC and
\* tearDown free what they replace (VerboseManagerImpl.cpp:57, 71, 113).
LostNamesWereReplaced == \A p \in Pid : names[p] = Held(p) + replaced[p]
=============================================================================
