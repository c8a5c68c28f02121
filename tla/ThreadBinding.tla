--------------------------- MODULE ThreadBinding ---------------------------
(***************************************************************************)
(* OMR_Glue_BindCurrentThread and OMR_Glue_UnbindCurrentThread of          *)
(* LanguageVMGlue.c: how native threads become threads of the VM.          *)
(*                                                                         *)
(* Bindings nest.  The first one of a thread attaches it to the thread     *)
(* library and makes a VM thread for it; the following ones count up.  The *)
(* calls to OMR and to the thread library may fail, and only their outcome *)
(* is known here.  The three hooks for the language (to allocate, free and *)
(* link a language thread) do nothing and never fail, so what would clean  *)
(* up after them is dead code and left out.                                *)
(***************************************************************************)
EXTENDS Integers, Threads

CONSTANT MaxNesting   \* bound: how deep a thread binds itself

ASSUME NestingAssumption == MaxNesting \in Nat

VARIABLES
  pc,           \* where in one of the two functions each thread is
  native,       \* its attachments to the thread library made here
  attachCount,  \* of its VM thread, 0 when it has none
  held,         \* history: bindings that succeeded less those undone
  rc            \* the answer to its last call

vars == <<pc, native, attachCount, held, rc>>

Answers == {"none", "failed_to_attach", "first_init_failed", "not_attached",
            "last_free_failed"}

Init ==
  /\ pc = [t \in Thread |-> "outside"]
  /\ native = [t \in Thread |-> 0]
  /\ attachCount = [t \in Thread |-> 0]
  /\ held = [t \in Thread |-> 0]
  /\ rc = [t \in Thread |-> "none"]

Goto(t, label) == /\ pc' = [pc EXCEPT ![t] = label]
                  /\ UNCHANGED <<held, rc>>

Succeed(t, n) == /\ pc' = [pc EXCEPT ![t] = "outside"]
                 /\ held' = [held EXCEPT ![t] = @ + n]
                 /\ rc' = [rc EXCEPT ![t] = "none"]

Fail(t, answer) == /\ pc' = [pc EXCEPT ![t] = "outside"]
                   /\ rc' = [rc EXCEPT ![t] = answer]
                   /\ UNCHANGED held

Count(t, n) == attachCount' = [attachCount EXCEPT ![t] = @ + n]

\* omrthread_attach_ex (1) and omrthread_detach (-1).
Native(t, n) == native' = [native EXCEPT ![t] = @ + n]

-----------------------------------------------------------------------------
(* OMR_Glue_BindCurrentThread. *)

Bind(t) ==
  /\ pc[t] = "outside"
  /\ held[t] < MaxNesting
  /\ \/ /\ attachCount[t] = 0
        /\ Goto(t, "attach")
        /\ UNCHANGED attachCount
     \/ /\ attachCount[t] > 0
        /\ Count(t, 1)
        /\ Succeed(t, 1)
  /\ UNCHANGED native

Attach(t) ==
  /\ pc[t] = "attach"
  /\ \/ /\ Native(t, 1)
        /\ Goto(t, "first_init")
     \/ /\ Fail(t, "failed_to_attach")
        /\ UNCHANGED native
  /\ UNCHANGED attachCount

\* Mutant: the cleanup is passed over.
FirstInitOnly(t) ==
  /\ pc[t] = "first_init"
  /\ \/ /\ Count(t, 1)
        /\ Succeed(t, 1)
     \/ /\ Fail(t, "first_init_failed")
        /\ UNCHANGED attachCount
  /\ UNCHANGED native

FirstInit(t) ==
  /\ pc[t] = "first_init"
  /\ \/ /\ Count(t, 1)
        /\ Succeed(t, 1)
        /\ UNCHANGED native
     \/ /\ Native(t, -1)
        /\ Fail(t, "first_init_failed")
        /\ UNCHANGED attachCount

-----------------------------------------------------------------------------
(* OMR_Glue_UnbindCurrentThread, of the VM thread of the calling thread. *)

Unbind(t) ==
  /\ pc[t] = "outside"
  /\ \/ /\ attachCount[t] = 0
        /\ Fail(t, "not_attached")
        /\ UNCHANGED attachCount
     \/ /\ attachCount[t] = 1
        /\ Goto(t, "last_free")
        /\ UNCHANGED attachCount
     \/ /\ attachCount[t] > 1
        /\ Count(t, -1)
        /\ Succeed(t, -1)
  /\ UNCHANGED native

\* Mutant: the native thread is detached before the VM thread is destroyed.
LastFreeDetached(t) ==
  /\ pc[t] = "last_free"
  /\ Native(t, -1)
  /\ Goto(t, "detach")
  /\ UNCHANGED attachCount

\* A failing OMR_Thread_LastFree is taken to leave the VM thread as it was.
LastFree(t) ==
  /\ pc[t] = "last_free"
  /\ \/ /\ Count(t, -1)
        /\ Goto(t, "detach")
     \/ /\ Fail(t, "last_free_failed")
        /\ UNCHANGED attachCount
  /\ UNCHANGED native

\* The native thread is the one saved before the VM thread was destroyed.
Detach(t) ==
  /\ pc[t] = "detach"
  /\ Native(t, -1)
  /\ Succeed(t, -1)
  /\ UNCHANGED attachCount

Next == \E t \in Thread :
          \/ Bind(t) \/ Attach(t) \/ FirstInit(t)
          \/ Unbind(t) \/ LastFree(t) \/ Detach(t)

Spec == Init /\ [][Next]_vars

-----------------------------------------------------------------------------
TypeOK ==
  /\ pc \in [Thread -> {"outside", "attach", "first_init", "last_free", "detach"}]
  /\ native \in [Thread -> {0, 1}]
  /\ attachCount \in [Thread -> 0 .. MaxNesting]
  /\ held \in [Thread -> 0 .. MaxNesting]
  /\ rc \in [Thread -> Answers]

\* Whatever failed, a thread is attached natively exactly while it is bound, and
\* is bound as often as its calls answered (LanguageVMGlue.c:25-101): a failed
\* binding undoes what it did, and a failed unbinding can be tried again.
BoundAsAnswered ==
  \A t \in Thread : pc[t] = "outside" =>
    /\ attachCount[t] = held[t]
    /\ native[t] = IF held[t] > 0 THEN 1 ELSE 0

\* A thread of the VM is attached natively at every moment: its VM thread goes
\* before the native attachment does.
VMThreadsAreNative == \A t \in Thread : attachCount[t] > 0 => native[t] = 1
=============================================================================
