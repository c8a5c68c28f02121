------------------------- MODULE ConcurrentMarking -------------------------
(***************************************************************************)
(* MM_ConcurrentMarkingDelegate: what the glue adds to a collector that    *)
(* marks while the program runs.  The collector itself is external.  It    *)
(* has its threads pay for what they allocate by tracing.  A thread reads  *)
(* the mode the collector is in, asks the delegate for the next one, and   *)
(* tries to switch to it; the one that does, does what the old mode was    *)
(* for.  Only the modes in which roots are traced reach the delegate.      *)
(***************************************************************************)
EXTENDS Naturals, Threads

VARIABLES
  status,       \* the mode of the collector, which the threads race for
  tax,          \* where in paying each thread is
  mode,         \* the mode it read
  collections   \* history: how often the roots were marked in this cycle

markingVars == <<status, tax, mode, collections>>

CONCURRENT_OFF           == "off"
CONCURRENT_ROOT_TRACING  == "root_tracing"
CONCURRENT_ROOT_TRACING1 == "root_tracing1"
CONCURRENT_TRACE_ONLY    == "trace_only"

\* Assert_MM_unreachable, which ends the process.
Unreachable == "unreachable"

MarkingInit ==
  /\ status = "constructed"
  /\ tax = [t \in Thread |-> "none"]
  /\ mode = [t \in Thread |-> CONCURRENT_OFF]
  /\ collections = 0

initialize ==
  /\ status = "constructed"
  /\ status' = CONCURRENT_OFF
  /\ UNCHANGED <<tax, mode, collections>>

\* Mutant: the delegate has no mode of its own.
NoRootTracing1(executionMode) == CONCURRENT_TRACE_ONLY

\* Mutant: the last mode of the delegate is forgotten.
ForgetRootTracing1(executionMode) ==
  CASE executionMode = CONCURRENT_ROOT_TRACING -> CONCURRENT_ROOT_TRACING1
    [] OTHER -> Unreachable

getNextTracingMode(executionMode) ==
  CASE executionMode = CONCURRENT_ROOT_TRACING  -> CONCURRENT_ROOT_TRACING1
    [] executionMode = CONCURRENT_ROOT_TRACING1 -> CONCURRENT_TRACE_ONLY
    [] OTHER -> Unreachable

\* The delegate is told that a cycle begins and that threads are to trace their
\* stacks, and does nothing.
concurrentInitializationComplete == TRUE

signalThreadsToActivateWriteBarrier == TRUE

\* Nor does it when the cycle is about to end, or is given up: it has no roots of
\* threads, and nothing to do with cards.
cardCleaningStarted == TRUE

\* A cycle begins once the program uses its write barriers.
KickOff ==
  /\ status = CONCURRENT_OFF
  /\ concurrentInitializationComplete
  /\ signalThreadsToActivateWriteBarrier
  /\ status' = CONCURRENT_ROOT_TRACING
  /\ UNCHANGED <<tax, mode, collections>>

PayTax(t) ==
  /\ tax[t] = "none"
  /\ status \in {CONCURRENT_ROOT_TRACING, CONCURRENT_ROOT_TRACING1}
  /\ mode' = [mode EXCEPT ![t] = status]
  /\ tax' = [tax EXCEPT ![t] = "switch"]
  /\ UNCHANGED <<status, collections>>

\* A thread that lost the race is done.
SwitchMode(t) ==
  LET next == getNextTracingMode(mode[t]) IN
  /\ tax[t] = "switch"
  /\ IF next = Unreachable
       THEN /\ tax' = [tax EXCEPT ![t] = Unreachable]
            /\ UNCHANGED status
     ELSE IF status = mode[t]
       THEN /\ status' = next
            /\ tax' = [tax EXCEPT ![t] = IF mode[t] = CONCURRENT_ROOT_TRACING
                                           THEN "none" ELSE "collect"]
     ELSE /\ tax' = [tax EXCEPT ![t] = "none"]
          /\ UNCHANGED status
  /\ UNCHANGED <<mode, collections>>

collectRoots(t) ==
  /\ tax[t] = "collect"
  /\ IF mode[t] = CONCURRENT_ROOT_TRACING1
       THEN /\ collections' = collections + 1
            /\ tax' = [tax EXCEPT ![t] = "none"]
       ELSE /\ tax' = [tax EXCEPT ![t] = Unreachable]
            /\ UNCHANGED collections
  /\ UNCHANGED <<status, mode>>

\* With exclusive access to the VM, a cycle is completed or given up.
EndCycle ==
  /\ status \notin {"constructed", CONCURRENT_OFF}
  /\ \A t \in Thread : tax[t] = "none"
  /\ cardCleaningStarted
  /\ status' = CONCURRENT_OFF
  /\ collections' = 0
  /\ UNCHANGED <<tax, mode>>

-----------------------------------------------------------------------------
MarkingTypeOK ==
  /\ status \in {"constructed", CONCURRENT_OFF, CONCURRENT_ROOT_TRACING,
                 CONCURRENT_ROOT_TRACING1, CONCURRENT_TRACE_ONLY}
  /\ tax \in [Thread -> {"none", "switch", "collect", Unreachable}]
  /\ mode \in [Thread -> {CONCURRENT_OFF, CONCURRENT_ROOT_TRACING,
                          CONCURRENT_ROOT_TRACING1}]
  /\ collections \in Nat

\* No race of threads brings a mode to the delegate that it has no case for: it is
\* asked for what follows a mode only while that is one of its own
\* (ConcurrentMarkingDelegate.hpp:157-166, ConcurrentMarkingDelegate.cpp:44-50).
NeverUnreachable == \A t \in Thread : tax[t] # Unreachable

\* However many threads pay at once, the roots are marked by one of them, and
\* have been when nobody is left at it and there is only tracing to do
\* (ConcurrentMarkingDelegate.cpp:38-53).
RootsOnce ==
  /\ collections <= 1
  /\ status # CONCURRENT_TRACE_ONLY => collections = 0
  /\ status = CONCURRENT_TRACE_ONLY /\ (\A t \in Thread : tax[t] # "collect")
       => collections = 1
=============================================================================
