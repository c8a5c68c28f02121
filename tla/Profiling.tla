----------------------------- MODULE Profiling -----------------------------
(***************************************************************************)
(* The hooks of Profiling.c.  An interpreter calls                         *)
(* ex_omr_checkSampleStack from time to time on each of its VM threads; a  *)
(* countdown in the VM thread lets few of the calls sample its stack.      *)
(*                                                                         *)
(* Sampling is switched on and off, and methods are put into the           *)
(* dictionary, by OMR.  Walking the stack is left to the language: what is *)
(* known of a sample here is that it is taken.                             *)
(***************************************************************************)
EXTENDS Integers, Threads

CONSTANTS
  Method,               \* what the dictionary can hold
  BACKOFF_MAX,          \* EX_OMR_SAMPLESTACK_BACKOFF_MAX, 10
  BACKOFF_TIMER_DECR,   \* EX_OMR_SAMPLESTACK_BACKOFF_TIMER_DECR, 1
  Word                  \* an unsigned word holds the numbers below Word

ASSUME BackoffAssumption == /\ BACKOFF_MAX \in Nat \ {0}
                            /\ BACKOFF_TIMER_DECR \in Nat \ {0}
                            /\ Word \in Nat
                            /\ BACKOFF_MAX < Word

VARIABLES
  backoff,      \* _sampleStackBackoff of each VM thread
  sampling,     \* omr_ras_sampleStackEnabled
  dictionary,   \* _methodDictionary: the methods in it, or that there is none
  calls,        \* history: the calls so far, counted anew after each interval
  answer        \* history: what the last call came to

profilingVars == <<backoff, sampling, dictionary, calls, answer>>

NoDictionary == {"none"}

\* The calls that one sample has to suffice for.
Interval == (BACKOFF_MAX + BACKOFF_TIMER_DECR - 1) \div BACKOFF_TIMER_DECR

ProfilingInit ==
  /\ backoff = [t \in Thread |-> 0]
  /\ sampling \in BOOLEAN
  /\ dictionary \in {NoDictionary, {}}
  /\ calls = [t \in Thread |-> 0]
  /\ answer = [t \in Thread |-> "none"]

\* OMR clears a new VM thread.
NewCountdown(t) ==
  /\ backoff' = [backoff EXCEPT ![t] = 0]
  /\ calls' = [calls EXCEPT ![t] = 0]
  /\ answer' = [answer EXCEPT ![t] = "none"]
  /\ UNCHANGED <<sampling, dictionary>>

\* Mutant: the end of the countdown is not looked for.
WrappingCountdown(n) == (n - BACKOFF_TIMER_DECR) % Word

Countdown(n) ==
  IF BACKOFF_TIMER_DECR > n THEN 0 ELSE (n - BACKOFF_TIMER_DECR) % Word

\* Mutant: the call that starts the countdown does not count.
checkSampleStackLate(t) ==
  /\ backoff' = [backoff EXCEPT
       ![t] = IF @ = 0 THEN BACKOFF_MAX ELSE Countdown(@)]
  /\ answer' = [answer EXCEPT ![t] = IF backoff[t] # 0 THEN "counting"
                                     ELSE IF sampling THEN "sampled" ELSE "off"]
  /\ calls' = [calls EXCEPT ![t] = (@ % Interval) + 1]
  /\ UNCHANGED <<sampling, dictionary>>

\* ex_omr_checkSampleStack
checkSampleStack(t) ==
  /\ backoff' = [backoff EXCEPT ![t] = Countdown(IF @ = 0 THEN BACKOFF_MAX ELSE @)]
  /\ answer' = [answer EXCEPT ![t] = IF backoff[t] # 0 THEN "counting"
                                     ELSE IF sampling THEN "sampled" ELSE "off"]
  /\ calls' = [calls EXCEPT ![t] = (@ % Interval) + 1]
  /\ UNCHANGED <<sampling, dictionary>>

\* ex_omr_insertMethodEntryInMethodDictionary; a failure is reported only.
insertMethodEntry(m) ==
  /\ dictionary # NoDictionary
  /\ dictionary' \in {dictionary, dictionary \cup {m}}
  /\ UNCHANGED <<backoff, sampling, calls, answer>>

\* By OMR, at any time.
SwitchSampling == /\ sampling' = ~sampling
                  /\ UNCHANGED <<backoff, dictionary, calls, answer>>

-----------------------------------------------------------------------------
ProfilingTypeOK ==
  /\ backoff \in [Thread -> 0 .. BACKOFF_MAX]
  /\ sampling \in BOOLEAN
  /\ dictionary = NoDictionary \/ dictionary \subseteq Method
  /\ calls \in [Thread -> 0 .. Interval]
  /\ answer \in [Thread -> {"none", "sampled", "off", "counting"}]

\* The stack of a VM thread is looked at in the first of its calls and in the first
\* of each interval that follows, in no other, whenever sampling was switched
\* on or off meanwhile and however often the thread was bound (Profiling.c:105-119).
SampledEachInterval ==
  \A t \in Thread : answer[t] \in {"sampled", "off"} <=> calls[t] = 1
=============================================================================
