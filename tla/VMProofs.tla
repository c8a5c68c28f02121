------------------------------ MODULE VMProofs ------------------------------
(***************************************************************************)
(* For any number of threads.  The VM binds its threads as ThreadBinding   *)
(* does alone, so what was proved of that holds here; the countdowns of    *)
(* the profiler stay in their range, which no subtraction leaves; and the  *)
(* race of the threads for the modes of the collector has one winner for   *)
(* each.  The invariant of the race says that the one thread at the roots  *)
(* is there because it moved the collector to tracing only.                *)
(***************************************************************************)
EXTENDS VM, ThreadBindingProofs

-----------------------------------------------------------------------------
(* Composition. *)

\* A step of the VM is one of ThreadBinding, or does not touch its state.
LEMMA BindingStep == VMNext => [Next]_vars
<1>1. ASSUME VMNext, NEW t \in Thread, Binding(t)
      PROVE  Next
  BY <1>1 DEF Binding, Next
<1>2. ASSUME VMNext, NEW t \in Thread, Profile(t) \/ Pay(t)
      PROVE  UNCHANGED vars
  BY <1>2 DEF Profile, Pay
<1>3. Environment => UNCHANGED vars
  BY DEF Environment
<1> QED
  BY <1>1, <1>2, <1>3 DEF VMNext

\* The VM implements ThreadBinding (LanguageVMGlue.c), whatever profiling and the
\* collector do meanwhile.
THEOREM VMBindsThreads == VMSpec => Spec
<1>1. VMInit => Init
  BY DEF VMInit
<1>2. [VMNext]_VMVars => [Next]_vars
  <2>1. UNCHANGED VMVars => UNCHANGED vars
    BY DEF VMVars
  <2> QED
    BY <2>1, BindingStep
<1> QED
  BY <1>1, <1>2, PTL DEF VMSpec, Spec

\* Bindings balance in the VM as a whole.
THEOREM VMBindingsBalance == VMSpec => [](BoundAsAnswered /\ VMThreadsAreNative)
BY VMBindsThreads, BindingsBalance, VMThreadsNative, PTL

-----------------------------------------------------------------------------
(* Profiling. *)

Counting == backoff \in [Thread -> 0 .. BACKOFF_MAX]

\* The words wrap at Word, which the subtraction never meets.
LEMMA CountdownRange ==
  ASSUME NEW n \in 0 .. BACKOFF_MAX
  PROVE  /\ Countdown(n) \in 0 .. BACKOFF_MAX
         /\ Countdown(n) = IF BACKOFF_TIMER_DECR > n THEN 0 ELSE n - BACKOFF_TIMER_DECR
<1> USE BackoffAssumption
<1>1. CASE BACKOFF_TIMER_DECR > n
  BY <1>1 DEF Countdown
<1>2. CASE ~(BACKOFF_TIMER_DECR > n)
  <2>1. n - BACKOFF_TIMER_DECR \in 0 .. BACKOFF_MAX /\ n - BACKOFF_TIMER_DECR < Word
    BY <1>2
  <2>2. (n - BACKOFF_TIMER_DECR) % Word = n - BACKOFF_TIMER_DECR
    BY <2>1
  <2> QED
    BY <1>2, <2>1, <2>2 DEF Countdown
<1> QED
  BY <1>1, <1>2

LEMMA CountingStep == Counting /\ [VMNext]_VMVars => Counting'
<1> SUFFICES ASSUME Counting, [VMNext]_VMVars
             PROVE  Counting'
  OBVIOUS
<1>1. ASSUME NEW t \in Thread, Binding(t)
      PROVE  Counting'
  BY <1>1, BackoffAssumption DEF Counting, Binding, NewCountdown, profilingVars
<1>2. ASSUME NEW t \in Thread, Profile(t)
      PROVE  Counting'
  <2>1. CASE checkSampleStack(t)
    <3> DEFINE n == IF backoff[t] = 0 THEN BACKOFF_MAX ELSE backoff[t]
    <3>1. n \in 0 .. BACKOFF_MAX
      BY BackoffAssumption DEF Counting
    <3>2. Countdown(n) \in 0 .. BACKOFF_MAX
      BY <3>1, CountdownRange
    <3>3. backoff' = [backoff EXCEPT ![t] = Countdown(n)]
      BY <2>1 DEF checkSampleStack
    <3> QED
      BY <3>2, <3>3 DEF Counting
  <2>2. CASE \E m \in Method : insertMethodEntry(m)
    BY <2>2 DEF insertMethodEntry, Counting
  <2> QED
    BY <1>2, <2>1, <2>2 DEF Profile
<1>3. ASSUME NEW t \in Thread, Pay(t)
      PROVE  Counting'
  BY <1>3 DEF Pay, profilingVars, Counting
<1>4. CASE Environment
  BY <1>4 DEF Environment, SwitchSampling, profilingVars, Counting
<1>5. CASE UNCHANGED VMVars
  BY <1>5 DEF VMVars, profilingVars, Counting
<1> QED
  BY <1>1, <1>2, <1>3, <1>4, <1>5 DEF VMNext

\* No countdown of ex_omr_checkSampleStack ever wraps, for any maximum and any step
\* (Profiling.c:114-118).
THEOREM CountdownNeverWraps == VMSpec => []Counting
<1>1. VMInit => Counting
  BY BackoffAssumption DEF VMInit, ProfilingInit, Counting
<1> QED
  BY <1>1, CountingStep, PTL DEF VMSpec

\* Interval is the least number of steps that use the maximum up.
LEMMA IntervalRange ==
  /\ Interval \in Nat \ {0}
  /\ Interval * BACKOFF_TIMER_DECR >= BACKOFF_MAX
  /\ \A c \in Nat : c < Interval => c * BACKOFF_TIMER_DECR < BACKOFF_MAX
<1> DEFINE D == BACKOFF_TIMER_DECR
           M == BACKOFF_MAX
           q == (M + D - 1) \div D
<1>1. D \in Nat \ {0} /\ M \in Nat \ {0}
  BY BackoffAssumption
<1> HIDE DEF D, M
<1>2. q \in Int /\ D * q <= M + D - 1 /\ M + D - 1 < D * q + D
  BY <1>1, Z3
<1> HIDE DEF q
<1>3. q \in Nat \ {0} /\ q * D >= M
  BY <1>1, <1>2, Z3
<1>4. ASSUME NEW c \in Nat, c < q
      PROVE  c * D < M
  <2>1. c + 1 <= q
    BY <1>2, <1>4
  <2>2. (c + 1) * D <= q * D
    BY <1>1, <1>2, <2>1, Z3
  <2>3. c * D + D <= M + D - 1
    BY <1>1, <1>2, <2>2, Z3
  <2> QED
    BY <1>1, <2>3, Z3
<1> QED
  BY <1>3, <1>4 DEF q, M, D, Interval

Left(c) == IF c * BACKOFF_TIMER_DECR < BACKOFF_MAX
             THEN BACKOFF_MAX - c * BACKOFF_TIMER_DECR ELSE 0

Timed(t) ==
  /\ calls[t] = 0 => backoff[t] = 0
  /\ calls[t] > 0 => backoff[t] = Left(calls[t])
  /\ answer[t] \in {"sampled", "off"} <=> calls[t] = 1

TimedInv == /\ Counting
            /\ calls \in [Thread -> 0 .. Interval]
            /\ answer \in [Thread -> {"none", "sampled", "off", "counting"}]
            /\ \A t \in Thread : Timed(t)

LEMMA TimedCall ==
  ASSUME TimedInv, NEW t \in Thread, checkSampleStack(t)
  PROVE  TimedInv'
<1> USE DEF TimedInv
<1> DEFINE c == calls[t]
           n == IF backoff[t] = 0 THEN BACKOFF_MAX ELSE backoff[t]
<1>1. /\ backoff' = [backoff EXCEPT ![t] = Countdown(n)]
      /\ calls' = [calls EXCEPT ![t] = (c % Interval) + 1]
      /\ answer' = [answer EXCEPT ![t] = IF backoff[t] # 0 THEN "counting"
                                         ELSE IF sampling THEN "sampled" ELSE "off"]
  BY DEF checkSampleStack
<1>2. /\ c \in 0 .. Interval
      /\ n \in 0 .. BACKOFF_MAX
      /\ backoff[t] \in 0 .. BACKOFF_MAX
      /\ Interval \in Nat \ {0}
  BY BackoffAssumption, IntervalRange DEF Counting
<1>3. Countdown(n) = IF BACKOFF_TIMER_DECR > n THEN 0 ELSE n - BACKOFF_TIMER_DECR
  BY <1>2, CountdownRange
<1>4. CASE backoff[t] = 0
  <2>1. c = 0 \/ c = Interval
    BY <1>2, <1>4, IntervalRange, BackoffAssumption DEF Timed, Left
  <2>2. (c % Interval) + 1 = 1
    BY <1>2, <2>1
  <2>3. Countdown(n) = Left(1)
    BY <1>3, <1>4, BackoffAssumption DEF Left
  <2>4. \A u \in Thread : Timed(u)'
    BY <1>1, <1>4, <2>2, <2>3 DEF Timed, Counting
  <2>5. /\ Counting'
        /\ (calls \in [Thread -> 0 .. Interval])'
        /\ (answer \in [Thread -> {"none", "sampled", "off", "counting"}])'
    BY <1>1, <1>2, <2>2, CountdownRange DEF Counting
  <2> QED
    BY <2>4, <2>5
<1>5. CASE backoff[t] # 0
  <2>1. c > 0 /\ backoff[t] = Left(c) /\ n = backoff[t]
    BY <1>2, <1>5 DEF Timed
  <2>2. c < Interval
    <3>1. Left(Interval) = 0
      BY IntervalRange, BackoffAssumption DEF Left
    <3>2. c # Interval
      BY <1>5, <2>1, <3>1
    <3> QED
      BY <1>2, <3>2
  <2>3. (c % Interval) + 1 = c + 1
    BY <1>2, <2>2
  <2>4. Countdown(n) = Left(c + 1)
    <3>1. (c + 1) * BACKOFF_TIMER_DECR = c * BACKOFF_TIMER_DECR + BACKOFF_TIMER_DECR
      BY <1>2, BackoffAssumption, Z3
    <3>2. c * BACKOFF_TIMER_DECR \in Nat
      BY <1>2, BackoffAssumption, Z3
    <3> QED
      BY <1>3, <1>5, <2>1, <3>1, <3>2, BackoffAssumption DEF Left
  <2>5. \A u \in Thread : Timed(u)'
    <3>1. Timed(t)'
      BY <1>1, <1>2, <1>5, <2>1, <2>3, <2>4 DEF Timed, Counting
    <3>2. ASSUME NEW u \in Thread, u # t
          PROVE  Timed(u)'
      BY <1>1, <3>2 DEF Timed, Counting
    <3> QED
      BY <3>1, <3>2
  <2>6. /\ Counting'
        /\ (calls \in [Thread -> 0 .. Interval])'
        /\ (answer \in [Thread -> {"none", "sampled", "off", "counting"}])'
    BY <1>1, <1>2, <1>5, <2>2, <2>3, CountdownRange DEF Counting
  <2> QED
    BY <2>5, <2>6
<1> QED
  BY <1>4, <1>5

LEMMA TimedStep == TimedInv /\ [VMNext]_VMVars => TimedInv'
<1> SUFFICES ASSUME TimedInv, [VMNext]_VMVars
             PROVE  TimedInv'
  OBVIOUS
<1>1. CASE UNCHANGED <<backoff, calls, answer>>
  BY <1>1 DEF TimedInv, Counting, Timed
<1>2. ASSUME NEW t \in Thread, Binding(t)
      PROVE  TimedInv'
  <2>1. CASE NewCountdown(t)
    BY <2>1, BackoffAssumption, IntervalRange
       DEF NewCountdown, TimedInv, Counting, Timed
  <2> QED
    BY <1>1, <1>2, <2>1 DEF Binding, profilingVars
<1>3. ASSUME NEW t \in Thread, Profile(t)
      PROVE  TimedInv'
  BY <1>1, <1>3, TimedCall DEF Profile, insertMethodEntry
<1>4. \A t \in Thread : Pay(t) => UNCHANGED <<backoff, calls, answer>>
  BY DEF Pay, profilingVars
<1>5. Environment => UNCHANGED <<backoff, calls, answer>>
  BY DEF Environment, SwitchSampling, profilingVars
<1> QED
  BY <1>1, <1>2, <1>3, <1>4, <1>5 DEF VMNext, VMVars, profilingVars

LEMMA TimedInvariant == VMSpec => []TimedInv
<1>1. VMInit => TimedInv
  BY BackoffAssumption, IntervalRange
     DEF VMInit, ProfilingInit, TimedInv, Counting, Timed
<1> QED
  BY <1>1, TimedStep, PTL DEF VMSpec

\* For any maximum and any step, each VM thread has its stack looked at in the first
\* of every Interval of its calls (Profiling.c:105-119).
THEOREM StacksSampled == VMSpec => []SampledEachInterval
<1>1. TimedInv => SampledEachInterval
  BY DEF TimedInv, Timed, SampledEachInterval
<1> QED
  BY <1>1, TimedInvariant, PTL

-----------------------------------------------------------------------------
(* Concurrent marking. *)

Racing(t) ==
  /\ tax[t] \in {"switch", "collect"} =>
       mode[t] \in {CONCURRENT_ROOT_TRACING, CONCURRENT_ROOT_TRACING1}
  /\ tax[t] = "collect" => /\ mode[t] = CONCURRENT_ROOT_TRACING1
                           /\ status = CONCURRENT_TRACE_ONLY
                           /\ collections = 0
  /\ tax[t] # Unreachable

OneAtRoots == \A t, u \in Thread : tax[t] = "collect" /\ tax[u] = "collect" => t = u

RaceInv ==
  /\ tax \in [Thread -> {"none", "switch", "collect", Unreachable}]
  /\ mode \in [Thread -> {CONCURRENT_OFF, CONCURRENT_ROOT_TRACING,
                          CONCURRENT_ROOT_TRACING1}]
  /\ collections \in {0, 1}
  /\ \A t \in Thread : Racing(t)
  /\ OneAtRoots
  /\ status # CONCURRENT_TRACE_ONLY => collections = 0
  /\ status = CONCURRENT_TRACE_ONLY /\ collections = 0
       => \E t \in Thread : tax[t] = "collect"

LEMMA PayKeepsRace ==
  ASSUME RaceInv, NEW t \in Thread, PayTax(t) \/ SwitchMode(t) \/ collectRoots(t)
  PROVE  RaceInv'
<1> USE DEF Racing, OneAtRoots, RaceInv, CONCURRENT_OFF, CONCURRENT_ROOT_TRACING,
            CONCURRENT_ROOT_TRACING1, CONCURRENT_TRACE_ONLY, Unreachable
<1>1. CASE PayTax(t)
  BY <1>1 DEF PayTax
<1>2. CASE SwitchMode(t)
  <2> DEFINE next == getNextTracingMode(mode[t])
  <2>1. /\ mode[t] \in {CONCURRENT_ROOT_TRACING, CONCURRENT_ROOT_TRACING1}
        /\ next = IF mode[t] = CONCURRENT_ROOT_TRACING
                    THEN CONCURRENT_ROOT_TRACING1 ELSE CONCURRENT_TRACE_ONLY
        /\ next # Unreachable
    BY <1>2 DEF SwitchMode, getNextTracingMode
  <2>2. CASE status # mode[t]
    BY <1>2, <2>1, <2>2 DEF SwitchMode
  <2>3. CASE status = mode[t] /\ mode[t] = CONCURRENT_ROOT_TRACING
    BY <1>2, <2>1, <2>3 DEF SwitchMode
  <2>4. CASE status = mode[t] /\ mode[t] = CONCURRENT_ROOT_TRACING1
    <3>1. \A u \in Thread : tax[u] # "collect"
      BY <2>4
    <3>2. /\ status' = CONCURRENT_TRACE_ONLY
          /\ tax' = [tax EXCEPT ![t] = "collect"]
          /\ UNCHANGED <<mode, collections>>
      BY <1>2, <2>1, <2>4 DEF SwitchMode
    <3> QED
      BY <2>4, <3>1, <3>2
  <2> QED
    BY <2>1, <2>2, <2>3, <2>4
<1>3. CASE collectRoots(t)
  BY <1>3 DEF collectRoots
<1> QED
  BY <1>1, <1>2, <1>3

LEMMA RaceStep == RaceInv /\ [VMNext]_VMVars => RaceInv'
<1> SUFFICES ASSUME RaceInv, [VMNext]_VMVars
             PROVE  RaceInv'
  OBVIOUS
<1>1. CASE UNCHANGED markingVars
  BY <1>1 DEF markingVars, RaceInv, Racing, OneAtRoots
<1>2. ASSUME NEW t \in Thread, Pay(t)
      PROVE  RaceInv'
  BY <1>2, PayKeepsRace DEF Pay
<1>3. CASE initialize \/ KickOff \/ EndCycle
  BY <1>3 DEF initialize, KickOff, EndCycle, RaceInv, Racing, OneAtRoots, CONCURRENT_OFF,
     CONCURRENT_ROOT_TRACING, CONCURRENT_ROOT_TRACING1, CONCURRENT_TRACE_ONLY
<1>4. \A t \in Thread : Binding(t) \/ Profile(t) => UNCHANGED markingVars
  BY DEF Binding, Profile
<1> QED
  BY <1>1, <1>2, <1>3, <1>4 DEF VMNext, Environment, VMVars

LEMMA RaceInvariant == VMSpec => []RaceInv
<1>1. VMInit => RaceInv
  BY DEF VMInit, MarkingInit, RaceInv, Racing, OneAtRoots, Unreachable, CONCURRENT_OFF,
     CONCURRENT_TRACE_ONLY
<1> QED
  BY <1>1, RaceStep, PTL DEF VMSpec

\* For any number of threads that pay at once, the roots are marked exactly once in
\* a cycle that gets as far as tracing only (ConcurrentMarkingDelegate.cpp:38-53).
THEOREM RootsMarkedOnce == VMSpec => []RootsOnce
<1>1. RaceInv => RootsOnce
  BY DEF RaceInv, RootsOnce
<1> QED
  BY <1>1, RaceInvariant, PTL

\* Neither assertion of the delegate that a mode is never met
\* (ConcurrentMarkingDelegate.hpp:165, .cpp:49) fails.
THEOREM ModesAreKnown == VMSpec => []NeverUnreachable
<1>1. RaceInv => NeverUnreachable
  BY DEF RaceInv, Racing, NeverUnreachable
<1> QED
  BY <1>1, RaceInvariant, PTL

-----------------------------------------------------------------------------
(* Types. *)

Switches ==
  /\ sampling \in BOOLEAN
  /\ dictionary = NoDictionary \/ dictionary \subseteq Method
  /\ status \in {"constructed", CONCURRENT_OFF, CONCURRENT_ROOT_TRACING,
                 CONCURRENT_ROOT_TRACING1, CONCURRENT_TRACE_ONLY}

LEMMA SwitchesStep == Switches /\ [VMNext]_VMVars => Switches'
<1> SUFFICES ASSUME Switches, [VMNext]_VMVars
             PROVE  Switches'
  OBVIOUS
<1>1. CASE UNCHANGED <<sampling, dictionary, status>>
  BY <1>1 DEF Switches
<1>2. \A t \in Thread : Binding(t) => UNCHANGED <<sampling, dictionary, status>>
  BY DEF Binding, NewCountdown, profilingVars, markingVars
<1>3. ASSUME NEW t \in Thread, Profile(t)
      PROVE  Switches'
  BY <1>3 DEF Profile, checkSampleStack, insertMethodEntry, markingVars, Switches
<1>4. ASSUME NEW t \in Thread, Pay(t)
      PROVE  Switches'
  <2>1. UNCHANGED <<sampling, dictionary>>
    BY <1>4 DEF Pay, profilingVars
  <2>2. CASE SwitchMode(t)
    BY <2>1, <2>2 DEF SwitchMode, getNextTracingMode, Switches
  <2>3. CASE PayTax(t) \/ collectRoots(t)
    BY <2>1, <2>3 DEF PayTax, collectRoots, Switches
  <2> QED
    BY <1>4, <2>2, <2>3 DEF Pay
<1>5. CASE Environment
  BY <1>5 DEF Environment, SwitchSampling, initialize, KickOff, EndCycle, profilingVars,
     markingVars, Switches
<1>6. CASE UNCHANGED VMVars
  BY <1>1, <1>6 DEF VMVars, profilingVars, markingVars
<1> QED
  BY <1>1, <1>2, <1>3, <1>4, <1>5, <1>6 DEF VMNext

\* Type correctness of the VM: with it, no countdown leaves its range and no mode is
\* any but those the collector and its delegate have between them.
THEOREM VMTyped == VMSpec => []VMTypeOK
<1>1. VMInit => Switches
  BY DEF VMInit, ProfilingInit, MarkingInit, Switches
<1>2. VMSpec => []Switches
  BY <1>1, SwitchesStep, PTL DEF VMSpec
<1>3. TimedInv /\ RaceInv /\ Switches => ProfilingTypeOK /\ MarkingTypeOK
  BY DEF TimedInv, Counting, RaceInv, Switches, ProfilingTypeOK, MarkingTypeOK
<1>4. VMSpec => []TypeOK
  <2>1. Inv => TypeOK
    BY DEF Inv
  <2> QED
    BY <2>1, VMBindsThreads, Invariant, PTL
<1>5. ProfilingTypeOK /\ MarkingTypeOK /\ TypeOK => VMTypeOK
  BY DEF VMTypeOK
<1> QED
  BY <1>2, <1>3, <1>4, <1>5, TimedInvariant, RaceInvariant, PTL
=============================================================================
