SPECIFICATION VMSpec
CONSTANTS
  t1 = t1
  t2 = t2
  m1 = m1
  Thread = {t1, t2}
  MaxNesting = 2
  Method = {m1}
  BACKOFF_MAX = 5
  BACKOFF_TIMER_DECR = 2
  Word = 16
SYMMETRY ThreadsAlike
INVARIANTS VMTypeOK BoundAsAnswered VMThreadsAreNative SampledEachInterval NeverUnreachable RootsOnce
