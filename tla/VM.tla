--------------------------------- MODULE VM ---------------------------------
(***************************************************************************)
(* The threads of the VM: each binds and unbinds itself, lets its stack be *)
(* sampled, and pays for what it allocates, one at a time; the threads do  *)
(* so side by side, and with OMR, which switches sampling and starts and   *)
(* ends the cycles of the collector.  A thread has a countdown and can be  *)
(* asked to pay only as long as it has a VM thread.                        *)
(***************************************************************************)
EXTENDS ThreadBinding, Profiling, ConcurrentMarking

VMVars == <<vars, profilingVars, markingVars>>

VMInit == Init /\ ProfilingInit /\ MarkingInit

\* A new VM thread has a countdown of its own.
Binding(t) ==
  /\ tax[t] = "none"
  /\ \/ Bind(t) \/ Attach(t) \/ FirstInit(t)
     \/ Unbind(t) \/ LastFree(t) \/ Detach(t)
  /\ IF pc[t] = "first_init" /\ attachCount'[t] > 0
       THEN NewCountdown(t)
       ELSE UNCHANGED profilingVars
  /\ UNCHANGED markingVars

\* Outside of the two functions, and not paying.
Running(t) == pc[t] = "outside" /\ attachCount[t] > 0 /\ tax[t] = "none"

Profile(t) ==
  /\ Running(t)
  /\ \/ checkSampleStack(t)
     \/ \E m \in Method : insertMethodEntry(m)
  /\ UNCHANGED <<vars, markingVars>>

Pay(t) ==
  /\ \/ Running(t) /\ PayTax(t)
     \/ SwitchMode(t)
     \/ collectRoots(t)
  /\ UNCHANGED <<vars, profilingVars>>

Environment ==
  \/ SwitchSampling /\ UNCHANGED <<vars, markingVars>>
  \/ (initialize \/ KickOff \/ EndCycle) /\ UNCHANGED <<vars, profilingVars>>

VMNext == \/ \E t \in Thread : Binding(t) \/ Profile(t) \/ Pay(t)
          \/ Environment

VMSpec == VMInit /\ [][VMNext]_VMVars

-----------------------------------------------------------------------------
VMTypeOK == TypeOK /\ ProfilingTypeOK /\ MarkingTypeOK
=============================================================================
