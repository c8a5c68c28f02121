------------------------------ MODULE Startup ------------------------------
(***************************************************************************)
(* How a VM is put together and taken apart: MM_StartupManagerImpl, with   *)
(* the collector interface, the verbose manager and the delegates it hands *)
(* to OMR.  OMR is external: it reads the options, asks for the parts in   *)
(* an order of its own, and when one of them cannot be had, or in the end, *)
(* kills those it was given.  The VM is that of the process First; once it *)
(* is up, VerboseManager goes on.                                          *)
(***************************************************************************)
EXTENDS VerboseManager

CONSTANT Options   \* what OMR_GC_OPTIONS may hold

\* Of an option: whether the base class of MM_StartupManagerImpl handles it,
\* whether it begins with -Xgcpolicy:segregated, and whether it enables the
\* scavenger, which is for the base class to do.
Option == [base : BOOLEAN, segregated : BOOLEAN, scavenger : BOOLEAN]

ASSUME OptionsAssumption == Options \subseteq Seq(Option)

VARIABLES
  build,              \* which of the two optional collectors are compiled in
  given,              \* the environment variable OMR_GC_OPTIONS, or no options
  handled,            \* how many of them have been handled
  useSegregatedGC,    \* _useSegregatedGC
  scavengerEnabled,   \* of the extensions
  stage,              \* how far OMR is
  configuration,      \* the policy of the configuration made
  parts,              \* what OMR was handed and has not killed
  forge,              \* of every part: how often it was allocated and not freed
  inHand,             \* the part whose newInstance or kill runs, or none
  step                \* how far it is

options == <<build, given, handled, useSegregatedGC, scavengerEnabled>>

making == <<parts, forge, inHand, step>>

startupVars == <<options, stage, configuration, making>>

Part == {"configuration", "interface", "verbose"}

\* Those whose newInstance is not external.
Made == {"interface", "verbose"}

StartupInit ==
  /\ Init
  /\ build \in [segregated : BOOLEAN, scavenger : BOOLEAN]
  /\ given \in Options
  /\ handled = 0
  /\ useSegregatedGC = FALSE
  /\ scavengerEnabled = FALSE
  /\ stage = "options"
  /\ configuration = "none"
  /\ parts = {}
  /\ forge = [part \in Part |-> 0]
  /\ inHand = "none"
  /\ step = "none"

-----------------------------------------------------------------------------
(* Options. *)

\* Mutant: the base class is asked last.
handleOptionFirst(option) ==
  IF option.segregated /\ build.segregated
    THEN /\ useSegregatedGC' = TRUE
         /\ UNCHANGED <<scavengerEnabled, stage>>
  ELSE IF option.base
    THEN /\ scavengerEnabled' = (scavengerEnabled \/ option.scavenger)
         /\ UNCHANGED <<useSegregatedGC, stage>>
  ELSE /\ stage' = "closing"
       /\ UNCHANGED <<useSegregatedGC, scavengerEnabled>>

\* An option that nobody knows is taken to end the start.
handleOption(option) ==
  IF option.base
    THEN /\ scavengerEnabled' = (scavengerEnabled \/ option.scavenger)
         /\ UNCHANGED <<useSegregatedGC, stage>>
  ELSE IF option.segregated /\ build.segregated
    THEN /\ useSegregatedGC' = TRUE
         /\ UNCHANGED <<scavengerEnabled, stage>>
  ELSE /\ stage' = "closing"
       /\ UNCHANGED <<useSegregatedGC, scavengerEnabled>>

\* Those of getOptions, one after the other.
NextOption ==
  /\ stage = "options"
  /\ handled < Len(given)
  /\ handleOption(given[handled + 1])
  /\ handled' = handled + 1
  /\ UNCHANGED <<vars, build, given, configuration, making>>

OptionsHandled ==
  /\ stage = "options"
  /\ handled = Len(given)
  /\ stage' = "parts"
  /\ UNCHANGED <<vars, options, configuration, making>>

-----------------------------------------------------------------------------
(* Parts. *)

Asked(part) == stage = "parts" /\ inHand = "none" /\ part \notin parts

Takes(part, s) == inHand' = part /\ step' = s

Returns == Takes("none", "none")

Policy ==
  IF build.segregated /\ useSegregatedGC THEN "segregated"
  ELSE IF build.scavenger /\ scavengerEnabled THEN "generational"
  ELSE "flat"

\* OMR makes the configuration, and gives up when it cannot.
createConfiguration ==
  /\ Asked("configuration")
  /\ \/ /\ parts' = parts \cup {"configuration"}
        /\ forge' = [forge EXCEPT !["configuration"] = @ + 1]
        /\ configuration' = Policy
        /\ UNCHANGED stage
     \/ /\ stage' = "closing"
        /\ UNCHANGED <<configuration, parts, forge>>
  /\ UNCHANGED <<vars, options, inHand, step>>

createCollectorLanguageInterface ==
  /\ Asked("interface")
  /\ Takes("interface", "allocate")
  /\ UNCHANGED <<vars, options, stage, configuration, parts, forge>>

createVerboseManager ==
  /\ Asked("verbose")
  /\ Takes("verbose", "allocate")
  /\ UNCHANGED <<vars, options, stage, configuration, parts, forge>>

\* What is done to the object in hand, of which the interface keeps no state.
InHand(Manager) == IF inHand = "verbose" THEN Manager ELSE UNCHANGED vars

\* newInstance: the object is allocated and constructed, or a null pointer
\* returned, and OMR gives up.
allocate ==
  /\ step = "allocate"
  /\ \/ /\ forge' = [forge EXCEPT ![inHand] = @ + 1]
        /\ Takes(inHand, "initialize")
        /\ InHand(NewInstance(First) /\ status'[First] = "new")
        /\ UNCHANGED stage
     \/ /\ Returns
        /\ stage' = "closing"
        /\ InHand(NewInstance(First) /\ status'[First] = "gone")
        /\ UNCHANGED forge
  /\ UNCHANGED <<options, configuration, parts>>

\* MM_CollectorLanguageInterfaceImpl::initialize has nothing to refuse for; that
\* of the verbose manager is its base class's.
MayRefuse == {"verbose"}

\* Mutant: newInstance does not kill an object that is not initialised.
initializeUnkilled ==
  /\ step = "initialize"
  /\ Returns
  /\ \/ parts' = parts \cup {inHand} /\ UNCHANGED stage
     \/ inHand \in MayRefuse /\ stage' = "closing" /\ UNCHANGED parts
  /\ UNCHANGED <<vars, options, configuration, forge>>

\* newInstance: the object is handed to OMR once it is initialised, and otherwise
\* killed.
initialize ==
  /\ step = "initialize"
  /\ \/ parts' = parts \cup {inHand} /\ Returns
     \/ inHand \in MayRefuse /\ Takes(inHand, "tearDown") /\ UNCHANGED parts
  /\ UNCHANGED <<vars, options, stage, configuration, forge>>

\* kill, for newInstance or for OMR: first tearDown, then the memory is freed.
tearDown ==
  /\ step = "tearDown"
  /\ Takes(inHand, "free")
  /\ InHand(TearDown(First))
  /\ UNCHANGED <<options, stage, configuration, parts, forge>>

\* If it was newInstance, that returns a null pointer, and OMR gives up.
free ==
  /\ step = "free"
  /\ forge' = [forge EXCEPT ![inHand] = @ - 1]
  /\ parts' = parts \ {inHand}
  /\ Returns
  /\ stage' = "closing"
  /\ UNCHANGED <<vars, options, configuration>>

\* MM_FrequentObjectsStats::newInstance, if OMR asks for it, answers none.
createFrequentObjectsStats ==
  /\ stage = "parts" /\ inHand = "none"
  /\ stage' = "closing"
  /\ UNCHANGED <<vars, options, configuration, making>>

\* The delegates are asked whether they, the regions of the heap, the heap and the
\* first environment are fit for use, and none refuses.
ConfigurationDelegate ==
  [initialize                              |-> TRUE,
   initializeHeapRegionDescriptorExtension |-> TRUE,
   heapInitialized                         |-> TRUE,
   environmentInitialized                  |-> TRUE]

GlobalCollectorDelegate == [initialize |-> TRUE]

heapAddRange == TRUE

EnvironmentDelegate == [initialize |-> TRUE]

\* OMR may still find that there is no memory for the heap.
Up == /\ stage = "parts" /\ inHand = "none"
      /\ parts = Part
      /\ \A answer \in {ConfigurationDelegate[f] : f \in DOMAIN ConfigurationDelegate} : answer
      /\ GlobalCollectorDelegate.initialize
      /\ EnvironmentDelegate.initialize
      /\ heapAddRange
      /\ stage' \in {"up", "closing"}
      /\ UNCHANGED <<vars, options, configuration, making>>

-----------------------------------------------------------------------------
(* The end. *)

Shutdown == /\ stage = "up"
            /\ stage' = "closing"
            /\ UNCHANGED <<vars, options, configuration, making>>

\* The configuration kills itself, which is external.
Kill(part) ==
  /\ stage = "closing" /\ inHand = "none"
  /\ part \in parts
  /\ \/ /\ part \in Made
        /\ Takes(part, "tearDown")
        /\ UNCHANGED <<parts, forge>>
     \/ /\ part = "configuration"
        /\ parts' = parts \ {part}
        /\ forge' = [forge EXCEPT ![part] = @ - 1]
        /\ UNCHANGED <<inHand, step>>
  /\ UNCHANGED <<vars, options, stage, configuration>>

\* The process First ends, in an orderly way or not.
End ==
  /\ stage # "ended"
  /\ Exit(First)
  /\ stage' = "ended"
  /\ parts' = {}
  /\ forge' = [part \in Part |-> 0]
  /\ Returns
  /\ UNCHANGED <<options, configuration>>

\* The log, once there is a manager for it.  When First has ended, a process may
\* have its number.
Logging ==
  /\ \/ "verbose" \in parts /\ inHand = "none" /\ \E name \in Given : Configure(First, name)
     \/ \E p, q \in Pid : /\ p = First => stage \in {"up", "ended"}
                          /\ q = First => stage = "ended"
                          /\ Fork(p, q)
     \/ \E p \in Pid : Reconfigure(p)
     \/ \E p \in Pid : /\ p = First => stage = "ended"
                       /\ TearDown(p) \/ Exit(p)
     \/ AllGone
  /\ UNCHANGED startupVars

StartupNext ==
  \/ NextOption \/ OptionsHandled
  \/ createConfiguration \/ createCollectorLanguageInterface
  \/ createVerboseManager \/ createFrequentObjectsStats
  \/ allocate \/ initialize \/ tearDown \/ free
  \/ Up \/ Shutdown
  \/ \E part \in Part : Kill(part)
  \/ End
  \/ Logging

StartupSpec == StartupInit /\ [][StartupNext]_<<vars, startupVars>>

-----------------------------------------------------------------------------
StartupTypeOK ==
  /\ TypeOK
  /\ build \in [segregated : BOOLEAN, scavenger : BOOLEAN]
  /\ given \in Options
  /\ handled \in 0 .. Len(given)
  /\ useSegregatedGC \in BOOLEAN
  /\ scavengerEnabled \in BOOLEAN
  /\ stage \in {"options", "parts", "up", "closing", "ended"}
  /\ configuration \in {"none", "flat", "generational", "segregated"}
  /\ parts \subseteq Part
  /\ forge \in [Part -> {0, 1}]
  /\ inHand \in Made \cup {"none"}
  /\ step \in {"none", "allocate", "initialize", "tearDown", "free"}

\* Whichever part cannot be had, at whichever step, in whatever order they are asked
\* for: between calls a part is allocated once if OMR has it, and otherwise not
\* at all.  Of a VM that did not start, or was shut down, nothing is left but the
\* names of logs that a second configureVerboseGC overwrote
\* (CollectorLanguageInterfaceImpl.cpp:61-85, VerboseManagerImpl.cpp:37-58).
NothingLost ==
  step = "none" =>
    /\ \A part \in Part : forge[part] = IF part \in parts THEN 1 ELSE 0
    /\ stage = "closing" /\ parts = {} => names[First] = replaced[First]

\* The policy is segregated exactly when that collector is there and an option asks
\* for it that the base class does not claim for itself; the scavenger comes
\* after it (StartupManagerImpl.cpp:41-59, 81-100).
PolicyAsAsked ==
  LET asks(o) == o.segregated /\ ~o.base
      of      == {given[i] : i \in DOMAIN given}
  IN
  configuration # "none" =>
    /\ configuration = "segregated" <=> build.segregated /\ \E o \in of : asks(o)
    /\ configuration = "generational" => build.scavenger /\ \E o \in of : o.scavenger
    /\ configuration = "flat" /\ build.scavenger => \A o \in of : ~(o.base /\ o.scavenger)
=============================================================================
