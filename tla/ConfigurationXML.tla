-------------------------- MODULE ConfigurationXML --------------------------
(***************************************************************************)
(* The counter configuration of gatord (ConfigurationXML.cpp, namespace   *)
(* configuration_xml): getConfigurationXML loads configuration.xml or, if *)
(* it is missing or invalid, removes it and falls back to the built-in    *)
(* defaults; setCounters then fills the session's counter slots           *)
(* gSessionData.mCounters[0 .. MAX_PERFORMANCE_COUNTERS - 1], one addCounter *)
(* per configured counter, each given to the one driver that claims it.   *)
(*                                                                         *)
(* The daemon loads a configuration, then sets the counters from it, and  *)
(* does so again for each new configuration; between two loads the host  *)
(* may store another configuration.xml.  One thread does all of it, so    *)
(* getConfigurationXML is one step and each pass of setCounters' loop is  *)
(* one step.                                                               *)
(*                                                                         *)
(* A counter name is a positive number and the empty name is 0: the       *)
(* std::set<CounterConfiguration> is iterated in name order.  An XML      *)
(* document is its <counter> and <spe> elements; parseConfigurationContent *)
(* (ConfigurationXMLParser, not in these sources) calls addCounterToSet   *)
(* and addSpeToSet on them in order and fails when one of them reports an *)
(* error.  Event codes, warnings and the error text are not modelled: no  *)
(* slot, driver or enable flag depends on them.                            *)
(***************************************************************************)
EXTENDS Naturals, Sequences, FiniteSets

CONSTANTS
  Names,                  \* the non-empty counter names
  SpeIds,                 \* the non-empty SPE ids
  Drivers,                \* drivers.getAll()
  NoDriver,               \* counter.getDriver() == nullptr
  Claims,                 \* Claims[n]: the drivers whose claimCounter takes counter n
  Counts,                 \* the values of the count attribute
  MaxPerformanceCounters, \* MAX_PERFORMANCE_COUNTERS
  Xmls,                   \* the documents the host may store as configuration.xml
  DefaultXml,             \* DEFAULTS_XML with ${cluster} resolved
  NoFile,                 \* configuration.xml does not exist
  RemoveMayFail,          \* ::remove(path) may fail (e.g. a read-only directory)
  MaxLoads                \* bound on the number of configurations loaded

Empty == 0

CounterElems == [name : Names \cup {Empty}, count : Counts]
XmlDocs == [counters : Seq(CounterElems), spes : Seq(SpeIds \cup {Empty})]

ASSUME ConfigAssumption ==
  /\ IsFiniteSet(Names) /\ Names \subseteq Nat \ {0}
  /\ IsFiniteSet(SpeIds) /\ SpeIds \subseteq Nat \ {0}
  /\ NoDriver \notin Drivers
  /\ Claims \in [Names -> SUBSET Drivers]
  /\ Counts \subseteq Nat /\ 0 \in Counts
  /\ MaxPerformanceCounters \in Nat \ {0}
  /\ Xmls \subseteq XmlDocs /\ DefaultXml \in XmlDocs
  /\ NoFile \notin XmlDocs
  /\ RemoveMayFail \in BOOLEAN
  /\ MaxLoads \in Nat

Slots == 0 .. (MaxPerformanceCounters - 1)

CounterRecs == [type : Names \cup {Empty}, count : Counts,
                driver : Drivers \cup {NoDriver}, enabled : BOOLEAN]

VARIABLES
  disk,       \* the content of configuration.xml, or NoFile
  configs,    \* the counter configurations of the last load, in set order
  isDefault,  \* the last load fell back to the defaults
  mCounters,  \* gSessionData.mCounters
  mIsEBS,     \* gSessionData.mIsEBS
  index,      \* setCounters' index: the next slot to fill
  pos,        \* the position of setCounters' loop in configs
  pc,         \* "idle", "set" (loaded), "loop" (in setCounters) or "exited"
  loads       \* configurations loaded so far

vars == <<disk, configs, isDefault, mCounters, mIsEBS, index, pos, pc, loads>>

Init ==
  /\ disk \in Xmls \cup {NoFile}
  /\ configs = << >>
  /\ isDefault = FALSE
  /\ mCounters = [i \in Slots |-> [type |-> Empty, count |-> 0,
                                   driver |-> NoDriver, enabled |-> FALSE]]
  /\ mIsEBS = FALSE
  /\ index = 0 /\ pos = 1
  /\ pc = "idle"
  /\ loads = 0

-----------------------------------------------------------------------------
(* Parsing                                                                 *)

\* addCounterToSet: an empty name, or a name already in the set, is an error.
CounterError(x, i) ==
  \/ x.counters[i].name = Empty
  \/ \E j \in 1 .. (i - 1) : x.counters[j].name = x.counters[i].name

\* addSpeToSet: an empty id, or an id already in the set, is an error.
SpeError(x, i) ==
  \/ x.spes[i] = Empty
  \/ \E j \in 1 .. (i - 1) : x.spes[j] = x.spes[i]

\* parseConfigurationContent(...) == 0
Parses(x) ==
  /\ \A i \in DOMAIN x.counters : ~CounterError(x, i)
  /\ \A i \in DOMAIN x.spes : ~SpeError(x, i)

\* configuration.xml exists and parses.
ValidOnDisk(d) == d # NoFile /\ Parses(d)

\* parser.getCounterConfiguration(): the set, iterated in name order.
CounterConfiguration(x) ==
  LET S == {x.counters[i] : i \in DOMAIN x.counters}
      Rank(e) == Cardinality({f \in S : f.name <= e.name})
  IN  [k \in 1 .. Cardinality(S) |-> CHOOSE e \in S : Rank(e) = k]

-----------------------------------------------------------------------------
(* getConfigurationXML                                                     *)

\* A valid configuration.xml is returned, with isDefault false.
LoadFromDisk ==
  /\ pc = "idle" /\ loads < MaxLoads
  /\ ValidOnDisk(disk)
  /\ configs' = CounterConfiguration(disk)
  /\ isDefault' = FALSE
  /\ pc' = "set"
  /\ loads' = loads + 1
  /\ UNCHANGED <<disk, mCounters, mIsEBS, index, pos>>

(***************************************************************************)
(* configuration.xml is missing, or invalid and removed: the defaults are  *)
(* parsed and returned with isDefault true ("bad default                   *)
(* configuration.xml" is fatal).                                           *)
(***************************************************************************)
LoadDefault ==
  /\ pc = "idle" /\ loads < MaxLoads
  /\ ~ValidOnDisk(disk)
  /\ disk' = NoFile
  /\ configs' = CounterConfiguration(DefaultXml)
  /\ isDefault' = TRUE
  /\ pc' = IF Parses(DefaultXml) THEN "set" ELSE "exited"
  /\ loads' = loads + 1
  /\ UNCHANGED <<mCounters, mIsEBS, index, pos>>

\* remove(): an invalid file that cannot be deleted is fatal.
RemoveFailed ==
  /\ pc = "idle" /\ loads < MaxLoads /\ RemoveMayFail
  /\ disk # NoFile /\ ~ValidOnDisk(disk)
  /\ pc' = "exited"
  /\ UNCHANGED <<disk, configs, isDefault, mCounters, mIsEBS, index, pos, loads>>

\* The host stores a new configuration.xml between two loads.
HostStores(x) ==
  /\ pc = "idle"
  /\ disk' = x
  /\ UNCHANGED <<configs, isDefault, mCounters, mIsEBS, index, pos, pc, loads>>

-----------------------------------------------------------------------------
(* setCounters and addCounter                                              *)

\* Variant of setCounters that does not disable the counters first.
SetCountersKeepEnabled ==
  /\ pc = "set"
  /\ mIsEBS' = FALSE
  /\ index' = 0 /\ pos' = 1
  /\ pc' = "loop"
  /\ UNCHANGED <<disk, configs, isDefault, mCounters, loads>>

\* mIsEBS = false; every counter setEnabled(false); index = 0.
SetCounters ==
  /\ pc = "set"
  /\ mIsEBS' = FALSE
  /\ mCounters' = [i \in Slots |-> [mCounters[i] EXCEPT !.enabled = FALSE]]
  /\ index' = 0 /\ pos' = 1
  /\ pc' = "loop"
  /\ UNCHANGED <<disk, configs, isDefault, loads>>

\* Variant of the loop test that lets index reach MAX_PERFORMANCE_COUNTERS.
RoomLeftOffByOne == index <= MaxPerformanceCounters

\* if (index >= MAX_PERFORMANCE_COUNTERS) { ...; break; }
RoomLeft == index < MaxPerformanceCounters

\* Variant of addCounter that gives the counter a slot whether or not it is claimed.
NextIndexAlways(claimed) == index + 1

\* if (added) index++;
NextIndex(claimed) == IF claimed THEN index + 1 ELSE index

(***************************************************************************)
(* One pass of the loop, index < MAX_PERFORMANCE_COUNTERS: addCounter      *)
(* clears slot index and sets its type and count (a count > 0 sets         *)
(* mIsEBS), enables it, gives it to the driver that claims it, or disables *)
(* it when none does.  A second claiming driver is fatal.                  *)
(***************************************************************************)
AddCounter ==
  /\ pc = "loop" /\ pos <= Len(configs) /\ RoomLeft
  /\ LET cc      == configs[pos]
         claimed == Claims[cc.name] # {}
     IN  /\ Cardinality(Claims[cc.name]) <= 1
         /\ mCounters' = [mCounters EXCEPT ![index] =
                            [type    |-> cc.name,
                             count   |-> cc.count,
                             driver  |-> IF claimed THEN CHOOSE d \in Claims[cc.name] : TRUE
                                                    ELSE NoDriver,
                             enabled |-> claimed]]
         /\ mIsEBS' = (mIsEBS \/ cc.count > 0)
         /\ index' = NextIndex(claimed)
  /\ pos' = pos + 1
  /\ UNCHANGED <<disk, configs, isDefault, pc, loads>>

\* "More than one driver has claimed": handleException().
ClaimConflict ==
  /\ pc = "loop" /\ pos <= Len(configs) /\ RoomLeft
  /\ Cardinality(Claims[configs[pos].name]) > 1
  /\ pc' = "exited"
  /\ UNCHANGED <<disk, configs, isDefault, mCounters, mIsEBS, index, pos, loads>>

\* "Only MAX_PERFORMANCE_COUNTERS performance counters are permitted": break.
TooMany ==
  /\ pc = "loop" /\ pos <= Len(configs) /\ ~RoomLeft
  /\ pc' = "idle"
  /\ UNCHANGED <<disk, configs, isDefault, mCounters, mIsEBS, index, pos, loads>>

\* The loop ends; the CCN driver's validation only adds to the error text.
LoopEnd ==
  /\ pc = "loop" /\ pos > Len(configs)
  /\ pc' = "idle"
  /\ UNCHANGED <<disk, configs, isDefault, mCounters, mIsEBS, index, pos, loads>>

\* The daemon has exited, or loaded every configuration it will.
Ended ==
  /\ pc = "exited" \/ (pc = "idle" /\ loads = MaxLoads)
  /\ UNCHANGED vars

Next ==
  \/ LoadFromDisk \/ LoadDefault \/ RemoveFailed
  \/ \E x \in Xmls : HostStores(x)
  \/ SetCounters \/ AddCounter \/ ClaimConflict \/ TooMany \/ LoopEnd
  \/ Ended

Spec == Init /\ [][Next]_vars

-----------------------------------------------------------------------------
(* Properties                                                              *)

TypeOK ==
  /\ disk \in Xmls \cup {NoFile}
  /\ configs \in Seq(CounterElems)
  /\ isDefault \in BOOLEAN
  /\ mCounters \in [Slots -> CounterRecs]
  /\ mIsEBS \in BOOLEAN
  /\ index \in 0 .. MaxPerformanceCounters
  /\ pos \in Nat \ {0}
  /\ pc \in {"idle", "set", "loop", "exited"}
  /\ loads \in 0 .. MaxLoads

\* The configured counters some driver claims, in set order.
Claimed == SelectSeq(configs, LAMBDA c : Claims[c.name] # {})

NumEnabled ==
  IF Len(Claimed) < MaxPerformanceCounters THEN Len(Claimed) ELSE MaxPerformanceCounters

(***************************************************************************)
(* After setCounters, the enabled counters are exactly the first           *)
(* MAX_PERFORMANCE_COUNTERS claimed counters of the configuration just     *)
(* loaded, in set order, in the first slots, each with its count and the   *)
(* driver that claimed it: no slot is left enabled from an earlier         *)
(* configuration, and an unclaimed counter takes no slot.                  *)
(***************************************************************************)
CountersFollowConfiguration ==
  pc = "idle" /\ loads > 0 =>
    \A i \in Slots :
      /\ mCounters[i].enabled <=> i < NumEnabled
      /\ i < NumEnabled =>
           /\ mCounters[i].type = Claimed[i + 1].name
           /\ mCounters[i].count = Claimed[i + 1].count
           /\ mCounters[i].driver \in Claims[mCounters[i].type]

=============================================================================
