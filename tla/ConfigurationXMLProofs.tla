------------------------ MODULE ConfigurationXMLProofs ------------------------
(***************************************************************************)
(* Type correctness of the counter configuration, for every set of names,  *)
(* drivers and documents and every number of slots.  Its core is that     *)
(* parser.getCounterConfiguration() of a document that parses lists the    *)
(* document's counters in name order, one each: a name's rank among the    *)
(* names is a position of the list and every position is some rank.       *)
(***************************************************************************)
EXTENDS ConfigurationXML, FiniteSetTheorems, TLAPS

\* A counter as a parsed configuration holds it: a non-empty name.
NamedElems == [name : Names, count : Counts]

\* The distinct <counter> elements of a document.
Elems(x) == {x.counters[i] : i \in DOMAIN x.counters}

\* The rank that CounterConfiguration gives a counter of the document.
RankIn(x, e) == Cardinality({f \in Elems(x) : f.name <= e.name})

USE ConfigAssumption

\* A document's counters are finitely many.
LEMMA ElemsFinite ==
  ASSUME NEW x \in XmlDocs
  PROVE  /\ IsFiniteSet(Elems(x))
         /\ Cardinality(Elems(x)) \in Nat
         /\ Elems(x) \subseteq CounterElems
  <1>1. x.counters \in Seq(CounterElems)
    BY DEF XmlDocs
  <1> DEFINE f == [i \in 1 .. Len(x.counters) |-> x.counters[i]]
  <1>2. f \in Surjection(1 .. Len(x.counters), Elems(x))
    <2>1. DOMAIN x.counters = 1 .. Len(x.counters)
      BY <1>1
    <2>2. f \in [1 .. Len(x.counters) -> Elems(x)]
      BY <2>1 DEF Elems
    <2>3. \A e \in Elems(x) : \E i \in 1 .. Len(x.counters) : f[i] = e
      BY <2>1 DEF Elems
    <2>4. QED
      BY <2>2, <2>3 DEF Surjection
  <1>3. IsFiniteSet(1 .. Len(x.counters))
    BY <1>1, FS_Interval
  <1>4. IsFiniteSet(Elems(x))
    BY <1>2, <1>3, FS_Surjection
  <1>5. QED
    BY <1>1, <1>4, FS_CardinalityType DEF Elems

\* In a document that parses, every counter has a name and no two share one.
LEMMA ParsedNames ==
  ASSUME NEW x \in XmlDocs, Parses(x)
  PROVE  /\ Elems(x) \subseteq NamedElems
         /\ \A e, f \in Elems(x) : e.name = f.name => e = f
  <1>1. x.counters \in Seq(CounterElems)
    BY DEF XmlDocs
  <1>2. \A i \in DOMAIN x.counters : x.counters[i].name # Empty
    BY DEF Parses, CounterError
  <1>0. DOMAIN x.counters = 1 .. Len(x.counters)
    BY <1>1
  <1>3. Elems(x) \subseteq NamedElems
    <2>1. SUFFICES ASSUME NEW i \in DOMAIN x.counters PROVE x.counters[i] \in NamedElems
      BY DEF Elems
    <2>2. x.counters[i] \in CounterElems /\ x.counters[i].name # Empty
      BY <1>0, <1>1, <1>2
    <2>3. QED
      BY <2>2 DEF CounterElems, NamedElems
  <1>4. ASSUME NEW i \in DOMAIN x.counters, NEW j \in DOMAIN x.counters,
               x.counters[i].name = x.counters[j].name
        PROVE  x.counters[i] = x.counters[j]
    <2>1. CASE i < j
      <3>1. ~CounterError(x, j)
        BY DEF Parses
      <3>2. i \in 1 .. (j - 1)
        BY <1>0, <2>1
      <3>3. QED
        BY <1>4, <3>1, <3>2 DEF CounterError
    <2>2. CASE j < i
      <3>1. ~CounterError(x, i)
        BY DEF Parses
      <3>2. j \in 1 .. (i - 1)
        BY <1>0, <2>2
      <3>3. QED
        BY <1>4, <3>1, <3>2 DEF CounterError
    <2>3. QED
      BY <1>0, <1>1, <2>1, <2>2
  <1>5. QED
    BY <1>3, <1>4 DEF Elems

(***************************************************************************)
(* The counters of a document that parses have the ranks 1 .. n, one each: *)
(* a counter with a greater name has more counters at or below it.         *)
(***************************************************************************)
LEMMA RankOnto ==
  ASSUME NEW x \in XmlDocs, Parses(x)
  PROVE  \A k \in 1 .. Cardinality(Elems(x)) : \E e \in Elems(x) : RankIn(x, e) = k
  <1> DEFINE S == Elems(x)
             n == Cardinality(S)
             Below(e) == {f \in S : f.name <= e.name}
             g == [e \in S |-> RankIn(x, e)]
  <1>1. /\ IsFiniteSet(S) /\ n \in Nat
        /\ S \subseteq NamedElems
        /\ \A e, f \in S : e.name = f.name => e = f
    BY ElemsFinite, ParsedNames
  <1>2. \A e \in S : e.name \in Nat
    BY <1>1 DEF NamedElems
  <1>3. ASSUME NEW e \in S
        PROVE  /\ IsFiniteSet(Below(e))
               /\ RankIn(x, e) \in 1 .. n
    <2>1. IsFiniteSet(Below(e)) /\ Cardinality(Below(e)) <= n
      BY <1>1, FS_Subset
    <2>2. e \in Below(e)
      BY <1>2
    <2>3. Cardinality(Below(e)) \in Nat /\ Cardinality(Below(e)) # 0
      BY <2>1, <2>2, FS_EmptySet, FS_CardinalityType
    <2>4. QED
      BY <1>1, <2>1, <2>3 DEF RankIn
  <1>4. ASSUME NEW e \in S, NEW f \in S, e.name < f.name
        PROVE  RankIn(x, e) < RankIn(x, f)
    <2>1. Below(e) \subseteq Below(f) /\ f \in Below(f) /\ f \notin Below(e)
      BY <1>2, <1>4
    <2>2. IsFiniteSet(Below(f))
      BY <1>3
    <2>3. /\ Cardinality(Below(e)) <= Cardinality(Below(f))
          /\ Cardinality(Below(f)) = Cardinality(Below(e)) => Below(f) = Below(e)
      BY <2>1, <2>2, FS_Subset
    <2>4. RankIn(x, e) \in 1 .. n /\ RankIn(x, f) \in 1 .. n
      BY <1>3
    <2>5. QED
      BY <1>1, <2>1, <2>3, <2>4 DEF RankIn
  <1>5. g \in Injection(S, 1 .. n)
    <2>1. g \in [S -> 1 .. n]
      BY <1>3
    <2>2. ASSUME NEW e \in S, NEW f \in S, e # f
          PROVE  RankIn(x, e) # RankIn(x, f)
      <3>1. e.name # f.name /\ e.name \in Nat /\ f.name \in Nat
        BY <1>1, <1>2, <2>2
      <3>2. RankIn(x, e) \in 1 .. n /\ RankIn(x, f) \in 1 .. n
        BY <1>3
      <3>3. CASE e.name < f.name
        <4>1. RankIn(x, e) < RankIn(x, f)
          BY <3>3, <1>4
        <4>2. QED
          BY <1>1, <3>2, <4>1
      <3>4. CASE f.name < e.name
        <4>1. RankIn(x, f) < RankIn(x, e)
          BY <3>4, <1>4
        <4>2. QED
          BY <1>1, <3>2, <4>1
      <3>5. QED
        BY <3>1, <3>3, <3>4
    <2>3. QED
      BY <2>1, <2>2 DEF Injection, IsInjective
  <1>6. IsFiniteSet(1 .. n) /\ Cardinality(1 .. n) = n
    BY <1>1, FS_Interval
  <1>7. g \in Surjection(S, 1 .. n)
    BY <1>1, <1>5, <1>6, FS_Injection
  <1>8. QED
    BY <1>7 DEF Surjection

\* A function on 1 .. n is a sequence.
LEMMA FunIsSeq ==
  ASSUME NEW T, NEW n \in Nat, NEW f \in [1 .. n -> T]
  PROVE  f \in Seq(T)
  OBVIOUS

\* A list of named counters is a list of counter elements.
LEMMA NamedSeq == Seq(NamedElems) \subseteq Seq(CounterElems)
  <1>1. NamedElems \subseteq CounterElems
    BY DEF NamedElems, CounterElems
  <1>2. QED
    BY <1>1

\* getCounterConfiguration() of a document that parses is a list of named counters.
LEMMA ConfigurationType ==
  ASSUME NEW x \in XmlDocs, Parses(x)
  PROVE  CounterConfiguration(x) \in Seq(NamedElems)
  <1> DEFINE n == Cardinality(Elems(x))
  <1>1. n \in Nat /\ Elems(x) \subseteq NamedElems
    BY ElemsFinite, ParsedNames
  <1>2. \A k \in 1 .. n : (CHOOSE e \in Elems(x) : RankIn(x, e) = k) \in Elems(x)
    BY RankOnto
  <1>3. CounterConfiguration(x) = [k \in 1 .. n |-> CHOOSE e \in Elems(x) : RankIn(x, e) = k]
    BY DEF CounterConfiguration, Elems, RankIn
  <1>4. [k \in 1 .. n |-> CHOOSE e \in Elems(x) : RankIn(x, e) = k] \in [1 .. n -> NamedElems]
    BY <1>1, <1>2
  <1>5. QED
    BY <1>1, <1>3, <1>4, FunIsSeq

(***************************************************************************)
(* TypeOK is inductive once the configuration loaded is known to hold only *)
(* named counters: addCounter looks up Claims[name] for each of them.      *)
(***************************************************************************)
TInv == TypeOK /\ configs \in Seq(NamedElems)

LEMMA InitTInv == Init => TInv
  <1> SUFFICES ASSUME Init PROVE TInv
    OBVIOUS
  <1>1. mCounters \in [Slots -> CounterRecs]
    BY DEF Init, Slots, CounterRecs, Empty
  <1>2. configs \in Seq(NamedElems) /\ configs \in Seq(CounterElems)
    BY DEF Init
  <1>3. index \in 0 .. MaxPerformanceCounters /\ loads \in 0 .. MaxLoads
    BY DEF Init
  <1>4. isDefault \in BOOLEAN /\ mIsEBS \in BOOLEAN
    BY Zenon DEF Init
  <1>5. /\ disk \in Xmls \cup {NoFile} /\ pos \in Nat \ {0}
        /\ pc \in {"idle", "set", "loop", "exited"}
    BY DEF Init
  <1>6. QED
    BY <1>1, <1>2, <1>3, <1>4, <1>5 DEF TInv, TypeOK

\* A step that changes no more than the file on disk and the control point.
LEMMA TFrame ==
  ASSUME TInv,
         UNCHANGED <<configs, isDefault, mCounters, mIsEBS, index, pos, loads>>,
         disk' \in Xmls \cup {NoFile},
         pc' \in {"idle", "set", "loop", "exited"}
  PROVE  TInv'
  BY DEF TInv, TypeOK

\* One pass of setCounters' loop fills slot index, which is below the bound.
LEMMA AddCounterTInv ==
  ASSUME TInv, AddCounter
  PROVE  TInv'
  <1> DEFINE cc == configs[pos]
             claimed == Claims[cc.name] # {}
             rec == [type    |-> cc.name,
                     count   |-> cc.count,
                     driver  |-> IF claimed THEN CHOOSE d \in Claims[cc.name] : TRUE
                                            ELSE NoDriver,
                     enabled |-> claimed]
  <1>1. /\ pc = "loop" /\ pos \in 1 .. Len(configs) /\ index < MaxPerformanceCounters
        /\ mCounters' = [mCounters EXCEPT ![index] = rec]
        /\ index' = NextIndex(claimed) /\ pos' = pos + 1
        /\ UNCHANGED <<disk, configs, isDefault, pc, loads>>
    BY DEF AddCounter, RoomLeft, TInv, TypeOK
  <1>2. cc \in NamedElems
    BY <1>1 DEF TInv
  <1>3. rec \in CounterRecs
    BY <1>2 DEF NamedElems, CounterRecs
  <1>4. index \in Slots
    BY <1>1 DEF TInv, TypeOK, Slots
  <1>5. mIsEBS' \in BOOLEAN
    BY Zenon DEF AddCounter
  <1>6. index' \in 0 .. MaxPerformanceCounters
    BY <1>1 DEF NextIndex, TInv, TypeOK
  <1>7. QED
    BY <1>1, <1>3, <1>4, <1>5, <1>6 DEF TInv, TypeOK

LEMMA NextTInv ==
  ASSUME Parses(DefaultXml)
  PROVE  TInv /\ [Next]_vars => TInv'
  <1> SUFFICES ASSUME TInv, [Next]_vars PROVE TInv'
    OBVIOUS
  <1>1. Seq(NamedElems) \subseteq Seq(CounterElems)
    BY NamedSeq
  <1>2. CASE LoadFromDisk
    <2>1. disk \in XmlDocs /\ Parses(disk)
      BY <1>2 DEF LoadFromDisk, ValidOnDisk, TInv, TypeOK
    <2>2. configs' \in Seq(NamedElems)
      BY <1>2, <2>1, ConfigurationType DEF LoadFromDisk
    <2>3. isDefault' \in BOOLEAN
      BY <1>2, Zenon DEF LoadFromDisk
    <2>4. /\ loads' = loads + 1 /\ loads < MaxLoads /\ pc' = "set"
          /\ UNCHANGED <<disk, mCounters, mIsEBS, index, pos>>
      BY <1>2 DEF LoadFromDisk
    <2>5. loads' \in 0 .. MaxLoads
      BY <2>4 DEF TInv, TypeOK
    <2>6. QED
      BY <1>1, <2>2, <2>3, <2>4, <2>5 DEF TInv, TypeOK
  <1>3. CASE LoadDefault
    <2>1. configs' \in Seq(NamedElems)
      BY <1>3, ConfigurationType DEF LoadDefault
    <2>2. isDefault' \in BOOLEAN
      BY <1>3, Zenon DEF LoadDefault
    <2>3. /\ disk' = NoFile /\ loads' = loads + 1 /\ loads < MaxLoads
          /\ pc' \in {"set", "exited"}
          /\ UNCHANGED <<mCounters, mIsEBS, index, pos>>
      BY <1>3 DEF LoadDefault
    <2>4. loads' \in 0 .. MaxLoads
      BY <2>3 DEF TInv, TypeOK
    <2>5. QED
      BY <1>1, <2>1, <2>2, <2>3, <2>4 DEF TInv, TypeOK
  <1>4. CASE SetCounters
    <2>1. /\ mCounters' = [i \in Slots |-> [mCounters[i] EXCEPT !.enabled = FALSE]]
          /\ index' = 0 /\ pos' = 1 /\ pc' = "loop"
          /\ UNCHANGED <<disk, configs, isDefault, loads>>
      BY <1>4 DEF SetCounters
    <2>2. mIsEBS' \in BOOLEAN
      BY <1>4, Zenon DEF SetCounters
    <2>3. mCounters' \in [Slots -> CounterRecs]
      BY <2>1 DEF TInv, TypeOK, CounterRecs
    <2>4. QED
      BY <2>1, <2>2, <2>3 DEF TInv, TypeOK
  <1>5. CASE AddCounter
    BY <1>5, AddCounterTInv
  <1>6. CASE \E x \in Xmls : HostStores(x)
    BY <1>6, TFrame DEF HostStores
  <1>8. CASE RemoveFailed \/ ClaimConflict \/ TooMany \/ LoopEnd
    BY <1>8, TFrame DEF RemoveFailed, ClaimConflict, TooMany, LoopEnd, TInv, TypeOK
  <1>9. CASE Ended \/ UNCHANGED vars
    BY <1>9, TFrame DEF Ended, vars, TInv, TypeOK
  <1>7. QED
    BY <1>2, <1>3, <1>4, <1>5, <1>6, <1>8, <1>9 DEF Next

(***************************************************************************)
(* When the built-in defaults parse, getConfigurationXML and setCounters   *)
(* keep every variable in its type: in particular setCounters' index never *)
(* passes MAX_PERFORMANCE_COUNTERS, so addCounter writes only the slots of *)
(* gSessionData.mCounters, for every number of slots and counters.         *)
(***************************************************************************)
THEOREM ConfigTypeCorrect ==
  ASSUME Parses(DefaultXml)
  PROVE  Spec => []TypeOK
  <1>1. Init => TInv
    BY InitTInv
  <1>2. TInv /\ [Next]_vars => TInv'
    BY NextTInv
  <1>3. TInv => TypeOK
    BY DEF TInv
  <1>4. QED
    BY <1>1, <1>2, <1>3, PTL DEF Spec

-----------------------------------------------------------------------------
(***************************************************************************)
(* The slots setCounters has filled: the first index slots are enabled,    *)
(* each given to a driver that claims its counter, and every other slot is *)
(* disabled.                                                               *)
(***************************************************************************)
Filled ==
  \A i \in Slots :
    /\ mCounters[i].enabled <=> i < index
    /\ mCounters[i].enabled => mCounters[i].driver \in Claims[mCounters[i].type]

(***************************************************************************)
(* Once setCounters has run for the configuration just loaded, no slot is  *)
(* left enabled from an earlier configuration and each enabled slot has    *)
(* the driver that claimed it: the part of CountersFollowConfiguration    *)
(* that does not depend on which counters are claimed (Claimed).           *)
(***************************************************************************)
NoStaleSlot == pc = "idle" /\ loads > 0 => Filled

\* During setCounters' loop and after it the slots are filled up to index.
SInv == TInv /\ (pc = "loop" \/ (pc = "idle" /\ loads > 0) => Filled)

LEMMA InitSInv == Init => SInv
  <1> SUFFICES ASSUME Init PROVE SInv
    OBVIOUS
  <1>1. TInv
    BY InitTInv
  <1>2. pc = "idle" /\ loads = 0
    BY DEF Init
  <1>3. QED
    BY <1>1, <1>2 DEF SInv

\* Filled depends on the slots and index alone.
LEMMA FilledFrame ==
  ASSUME Filled, UNCHANGED <<mCounters, index>>
  PROVE  Filled'
  BY DEF Filled

\* setCounters disables every slot and starts again from slot 0.
LEMMA SetCountersFilled ==
  ASSUME TInv, SetCounters
  PROVE  Filled'
  <1>1. /\ mCounters' = [i \in Slots |-> [mCounters[i] EXCEPT !.enabled = FALSE]]
        /\ index' = 0
    BY DEF SetCounters
  <1>2. \A i \in Slots : mCounters'[i].enabled = FALSE
    BY <1>1 DEF TInv, TypeOK, CounterRecs
  <1>3. \A i \in Slots : ~(i < 0)
    BY DEF Slots, ConfigAssumption
  <1>4. QED
    BY <1>1, <1>2, <1>3 DEF Filled

\* addCounter enables slot index exactly when it takes the next slot.
LEMMA AddCounterFilled ==
  ASSUME TInv, Filled, AddCounter
  PROVE  Filled'
  <1> DEFINE cc == configs[pos]
             claimed == Claims[cc.name] # {}
             rec == [type    |-> cc.name,
                     count   |-> cc.count,
                     driver  |-> IF claimed THEN CHOOSE d \in Claims[cc.name] : TRUE
                                            ELSE NoDriver,
                     enabled |-> claimed]
  <1>1. /\ pos \in 1 .. Len(configs) /\ index < MaxPerformanceCounters
        /\ mCounters' = [mCounters EXCEPT ![index] = rec]
        /\ index' = NextIndex(claimed)
    BY DEF AddCounter, RoomLeft, TInv, TypeOK
  <1>2. index \in Slots /\ DOMAIN mCounters = Slots
    BY <1>1 DEF TInv, TypeOK, Slots
  <1>3. cc.name \in Names
    <2>1. cc \in NamedElems
      BY <1>1 DEF TInv
    <2>2. QED
      BY <2>1 DEF NamedElems
  <1>4. claimed => rec.driver \in Claims[rec.type]
    BY <1>3
  <1>5. mCounters'[index] = rec
    BY <1>1, <1>2
  <1>6. rec.enabled <=> index < index'
    <2>1. index \in Int
      BY <1>2 DEF Slots
    <2>2. rec.enabled <=> claimed
      OBVIOUS
    <2>3. claimed => index' = index + 1
      BY <1>1 DEF NextIndex
    <2>4. ~claimed => index' = index
      BY <1>1 DEF NextIndex
    <2>5. QED
      BY <2>1, <2>2, <2>3, <2>4
  <1>7. ASSUME NEW i \in Slots, i # index
        PROVE  /\ mCounters'[i] = mCounters[i]
               /\ i < index' <=> i < index
    BY <1>1, <1>2, <1>7 DEF NextIndex, Slots
  <1>8. QED
    BY <1>4, <1>5, <1>6, <1>7 DEF Filled

LEMMA NextSInv ==
  ASSUME Parses(DefaultXml)
  PROVE  SInv /\ [Next]_vars => SInv'
  <1> SUFFICES ASSUME SInv, [Next]_vars PROVE SInv'
    OBVIOUS
  <1>1. TInv'
    BY NextTInv DEF SInv
  <1> DEFINE Busy == pc = "loop" \/ (pc = "idle" /\ loads > 0)
  <1>2. SUFFICES ASSUME Busy' PROVE Filled'
    BY <1>1 DEF SInv
  <1>3. CASE LoadFromDisk \/ LoadDefault \/ RemoveFailed \/ ClaimConflict
    BY <1>2, <1>3 DEF LoadFromDisk, LoadDefault, RemoveFailed, ClaimConflict
  <1>4. CASE SetCounters
    BY <1>4, SetCountersFilled DEF SInv
  <1>5. CASE AddCounter
    <2>1. Filled
      BY <1>5 DEF AddCounter, SInv
    <2>2. QED
      BY <1>5, <2>1, AddCounterFilled DEF SInv
  <1>6. CASE TooMany \/ LoopEnd
    <2>1. Filled /\ UNCHANGED <<mCounters, index>>
      BY <1>6 DEF TooMany, LoopEnd, SInv
    <2>2. QED
      BY <2>1, FilledFrame
  <1>7. CASE (\E x \in Xmls : HostStores(x)) \/ Ended \/ UNCHANGED vars
    <2>1. UNCHANGED <<mCounters, index, pc, loads>>
      BY <1>7 DEF HostStores, Ended, vars
    <2>2. Filled
      BY <1>2, <2>1 DEF SInv
    <2>3. QED
      BY <2>1, <2>2, FilledFrame
  <1>8. QED
    BY <1>3, <1>4, <1>5, <1>6, <1>7 DEF Next

(***************************************************************************)
(* When the built-in defaults parse, every time setCounters has run for a  *)
(* loaded configuration the enabled slots of gSessionData.mCounters are    *)
(* exactly the first index slots, each with the driver that claims its     *)
(* counter: no counter of an earlier configuration stays enabled, for      *)
(* every number of slots, names and drivers.                               *)
(***************************************************************************)
THEOREM ConfigNoStaleSlot ==
  ASSUME Parses(DefaultXml)
  PROVE  Spec => []NoStaleSlot
  <1>1. Init => SInv
    BY InitSInv
  <1>2. SInv /\ [Next]_vars => SInv'
    BY NextSInv
  <1>3. SInv => NoStaleSlot
    BY DEF SInv, NoStaleSlot
  <1>4. QED
    BY <1>1, <1>2, <1>3, PTL DEF Spec

=============================================================================
