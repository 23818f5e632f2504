------------------------ MODULE TelemetryQueryProofs ------------------------
(***************************************************************************)
(* Proofs about the query of a telemetry agent beside the cache, for every *)
(* set of profiles, groups and relations, every path and all failures.     *)
(*                                                                         *)
(* The cache that a query runs beside is the cache of TelemetryCache, so   *)
(* what TelemetryCacheProofs says of it holds here too.  A profile that is *)
(* steady since the query began has been found, with the group it has now, *)
(* or its relation is still to be looked up.                               *)
(***************************************************************************)
EXTENDS TelemetryQuery, TelemetryCacheProofs, NaturalsInduction, WellFoundedInduction,
        FiniteSetTheorems, SequenceTheorems

-----------------------------------------------------------------------------
(* The cache among queries *)

LEMMA CacheInitially == SystemInit => Init
    BY DEF SystemInit

LEMMA CacheStep == [SystemNext]_system => [Next]_vars
    BY DEF SystemNext, system, Handle, GetHierarchy, Lookup, Respond, Beside, RestartAll, Next

\* The system implements the cache alone: no query changes it, and with queries
\* it does nothing that it would not do without.
THEOREM QueriesOnlyRead == SystemSpec => Spec
    BY CacheInitially, CacheStep, PTL DEF SystemSpec, Spec

-----------------------------------------------------------------------------
(* Rendering *)

\* What is collected for the profiles found, before duplicates are combined.
Resources(found) ==
    UNION {{[input |-> i, kind |-> Kind[f.group], setting |-> Setting[f.profile]] :
            i \in Inputs[f.group][f.version]} : f \in found}

\* The settings that compete for one thing.
Settings(resources, r) ==
    {s.setting : s \in {t \in resources : t.input = r.input /\ t.kind = r.kind}}

LEMMA ResourceFields ==
    ASSUME NEW found, NEW r \in Resources(found)
    PROVE  \E i, k, s : r = [input |-> i, kind |-> k, setting |-> s]
    BY DEF Resources

\* One entry of the configuration, field by field.
LEMMA Entry ==
    ASSUME NEW found, NEW c \in Config(found)
    PROVE  \E r \in Resources(found) :
              c = [input |-> r.input, kind |-> r.kind,
                   setting |-> Combined(r.kind, Settings(Resources(found), r))]
<1> DEFINE R == Resources(found)
<1>1. PICK r \in R :
         c = [r EXCEPT !.setting = Combined(r.kind, Settings(R, r))]
    BY DEF Config, Deduplicate, Resources, Settings
<1>2. \E i, k, s : r = [input |-> i, kind |-> k, setting |-> s]
    BY ResourceFields
<1> HIDE DEF R
<1>3. c = [input |-> r.input, kind |-> r.kind, setting |-> Combined(r.kind, Settings(R, r))]
    BY <1>1, <1>2
<1> QED BY <1>3 DEF R

\* Every resource has its entry.
LEMMA EntryExists ==
    ASSUME NEW found, NEW r \in Resources(found)
    PROVE  [input |-> r.input, kind |-> r.kind,
            setting |-> Combined(r.kind, Settings(Resources(found), r))] \in Config(found)
<1> DEFINE R == Resources(found)
<1>1. [r EXCEPT !.setting = Combined(r.kind, Settings(R, r))] \in Config(found)
    BY DEF Config, Deduplicate, Resources, Settings
<1>2. \E i, k, s : r = [input |-> i, kind |-> k, setting |-> s]
    BY ResourceFields
<1> HIDE DEF R
<1>3. [r EXCEPT !.setting = Combined(r.kind, Settings(R, r))] =
         [input |-> r.input, kind |-> r.kind, setting |-> Combined(r.kind, Settings(R, r))]
    BY <1>2
<1> QED BY <1>1, <1>3 DEF R

LEMMA ConfigHasOneSetting ==
    ASSUME NEW found, NEW c \in Config(found), NEW d \in Config(found),
           c.input = d.input, c.kind = d.kind
    PROVE  c = d
<1> DEFINE R == Resources(found)
<1>1. PICK r \in R : c = [input |-> r.input, kind |-> r.kind,
                          setting |-> Combined(r.kind, Settings(R, r))]
    BY Entry
<1>2. PICK s \in R : d = [input |-> s.input, kind |-> s.kind,
                          setting |-> Combined(s.kind, Settings(R, s))]
    BY Entry
<1> HIDE DEF R
<1>3. r.input = s.input /\ r.kind = s.kind
    BY <1>1, <1>2
<1>4. Settings(R, r) = Settings(R, s)
    BY <1>3 DEF Settings
<1> QED BY <1>1, <1>2, <1>3, <1>4

\* What the agent has is a configuration for some profiles.
Rendered == config = {} \/ \E found : config = Config(found)

LEMMA RenderedInitially == SystemInit => Rendered
    BY DEF SystemInit, Rendered

LEMMA RenderedStep == Rendered /\ [SystemNext]_system => Rendered'
<1> SUFFICES ASSUME Rendered, [SystemNext]_system PROVE Rendered'
    OBVIOUS
<1>1. CASE Respond
    BY <1>1 DEF Respond, Rendered
<1>2. CASE UNCHANGED config
    BY <1>2 DEF Rendered
<1> QED BY <1>1, <1>2
        DEF SystemNext, system, Handle, GetHierarchy, Lookup, Beside, RestartAll

\* Never two settings for one thing, whatever was found.
THEOREM AgentsGetOneSetting == SystemSpec => []OneSettingPerInput
<1>1. Rendered => OneSettingPerInput
    BY ConfigHasOneSetting DEF Rendered, OneSettingPerInput
<1> QED BY <1>1, RenderedInitially, RenderedStep, PTL DEF SystemSpec

-----------------------------------------------------------------------------
(* Greatest and least settings *)

\* A set of naturals that is not empty has a least element.
LEMMA LeastNat ==
    ASSUME NEW T, T \subseteq Nat, T # {}
    PROVE  \E x \in T : \A y \in T : x =< y
<1> DEFINE R == {p \in Nat \X Nat : p[1] < p[2]}
<1>1. IsWellFoundedOn(R, Nat)
    BY NatLessThanWellFounded, Zenon DEF OpToRel
<1> HIDE DEF R
<1>2. PICK x \in T : \A y \in T : ~(<<y, x>> \in R)
  <2>1. \E x \in T : \A y \in T : ~(<<y, x>> \in R)
    BY <1>1, WFMin, Zenon
  <2> QED BY <2>1, Zenon
<1>3. ASSUME NEW y \in T PROVE x =< y
  <2>1. x \in Nat /\ y \in Nat
    OBVIOUS
  <2>2. y < x => <<y, x>> \in R
    BY <2>1 DEF R
  <2> QED BY <1>2, <2>1, <2>2
<1> QED BY <1>2, <1>3

\* A finite set of naturals that is not empty has a greatest element: of the
\* sets without one, a smallest would have one.
LEMMA GreatestNat ==
    ASSUME NEW S, S \subseteq Nat, IsFiniteSet(S), S # {}
    PROVE  \E x \in S : \A y \in S : x >= y
<1> DEFINE Bad(T) == /\ IsFiniteSet(T) /\ T # {}
                     /\ ~\E x \in T : \A y \in T : x >= y
           Sizes == {Cardinality(T) : T \in {U \in SUBSET Nat : Bad(U)}}
<1>1. SUFFICES ASSUME Bad(S) PROVE FALSE
    OBVIOUS
<1>2. Cardinality(S) \in Sizes /\ Sizes \subseteq Nat
    BY <1>1, FS_CardinalityType
<1>3. PICK n \in Sizes : \A m \in Sizes : n =< m
    BY <1>2, LeastNat
<1>4. PICK T \in SUBSET Nat : Bad(T) /\ Cardinality(T) = n
    OBVIOUS
<1>5. PICK t \in T : TRUE
    BY <1>4
<1> DEFINE U == T \ {t}
<1>6. IsFiniteSet(U) /\ Cardinality(U) = n - 1 /\ n \in Nat
    BY <1>2, <1>4, <1>5, FS_RemoveElement
<1>7. ~Bad(U)
  <2>1. SUFFICES ASSUME Bad(U) PROVE FALSE
    OBVIOUS
  <2>2. U \in SUBSET Nat
    OBVIOUS
  <2> HIDE DEF Bad, U
  <2>3. n - 1 \in Sizes
    BY <1>6, <2>1, <2>2
  <2> QED BY <1>3, <1>6, <2>3
<1>8. CASE U = {}
  <2>1. T = {t} /\ t \in Nat
    BY <1>5, <1>8
  <2> QED BY <1>4, <2>1
<1>9. CASE U # {}
  <2>1. PICK x \in U : \A y \in U : x >= y
    BY <1>6, <1>7, <1>9
  <2>2. x \in Nat /\ t \in Nat /\ x \in T /\ \A y \in T : y \in Nat /\ (y \in U \/ y = t)
    BY <2>1, <1>5
  <2>3. CASE x >= t
    BY <1>4, <2>1, <2>2, <2>3
  <2>4. CASE t > x
    <3>1. \A y \in T : t >= y
        BY <2>1, <2>2, <2>4
    <3> QED BY <1>4, <1>5, <3>1
  <2> QED BY <2>2, <2>3, <2>4
<1> QED BY <1>8, <1>9

\* What is combined is at least as verbose, and at least as frequent, as each.
LEMMA CombinedBounds ==
    ASSUME NEW kind, NEW S, S \subseteq Nat, IsFiniteSet(S), NEW s \in S
    PROVE  IF kind[1] = "LOGS" THEN Combined(kind, S) >= s ELSE Combined(kind, S) =< s
<1>1. CASE kind[1] = "LOGS"
  <2>1. \A y \in S : Max(S) >= y
    BY GreatestNat DEF Max
  <2> QED BY <1>1, <2>1 DEF Combined
<1>2. CASE kind[1] # "LOGS"
  <2>1. \A y \in S : Min(S) =< y
    BY LeastNat DEF Min
  <2> QED BY <1>2, <2>1 DEF Combined
<1> QED BY <1>1, <1>2

LEMMA SettingsFinite ==
    ASSUME NEW found, \A f \in found : f.profile \in Profiles, NEW r
    PROVE  Settings(Resources(found), r) \subseteq Nat
           /\ IsFiniteSet(Settings(Resources(found), r))
<1> DEFINE All == {Setting[p] : p \in Profiles}
           S == Settings(Resources(found), r)
<1>1. Setting \in [Profiles -> Nat] /\ IsFiniteSet(Profiles)
    BY TelemetryQueryAssumption, TelemetryCacheAssumption
<1>2. All \subseteq Nat
    BY <1>1
<1>3. IsFiniteSet(All)
  <2>1. Setting \in Surjection(Profiles, All)
    BY <1>1 DEF Surjection
  <2> HIDE DEF All
  <2> QED BY <1>1, <2>1, FS_Surjection
<1>4. S \subseteq All
    BY DEF Settings, Resources
<1> HIDE DEF All, S
<1>5. S \subseteq Nat /\ IsFiniteSet(S)
    BY <1>2, <1>3, <1>4, FS_Subset
<1> QED BY <1>5 DEF S

-----------------------------------------------------------------------------
(* What is steady *)

\* The query found the profile as it is cached now.
Found(p) ==
    \E f \in query.found :
        /\ f.profile = p
        /\ f.group = ProfileIDMap[p].group
        /\ f.version = ProfileIDMap[p].version

QueryTypeOK ==
    \/ query = Idle
    \/ /\ query = [pc |-> "lookup", todo |-> query.todo, found |-> query.found,
                   steady |-> query.steady]
       /\ query.todo \in Seq(Relations)
       /\ query.steady \subseteq Profiles
       /\ \A f \in query.found : /\ f.profile \in Profiles
                                 /\ f = [profile |-> f.profile, group |-> f.group,
                                         version |-> f.version, cached |-> f.cached]

\* A steady profile has been found as it is, or will be.
SteadyInv ==
    query.pc = "lookup" =>
        \A p \in query.steady :
            /\ ProfileIDMap[p] # Nil
            /\ Found(p) \/ ProfileIDMap[p].relation \in ToSet(query.todo)

LEMMA Busy ==
    ASSUME QueryTypeOK, query.pc = "lookup"
    PROVE  /\ query = [pc |-> "lookup", todo |-> query.todo, found |-> query.found,
                       steady |-> query.steady]
           /\ query.todo \in Seq(Relations)
           /\ query.steady \subseteq Profiles
           /\ \A f \in query.found : /\ f.profile \in Profiles
                                     /\ f = [profile |-> f.profile, group |-> f.group,
                                             version |-> f.version, cached |-> f.cached]
    BY DEF QueryTypeOK, Idle

QueryInv == QueryTypeOK /\ SteadyInv

LEMMA QueryInitially == SystemInit => QueryInv
    BY DEF SystemInit, QueryInv, QueryTypeOK, SteadyInv, Idle

LEMMA IdleQuery ==
    ASSUME query' = Idle
    PROVE  QueryInv'
    BY DEF QueryInv, QueryTypeOK, SteadyInv, Idle

LEMMA HierarchyStep ==
    ASSUME TypeOK, GetHierarchy
    PROVE  QueryInv'
<1> DEFINE steady == {p \in Profiles : ProfileIDMap[p].relation \in ToSet(Path)}
<1>1. /\ query' = [pc |-> "lookup", todo |-> Path, found |-> {}, steady |-> steady]
      /\ ProfileIDMap' = ProfileIDMap
    BY DEF GetHierarchy, Looked, vars, cache
<1>2. Path \in Seq(Relations)
    BY TelemetryQueryAssumption
<1>3. QueryTypeOK'
    BY <1>1, <1>2 DEF QueryTypeOK
<1>4. ASSUME NEW p \in steady
      PROVE  ProfileIDMap[p] # Nil /\ ProfileIDMap[p].relation \in ToSet(Path)
  <2>1. ToSet(Path) \subseteq Relations
    BY <1>2 DEF ToSet
  <2> QED BY <2>1, TelemetryCacheAssumption DEF Nil
<1> HIDE DEF steady
<1> QED BY <1>1, <1>3, <1>4 DEF QueryInv, SteadyInv

LEMMA LookupStep ==
    ASSUME TypeOK, CachedIsListed, QueryInv, Lookup
    PROVE  QueryInv'
<1> DEFINE r == Head(query.todo)
           new == {Pointer(p, ProfileIDMap[p]) : p \in Listed(r)}
<1>1. /\ query.pc = "lookup" /\ query.todo # <<>>
      /\ query' = [query EXCEPT !.todo = Tail(@), !.found = @ \cup new]
      /\ ProfileIDMap' = ProfileIDMap
    BY DEF Lookup, vars, cache
<1>2. /\ query = [pc |-> "lookup", todo |-> query.todo, found |-> query.found,
                  steady |-> query.steady]
      /\ query.todo \in Seq(Relations)
      /\ query.steady \subseteq Profiles
      /\ \A f \in query.found : /\ f.profile \in Profiles
                                /\ f = [profile |-> f.profile, group |-> f.group,
                                        version |-> f.version, cached |-> f.cached]
    BY <1>1, Busy DEF QueryInv
<1>3. query' = [pc |-> "lookup", todo |-> Tail(query.todo),
                found |-> query.found \cup new, steady |-> query.steady]
  <2> HIDE DEF new
  <2> QED BY <1>1, <1>2
<1>4. Tail(query.todo) \in Seq(Relations)
    BY <1>1, <1>2
<1>5. \A f \in new : /\ f.profile \in Profiles
                     /\ f = [profile |-> f.profile, group |-> f.group,
                             version |-> f.version, cached |-> f.cached]
    BY DEF Pointer, Listed
<1>6. QueryTypeOK'
  <2> HIDE DEF new
  <2> QED BY <1>2, <1>3, <1>4, <1>5 DEF QueryTypeOK
<1>7. ASSUME NEW p \in query.steady
      PROVE  /\ ProfileIDMap[p] # Nil
             /\ \/ \E f \in query.found \cup new :
                      /\ f.profile = p
                      /\ f.group = ProfileIDMap[p].group
                      /\ f.version = ProfileIDMap[p].version
                \/ ProfileIDMap[p].relation \in ToSet(Tail(query.todo))
  <2>1. ProfileIDMap[p] # Nil /\ (Found(p) \/ ProfileIDMap[p].relation \in ToSet(query.todo))
    BY <1>1 DEF QueryInv, SteadyInv
  <2>2. CASE Found(p)
    BY <2>1, <2>2 DEF Found
  <2>3. CASE ProfileIDMap[p].relation = r
    <3>1. p \in Listed(r)
        BY <1>2, <2>1, <2>3 DEF CachedIsListed
    <3>2. Pointer(p, ProfileIDMap[p]) \in new
        BY <3>1
    <3> HIDE DEF new
    <3> QED BY <2>1, <3>2 DEF Pointer
  <2>4. CASE ProfileIDMap[p].relation \in ToSet(query.todo) /\ ProfileIDMap[p].relation # r
    <3>1. PICK k \in DOMAIN query.todo : query.todo[k] = ProfileIDMap[p].relation
        BY <2>4 DEF ToSet
    <3>2. k \in 2 .. Len(query.todo)
        BY <1>1, <1>2, <2>4, <3>1
    <3>3. Tail(query.todo)[k - 1] = ProfileIDMap[p].relation
          /\ k - 1 \in DOMAIN Tail(query.todo)
        BY <1>1, <1>2, <3>1, <3>2
    <3> QED BY <2>1, <3>3 DEF ToSet
  <2> QED BY <2>1, <2>2, <2>3, <2>4
<1> HIDE DEF new
<1> QED BY <1>1, <1>3, <1>6, <1>7 DEF QueryInv, SteadyInv, Found

\* The cache moves: what was found is the object that moves, or the profile is
\* not steady any more.
LEMMA FollowStep ==
    ASSUME QueryInv, Follow
    PROVE  QueryInv'
<1>1. query.pc = "lookup"
    BY DEF Follow
<1>2. /\ query = [pc |-> "lookup", todo |-> query.todo, found |-> query.found,
                  steady |-> query.steady]
      /\ query.todo \in Seq(Relations)
      /\ query.steady \subseteq Profiles
      /\ \A f \in query.found : /\ f.profile \in Profiles
                                /\ f = [profile |-> f.profile, group |-> f.group,
                                        version |-> f.version, cached |-> f.cached]
    BY <1>1, Busy DEF QueryInv
<1>3. PICK missed \in SUBSET {f \in query.found : Regrouped(f)} : query' = [query EXCEPT
          !.found = {IF Regrouped(f) /\ f \notin missed
                     THEN Pointer(f.profile, ProfileIDMap'[f.profile])
                     ELSE [f EXCEPT !.cached = @ /\ ~Replaced(f.profile)] : f \in @},
          !.steady = {p \in @ : ProfileIDMap'[p] = ProfileIDMap[p]}]
    BY Zenon DEF Follow
<1> DEFINE Moved(f) == IF Regrouped(f) /\ f \notin missed
                       THEN Pointer(f.profile, ProfileIDMap'[f.profile])
                       ELSE [f EXCEPT !.cached = @ /\ ~Replaced(f.profile)]
           found == {Moved(f) : f \in query.found}
           steady == {p \in query.steady : ProfileIDMap'[p] = ProfileIDMap[p]}
<1>4. query' = [pc |-> "lookup", todo |-> query.todo, found |-> found, steady |-> steady]
  <2>1. query' = [query EXCEPT !.found = found, !.steady = steady]
    BY <1>3, Zenon
  <2>2. query = [pc |-> "lookup", todo |-> query.todo, found |-> query.found,
                 steady |-> query.steady]
    BY <1>2
  <2> HIDE DEF found, steady, Moved
  <2>3. PICK a, b, c : /\ query = [pc |-> "lookup", todo |-> a, found |-> b, steady |-> c]
                       /\ a = query.todo
    BY <2>2
  <2>4. query' = [pc |-> "lookup", todo |-> a, found |-> found, steady |-> steady]
    BY <2>1, <2>3
  <2> QED BY <2>3, <2>4
<1>5. ASSUME NEW f \in query.found
      PROVE  /\ Moved(f).profile = f.profile
             /\ Moved(f) = [profile |-> Moved(f).profile, group |-> Moved(f).group,
                            version |-> Moved(f).version, cached |-> Moved(f).cached]
             /\ \/ Moved(f).group = f.group /\ Moved(f).version = f.version
                \/ /\ Moved(f).group = ProfileIDMap'[f.profile].group
                   /\ Moved(f).version = ProfileIDMap'[f.profile].version
  <2>1. CASE Regrouped(f) /\ f \notin missed
    <3>1. Moved(f) = Pointer(f.profile, ProfileIDMap'[f.profile])
        BY <2>1
    <3> QED BY <3>1 DEF Pointer
  <2>2. CASE ~(Regrouped(f) /\ f \notin missed)
    <3>1. Moved(f) = [profile |-> f.profile, group |-> f.group, version |-> f.version,
                      cached |-> f.cached /\ ~Replaced(f.profile)]
        BY <1>2, <2>2
    <3> QED BY <3>1
  <2> QED BY <2>1, <2>2
<1> HIDE DEF Moved
<1>6. QueryTypeOK'
  <2>1. \A f \in found : /\ f.profile \in Profiles
                         /\ f = [profile |-> f.profile, group |-> f.group,
                                 version |-> f.version, cached |-> f.cached]
    BY <1>2, <1>5
  <2>2. steady \in SUBSET Profiles
    BY <1>2
  <2> HIDE DEF found, steady
  <2> QED BY <1>2, <1>4, <2>1, <2>2 DEF QueryTypeOK
<1>7. ASSUME NEW p \in steady
      PROVE  /\ ProfileIDMap'[p] # Nil
             /\ \/ \E f \in found : /\ f.profile = p
                                    /\ f.group = ProfileIDMap'[p].group
                                    /\ f.version = ProfileIDMap'[p].version
                \/ ProfileIDMap'[p].relation \in ToSet(query.todo)
  <2>1. /\ ProfileIDMap'[p] = ProfileIDMap[p] /\ ProfileIDMap[p] # Nil
        /\ Found(p) \/ ProfileIDMap[p].relation \in ToSet(query.todo)
    BY <1>1 DEF QueryInv, SteadyInv
  <2>2. ASSUME NEW f \in query.found,
               f.profile = p /\ f.group = ProfileIDMap[p].group
                             /\ f.version = ProfileIDMap[p].version
        PROVE  /\ Moved(f) \in found /\ Moved(f).profile = p
               /\ Moved(f).group = ProfileIDMap'[p].group
               /\ Moved(f).version = ProfileIDMap'[p].version
    BY <1>5, <2>1, <2>2
  <2> HIDE DEF found, steady
  <2> QED BY <2>1, <2>2 DEF Found
<1> HIDE DEF found, steady
<1> QED BY <1>4, <1>6, <1>7 DEF QueryInv, SteadyInv, Found

LEMMA BesideStep ==
    ASSUME QueryInv, NEW ACTION A, Beside(A)
    PROVE  QueryInv'
<1>1. CASE query.pc = "lookup"
    BY <1>1, FollowStep DEF Beside
<1>2. CASE query.pc # "lookup"
    BY <1>2 DEF Beside, QueryInv, QueryTypeOK, SteadyInv
<1> QED BY <1>1, <1>2

LEMMA QueryStep ==
    ASSUME TypeOK, CachedIsListed, QueryInv, [SystemNext]_system
    PROVE  QueryInv'
<1>1. CASE GetHierarchy
    BY <1>1, HierarchyStep
<1>2. CASE Lookup
    BY <1>2, LookupStep
<1>3. CASE Respond
    BY <1>3, IdleQuery DEF Respond
<1>4. CASE RestartAll
    BY <1>4, IdleQuery DEF RestartAll
<1>5. CASE Beside(Change)
    BY <1>5, BesideStep
<1>6. CASE Beside(Loop)
    BY <1>6, BesideStep
<1>7. CASE Beside(Tick)
    BY <1>7, BesideStep
<1>8. CASE UNCHANGED system
    BY <1>8 DEF system, vars, cache, QueryInv, QueryTypeOK, SteadyInv, Found
<1> QED BY <1>1, <1>2, <1>3, <1>4, <1>5, <1>6, <1>7, <1>8 DEF SystemNext, Handle

\* The answer obeys every profile that was found as it is cached.
LEMMA AnswerObeys ==
    ASSUME NEW found, \A f \in found : f.profile \in Profiles, NEW f \in found, NEW p,
           f.profile = p /\ f.group = ProfileIDMap[p].group
                         /\ f.version = ProfileIDMap[p].version
    PROVE  Obeys(Config(found), p)
<1> SUFFICES ASSUME NEW i \in Inputs[ProfileIDMap[p].group][ProfileIDMap[p].version]
             PROVE  \E entry \in Config(found) :
                       /\ entry.input = i
                       /\ entry.kind = Kind[ProfileIDMap[p].group]
                       /\ IF entry.kind[1] = "LOGS" THEN entry.setting >= Setting[p]
                                                    ELSE entry.setting =< Setting[p]
    BY DEF Obeys
<1> DEFINE kind == Kind[ProfileIDMap[p].group]
           r == [input |-> i, kind |-> kind, setting |-> Setting[p]]
           S == Settings(Resources(found), r)
           entry == [input |-> i, kind |-> kind, setting |-> Combined(kind, S)]
<1>1. r \in Resources(found)
    BY DEF Resources
<1>2. Setting[p] \in S
    BY <1>1 DEF Settings
<1>3. entry \in Config(found)
  <2>1. r.input = i /\ r.kind = kind
    OBVIOUS
  <2> HIDE DEF r
  <2> QED BY <1>1, <2>1, EntryExists
<1>4. S \subseteq Nat /\ IsFiniteSet(S)
    BY SettingsFinite
<1> HIDE DEF S, kind
<1>5. IF kind[1] = "LOGS" THEN Combined(kind, S) >= Setting[p]
                          ELSE Combined(kind, S) =< Setting[p]
    BY <1>2, <1>4, CombinedBounds
<1> QED BY <1>3, <1>5 DEF kind

LEMMA SteadyStep ==
    ASSUME QueryInv, Respond
    PROVE  \A p \in query.steady : Obeys(config', p)
<1> SUFFICES ASSUME NEW p \in query.steady PROVE Obeys(config', p)
    OBVIOUS
<1>1. query.pc = "lookup" /\ query.todo = <<>> /\ config' = Config(query.found)
    BY DEF Respond
<1>2. \A f \in query.found : f.profile \in Profiles
    BY <1>1, Busy DEF QueryInv
<1>3. Found(p)
  <2>1. ToSet(query.todo) = {}
    BY <1>1 DEF ToSet
  <2> QED BY <1>1, <2>1 DEF QueryInv, SteadyInv
<1> QED BY <1>1, <1>2, <1>3, AnswerObeys DEF Found

\* A profile that stays as it is cached, under a part of the host's path, from
\* the beginning of a query to its end is obeyed by the answer, whatever the
\* cache loads, moves and changes between the lookups.
THEOREM SteadyProfilesAreConfigured == SystemSpec => SteadyIsConfigured
<1> DEFINE Inv == TypeOK /\ CachedIsListed /\ QueryInv
<1>1. SystemInit => Inv
    BY CacheInitially, TypeInit, ListedInit, QueryInitially
<1>2. Inv /\ [SystemNext]_system => Inv'
    BY CacheStep, TypeNext, ListedNext, QueryStep
<1>3. Inv /\ [SystemNext]_system =>
         [Respond => \A p \in query.steady : Obeys(config', p)]_system
    BY SteadyStep
<1> QED BY <1>1, <1>2, <1>3, PTL DEF SystemSpec, SteadyIsConfigured

=============================================================================
