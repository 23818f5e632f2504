------------------------ MODULE TelemetryCacheProofs ------------------------
(***************************************************************************)
(* Proofs about TelemetryCache, for every set of profiles, groups and      *)
(* relations, every size of pages and whatever calls fail: type            *)
(* correctness, CachedIsListed and GhostsAreAnnounced.                     *)
(***************************************************************************)
EXTENDS TelemetryCache, FiniteSetTheorems, TLAPS

-----------------------------------------------------------------------------
(* The maps *)

\* What updateResourceIDMap does to the entries of one profile and of others.
LEMMA UpdateEffect ==
    ASSUME NEW K, EmptyKey \notin K, NEW map \in [K -> [Profiles -> Nat]],
           NEW p \in Profiles,
           NEW old \in K \cup {EmptyKey}, NEW new \in K \cup {EmptyKey}
    PROVE  /\ Update(map, p, old, new) \in [K -> [Profiles -> Nat]]
           /\ \A k \in K, q \in Profiles \ {p} : Update(map, p, old, new)[k][q] = map[k][q]
           /\ new # EmptyKey => Update(map, p, old, new)[new][p] > 0
<1> DEFINE less == Unlist(map, old, p)
<1>1. /\ less \in [K -> [Profiles -> Nat]]
      /\ \A k \in K, q \in Profiles \ {p} : less[k][q] = map[k][q]
  <2>1. CASE old # EmptyKey /\ map[old][p] > 0
    <3>1. less = [map EXCEPT ![old][p] = map[old][p] - 1]
      BY <2>1 DEF Unlist
    <3>2. old \in K /\ map[old][p] - 1 \in Nat
      BY <2>1
    <3> HIDE DEF less
    <3> QED BY <3>1, <3>2
  <2>2. CASE ~(old # EmptyKey /\ map[old][p] > 0)
    BY <2>2 DEF Unlist
  <2> QED BY <2>1, <2>2
<1>2. Update(map, p, old, new) = Enlist(less, new, p)
    BY DEF Update
<1> HIDE DEF less
<1>3. CASE new = EmptyKey
    BY <1>1, <1>2, <1>3 DEF Enlist
<1>4. CASE new # EmptyKey
  <2>1. Update(map, p, old, new) = [less EXCEPT ![new][p] = less[new][p] + 1]
    BY <1>2, <1>4 DEF Enlist
  <2>2. new \in K /\ less[new][p] \in Nat
    BY <1>1, <1>4
  <2> QED BY <1>1, <1>4, <2>1, <2>2
<1> QED BY <1>3, <1>4

\* The edges of a profile or of nil are keys of the reverse maps, or empty.
LEMMA Edges ==
    ASSUME NEW tp \in Profile \cup {Nil}
    PROVE  /\ tp.relation \in Relations \cup {EmptyKey}
           /\ tp.group \in Groups \cup {EmptyKey}
           /\ tp.version \in Nat
           /\ tp # Nil => tp.relation \in Relations /\ tp.group \in Groups
    BY DEF Profile, Nil

\* What UpdateMaps does to the reverse maps.
LEMMA MapsEffect ==
    ASSUME TypeOK, NEW p \in Profiles, NEW old \in Profile \cup {Nil},
           NEW new \in Profile \cup {Nil}, UpdateMaps(p, old, new)
    PROVE  /\ groupsIDToProfileID' \in [Groups -> [Profiles -> Nat]]
           /\ relationIDToProfilesID' \in [Relations -> [Profiles -> Nat]]
           /\ \A q \in Profiles \ {p} :
                 /\ \A g \in Groups : groupsIDToProfileID'[g][q] = groupsIDToProfileID[g][q]
                 /\ \A r \in Relations :
                       relationIDToProfilesID'[r][q] = relationIDToProfilesID[r][q]
           /\ new # Nil => /\ groupsIDToProfileID'[new.group][p] > 0
                           /\ relationIDToProfilesID'[new.relation][p] > 0
<1>1. EmptyKey \notin Groups /\ EmptyKey \notin Relations
    BY TelemetryCacheAssumption
<1>2. /\ groupsIDToProfileID \in [Groups -> [Profiles -> Nat]]
      /\ relationIDToProfilesID \in [Relations -> [Profiles -> Nat]]
    BY DEF TypeOK
<1>3. /\ old.group \in Groups \cup {EmptyKey} /\ new.group \in Groups \cup {EmptyKey}
      /\ old.relation \in Relations \cup {EmptyKey}
      /\ new.relation \in Relations \cup {EmptyKey}
      /\ new # Nil => new.group # EmptyKey /\ new.relation # EmptyKey
    BY <1>1, Edges
<1>4. /\ groupsIDToProfileID' = Update(groupsIDToProfileID, p, old.group, new.group)
      /\ relationIDToProfilesID' =
            Update(relationIDToProfilesID, p, old.relation, new.relation)
    BY DEF UpdateMaps
<1>5. /\ groupsIDToProfileID' \in [Groups -> [Profiles -> Nat]]
      /\ \A g \in Groups, q \in Profiles \ {p} :
            groupsIDToProfileID'[g][q] = groupsIDToProfileID[g][q]
      /\ new.group # EmptyKey => groupsIDToProfileID'[new.group][p] > 0
    BY <1>1, <1>2, <1>3, <1>4, UpdateEffect
<1>6. /\ relationIDToProfilesID' \in [Relations -> [Profiles -> Nat]]
      /\ \A r \in Relations, q \in Profiles \ {p} :
            relationIDToProfilesID'[r][q] = relationIDToProfilesID[r][q]
      /\ new.relation # EmptyKey => relationIDToProfilesID'[new.relation][p] > 0
    BY <1>1, <1>2, <1>3, <1>4, UpdateEffect
<1> QED BY <1>3, <1>5, <1>6

-----------------------------------------------------------------------------
(* Type correctness *)

\* The part of TypeOK about the goroutine.
LoopOK ==
    /\ loop.pc \in {"idle", "apply", "list", "install"}
    /\ loop.pc = "apply" =>
          \/ /\ loop.event.key \in Groups /\ loop.event.kind = "UPDATED"
             /\ loop.res.version \in Nat
          \/ /\ loop.event.key \in Profiles /\ loop.event.kind \in {"CREATED", "UPDATED"}
             /\ loop.res \in Profile
    /\ loop.pc = "list" => loop.offset \in Nat
    /\ loop.pc \in {"list", "install"} =>
          loop.found \in [Profiles -> Profile \cup {Nil}]

\* An Inventory that is well typed is read as a profile, or as nil.
LEMMA ReadType ==
    ASSUME TypeOK, NEW p \in Profiles
    PROVE  /\ Read(p) \in Profile \cup {Nil}
           /\ stored[p] # Absent => Read(p) \in Profile /\ Read(p) # Nil
           /\ stored[p] = Absent => Read(p) = Nil
<1>1. stored[p] \in [relation : Relations, group : Groups] \cup {Absent}
    BY DEF TypeOK
<1>2. CASE stored[p] = Absent
    BY <1>2 DEF Read
<1>3. CASE stored[p] # Absent
  <2>1. stored[p].relation \in Relations /\ stored[p].group \in Groups
    BY <1>1, <1>3
  <2>2. groupVersion[stored[p].group] \in Nat
    BY <2>1 DEF TypeOK
  <2>3. Read(p) \in Profile
    BY <1>3, <2>1, <2>2 DEF Read, Profile
  <2>4. Read(p).relation # EmptyKey
    BY <1>3, <2>1, TelemetryCacheAssumption DEF Read
  <2> QED BY <1>3, <2>3, <2>4 DEF Nil
<1> QED BY <1>2, <1>3

\* The first state is well typed.
LEMMA TypeInit == Init => TypeOK
    BY TelemetryCacheAssumption
    DEF Init, TypeOK, Load, Nil, StreamEvent

\* Inventory's changes and the stream keep their types.
LEMMA ChangeType ==
    ASSUME TypeOK, Change
    PROVE  TypeOK'
<1>1. LoopOK /\ loop' = loop => LoopOK'
    BY DEF LoopOK
<1>2. /\ LoopOK
      /\ created \subseteq Profiles
      /\ stored \in [Profiles -> [relation : Relations, group : Groups] \cup {Absent}]
      /\ groupVersion \in [Groups -> Nat]
      /\ events \in Seq(StreamEvent)
    BY DEF TypeOK, LoopOK
<1>3. ASSUME NEW e \in StreamEvent, Notify(e)
      PROVE  events' \in Seq(StreamEvent)
    BY <1>2, <1>3 DEF Notify
<1>4. \A p \in Profiles : /\ Event("CREATED", p) \in StreamEvent
                          /\ Event("UPDATED", p) \in StreamEvent
                          /\ Event("DELETED", p) \in StreamEvent
    BY DEF Event, StreamEvent
<1>5. \A g \in Groups : Event("UPDATED", g) \in StreamEvent
    BY DEF Event, StreamEvent
<1>6. ASSUME NEW p \in Profiles, NEW r \in Relations, NEW g \in Groups,
             CreateProfile(p, r, g)
      PROVE  TypeOK'
  <2>1. created' \subseteq Profiles
    BY <1>2, <1>6 DEF CreateProfile
  <2>2. stored' \in [Profiles -> [relation : Relations, group : Groups] \cup {Absent}]
    BY <1>2, <1>6 DEF CreateProfile
  <2>3. events' \in Seq(StreamEvent)
    BY <1>3, <1>4, <1>6 DEF CreateProfile
  <2>4. UNCHANGED <<groupVersion, loop, cache>>
    BY <1>6 DEF CreateProfile
  <2> QED BY <1>1, <1>2, <2>1, <2>2, <2>3, <2>4 DEF TypeOK, LoopOK, cache
<1>7. ASSUME NEW p \in Profiles, NEW r \in Relations, NEW g \in Groups,
             UpdateProfile(p, r, g)
      PROVE  TypeOK'
  <2>1. stored' \in [Profiles -> [relation : Relations, group : Groups] \cup {Absent}]
    BY <1>2, <1>7 DEF UpdateProfile
  <2>2. events' \in Seq(StreamEvent)
    BY <1>3, <1>4, <1>7 DEF UpdateProfile
  <2>3. UNCHANGED <<created, groupVersion, loop, cache>>
    BY <1>7 DEF UpdateProfile
  <2> QED BY <1>1, <1>2, <2>1, <2>2, <2>3 DEF TypeOK, LoopOK, cache
<1>8. ASSUME NEW p \in Profiles, DeleteProfile(p)
      PROVE  TypeOK'
  <2>1. stored' \in [Profiles -> [relation : Relations, group : Groups] \cup {Absent}]
    BY <1>2, <1>8 DEF DeleteProfile
  <2>2. events' \in Seq(StreamEvent)
    BY <1>3, <1>4, <1>8 DEF DeleteProfile
  <2>3. UNCHANGED <<created, groupVersion, loop, cache>>
    BY <1>8 DEF DeleteProfile
  <2> QED BY <1>1, <1>2, <2>1, <2>2, <2>3 DEF TypeOK, LoopOK, cache
<1>9. ASSUME NEW g \in Groups, UpdateGroup(g)
      PROVE  TypeOK'
  <2>1. groupVersion' \in [Groups -> Nat]
    BY <1>2, <1>9 DEF UpdateGroup
  <2>2. events' \in Seq(StreamEvent)
    BY <1>3, <1>5, <1>9 DEF UpdateGroup
  <2>3. UNCHANGED <<created, stored, loop, cache>>
    BY <1>9 DEF UpdateGroup
  <2> QED BY <1>1, <1>2, <2>1, <2>2, <2>3 DEF TypeOK, LoopOK, cache
<1> QED BY <1>6, <1>7, <1>8, <1>9 DEF Change

\* The goroutine takes the first event off the stream.
LEMMA HeadType ==
    ASSUME TypeOK, events # <<>>, events' = Tail(events)
    PROVE  /\ Head(events) \in StreamEvent
           /\ events' \in Seq(StreamEvent)
    BY DEF TypeOK

\* Handling a DELETED event keeps the types.
LEMMA HandleDeletedType ==
    ASSUME TypeOK, HandleDeleted
    PROVE  TypeOK'
<1> DEFINE p == Head(events).key
<1>1. Head(events) \in StreamEvent /\ events' \in Seq(StreamEvent)
    BY HeadType DEF HandleDeleted
<1>2. p \in Profiles
    BY <1>1 DEF StreamEvent, HandleDeleted
<1>3. UNCHANGED <<inventory, loop>>
    BY DEF HandleDeleted
<1>4. ProfileIDMap \in [Profiles -> Profile \cup {Nil}]
    BY DEF TypeOK
<1>5. CASE ProfileIDMap[p] # Nil
  <2>1. /\ ProfileIDMap' = [ProfileIDMap EXCEPT ![p] = Nil]
        /\ UpdateMaps(p, ProfileIDMap[p], Nil)
    BY <1>5 DEF HandleDeleted
  <2>2. ProfileIDMap' \in [Profiles -> Profile \cup {Nil}]
    BY <1>4, <2>1
  <2>3. /\ groupsIDToProfileID' \in [Groups -> [Profiles -> Nat]]
        /\ relationIDToProfilesID' \in [Relations -> [Profiles -> Nat]]
    <3> HIDE DEF p
    <3>1. ProfileIDMap[p] \in Profile \cup {Nil} /\ Nil \in Profile \cup {Nil}
      BY <1>2, <1>4
    <3> QED BY <1>2, <2>1, <3>1, MapsEffect
  <2> QED BY <1>1, <1>3, <2>2, <2>3 DEF TypeOK, inventory
<1>6. CASE ProfileIDMap[p] = Nil
  <2>1. UNCHANGED cache
    BY <1>6 DEF HandleDeleted
  <2> QED BY <1>1, <1>3, <2>1 DEF TypeOK, inventory, cache
<1> QED BY <1>5, <1>6

\* The answer that getResource waits for fits the event.
LEMMA GetResourceType ==
    ASSUME TypeOK, GetResource
    PROVE  TypeOK'
<1> DEFINE e == Head(events)
           res == Resource(e.key)
<1>1. e \in StreamEvent /\ events' \in Seq(StreamEvent)
    BY HeadType DEF GetResource
<1>2. UNCHANGED <<inventory, cache>> /\ e.kind # "DELETED"
    BY DEF GetResource
<1>3. SUFFICES LoopOK'
    BY <1>1, <1>2 DEF TypeOK, LoopOK, inventory, cache
<1>4. CASE UNCHANGED loop
    BY <1>4 DEF TypeOK, LoopOK
<1>5. CASE res # Nil /\ loop' = [pc |-> "apply", event |-> e, res |-> res]
  <2>1. loop'.pc = "apply" /\ loop'.event = e /\ loop'.res = res
    BY <1>5
  <2>2. CASE e.key \in Groups
    <3>1. e.kind = "UPDATED"
      BY <1>1, <1>2, <2>2, TelemetryCacheAssumption DEF StreamEvent
    <3>2. res.version \in Nat
      BY <2>2 DEF Resource, TypeOK
    <3> QED BY <2>1, <2>2, <3>1, <3>2 DEF LoopOK
  <2>3. CASE e.key \notin Groups
    <3>1. e.key \in Profiles /\ e.kind \in {"CREATED", "UPDATED"}
      BY <1>1, <1>2, <2>3 DEF StreamEvent
    <3>2. res \in Profile
      BY <1>5, <2>3, <3>1, ReadType DEF Resource
    <3> QED BY <2>1, <3>1, <3>2 DEF LoopOK
  <2> QED BY <2>2, <2>3
<1> QED BY <1>4, <1>5 DEF GetResource

\* A group replaces the group of profiles, a profile replaces itself.
LEMMA ApplyType ==
    ASSUME TypeOK, Apply
    PROVE  TypeOK'
<1> DEFINE key == loop.event.key
           res == loop.res
<1>1. loop' = Idle /\ UNCHANGED <<inventory, events>>
    BY DEF Apply
<1>2. LoopOK'
    BY <1>1 DEF LoopOK, Idle
<1>3. /\ ProfileIDMap \in [Profiles -> Profile \cup {Nil}]
      /\ groupsIDToProfileID \in [Groups -> [Profiles -> Nat]]
      /\ relationIDToProfilesID \in [Relations -> [Profiles -> Nat]]
    BY DEF TypeOK
<1>4. SUFFICES /\ ProfileIDMap' \in [Profiles -> Profile \cup {Nil}]
               /\ groupsIDToProfileID' \in [Groups -> [Profiles -> Nat]]
               /\ relationIDToProfilesID' \in [Relations -> [Profiles -> Nat]]
    BY <1>1, <1>2 DEF TypeOK, LoopOK, inventory
<1>5. CASE key \in Groups
  <2>1. res.version \in Nat
    BY <1>5, TelemetryCacheAssumption DEF TypeOK, Apply, Profile
  <2>2. ApplyGroup(key, res)
    BY <1>5 DEF Apply
  <2> HIDE DEF key, res
  <2>3. ASSUME NEW p \in Profiles, ProfileIDMap[p] # Nil
        PROVE  [ProfileIDMap[p] EXCEPT !.group = key, !.version = res.version] \in Profile
    <3>1. ProfileIDMap[p] \in Profile
      BY <1>3, <2>3
    <3> QED BY <1>5, <2>1, <3>1 DEF Profile
  <2>4. ProfileIDMap' \in [Profiles -> Profile \cup {Nil}]
    BY <1>3, <2>2, <2>3 DEF ApplyGroup
  <2> QED BY <1>3, <2>2, <2>4 DEF ApplyGroup
<1>6. CASE key \notin Groups
  <2>1. key \in Profiles /\ res \in Profile
    BY <1>6 DEF TypeOK, Apply
  <2>2. ApplyProfile(key, loop.event.kind, res)
    BY <1>6 DEF Apply
  <2> HIDE DEF key, res
  <2>3. PICK old \in Profile \cup {Nil} : UpdateMaps(key, old, res)
    BY <1>3, <2>1, <2>2 DEF ApplyProfile
  <2>4. ProfileIDMap' \in [Profiles -> Profile \cup {Nil}]
    BY <1>3, <2>1, <2>2 DEF ApplyProfile
  <2> QED BY <2>1, <2>3, <2>4, MapsEffect
<1> QED BY <1>5, <1>6

\* What a load begins with.
LEMMA LoadType ==
    ASSUME loop' = Load
    PROVE  LoopOK'
    BY DEF LoopOK, Load

\* A page adds profiles to those that were found.
LEMMA ListPageType ==
    ASSUME TypeOK, ListPage
    PROVE  TypeOK'
<1> DEFINE found == [p \in Profiles |->
                        IF p \in Page(loop.offset) THEN Read(p) ELSE loop.found[p]]
<1>1. UNCHANGED <<inventory, events, cache>>
    BY DEF ListPage
<1>2. SUFFICES LoopOK'
    BY <1>1 DEF TypeOK, LoopOK, inventory, cache
<1>3. /\ loop.offset \in Nat
      /\ loop.found \in [Profiles -> Profile \cup {Nil}]
    BY DEF TypeOK, ListPage
<1>4. found \in [Profiles -> Profile \cup {Nil}]
    BY <1>3, ReadType
<1>5. loop.offset + BatchSize \in Nat
    BY <1>3, TelemetryCacheAssumption
<1>6. \/ loop' = [pc |-> "list", offset |-> loop.offset + BatchSize,
                  found |-> found]
      \/ loop' = [pc |-> "install", found |-> found]
    BY DEF ListPage
<1> HIDE DEF found
<1> QED BY <1>3, <1>4, <1>5, <1>6 DEF LoopOK

\* A load that fails keeps what it has found.
LEMMA ListFailsType ==
    ASSUME TypeOK, ListFails
    PROVE  TypeOK'
<1>1. UNCHANGED <<inventory, events, cache>>
    BY DEF ListFails
<1>2. loop.found \in [Profiles -> Profile \cup {Nil}]
    BY DEF TypeOK, ListFails
<1>3. LoopOK'
    BY <1>2 DEF ListFails, LoopOK
<1> QED BY <1>1, <1>3 DEF TypeOK, LoopOK, inventory, cache

\* The maps of a load are well typed.
LEMMA InstallType ==
    ASSUME TypeOK, Install
    PROVE  TypeOK'
<1>1. loop' = Idle /\ UNCHANGED <<inventory, events>>
    BY DEF Install
<1>2. LoopOK'
    BY <1>1 DEF LoopOK, Idle
<1>3. ProfileIDMap' \in [Profiles -> Profile \cup {Nil}]
    BY DEF TypeOK, Install
<1>4. /\ groupsIDToProfileID' \in [Groups -> [Profiles -> Nat]]
      /\ relationIDToProfilesID' \in [Relations -> [Profiles -> Nat]]
    BY DEF Install
<1> QED BY <1>1, <1>2, <1>3, <1>4 DEF TypeOK, LoopOK, inventory

\* A restarted manager begins with empty maps.
LEMMA RestartType ==
    ASSUME TypeOK, Restart
    PROVE  TypeOK'
<1>1. LoopOK'
    BY LoadType DEF Restart
<1>2. /\ ProfileIDMap' \in [Profiles -> Profile \cup {Nil}]
      /\ groupsIDToProfileID' \in [Groups -> [Profiles -> Nat]]
      /\ relationIDToProfilesID' \in [Relations -> [Profiles -> Nat]]
      /\ events' \in Seq(StreamEvent)
    BY DEF Restart
<1>3. UNCHANGED inventory
    BY DEF Restart
<1> QED BY <1>1, <1>2, <1>3 DEF TypeOK, LoopOK, inventory

\* Every step keeps the types.
LEMMA TypeNext ==
    ASSUME TypeOK, [Next]_vars
    PROVE  TypeOK'
<1>1. CASE Change
    BY <1>1, ChangeType
<1>2. CASE HandleDeleted
    BY <1>2, HandleDeletedType
<1>3. CASE GetResource
    BY <1>3, GetResourceType
<1>4. CASE Apply
    BY <1>4, ApplyType
<1>5. CASE ListPage \/ ListFails
    BY <1>5, ListPageType, ListFailsType
<1>6. CASE Install
    BY <1>6, InstallType
<1>7. CASE Tick
  <2>1. LoopOK' /\ UNCHANGED <<inventory, events, cache>>
    BY <1>7, LoadType DEF Tick
  <2> QED BY <2>1 DEF TypeOK, LoopOK, inventory, cache
<1>8. CASE Restart
    BY <1>8, RestartType
<1>9. CASE UNCHANGED vars
    BY <1>9 DEF TypeOK, vars, inventory, cache
<1> QED BY <1>1, <1>2, <1>3, <1>4, <1>5, <1>6, <1>7, <1>8, <1>9 DEF Next, Loop

\* The maps, the stream and the goroutine of the telemetry cache keep their
\* types.
THEOREM CacheTypeCorrect == Spec => []TypeOK
<1>1. Init => TypeOK
    BY TypeInit
<1>2. TypeOK /\ [Next]_vars => TypeOK'
    BY TypeNext
<1> QED BY <1>1, <1>2, PTL DEF Spec

-----------------------------------------------------------------------------
(* Cached profiles are listed *)

\* The maps agree at the beginning.
LEMMA ListedInit == Init => CachedIsListed
    BY DEF Init, CachedIsListed

\* A profile is cached with its entries, or it and its entries are not
\* touched, or it loses nothing but what it was cached with.
LEMMA ListedNext ==
    ASSUME TypeOK, CachedIsListed, [Next]_vars
    PROVE  CachedIsListed'
<1>1. TypeOK'
    BY TypeNext
<1>2. ASSUME UNCHANGED cache
      PROVE  CachedIsListed'
    BY <1>2 DEF CachedIsListed, Listed, cache
<1>3. ProfileIDMap \in [Profiles -> Profile \cup {Nil}]
    BY DEF TypeOK
<1>4. ASSUME NEW q \in Profiles, ProfileIDMap'[q] # Nil,
             ProfileIDMap'[q] = ProfileIDMap[q],
             \A g \in Groups : groupsIDToProfileID'[g][q] = groupsIDToProfileID[g][q],
             \A r \in Relations :
                relationIDToProfilesID'[r][q] = relationIDToProfilesID[r][q]
      PROVE  /\ relationIDToProfilesID'[ProfileIDMap'[q].relation][q] > 0
             /\ groupsIDToProfileID'[ProfileIDMap'[q].group][q] > 0
  <2>1. ProfileIDMap[q].relation \in Relations /\ ProfileIDMap[q].group \in Groups
    BY <1>3, <1>4, Edges
  <2>2. /\ relationIDToProfilesID[ProfileIDMap[q].relation][q] > 0
        /\ groupsIDToProfileID[ProfileIDMap[q].group][q] > 0
    BY <1>4 DEF CachedIsListed, Listed
  <2> QED BY <1>4, <2>1, <2>2
<1>5. SUFFICES ASSUME ~UNCHANGED cache, NEW q \in Profiles, ProfileIDMap'[q] # Nil
               PROVE  /\ relationIDToProfilesID'[ProfileIDMap'[q].relation][q] > 0
                      /\ groupsIDToProfileID'[ProfileIDMap'[q].group][q] > 0
    BY <1>2 DEF CachedIsListed, Listed
<1>6. CASE HandleDeleted
  <2> DEFINE p == Head(events).key
  <2>1. p \in Profiles
    BY <1>6, HeadType DEF HandleDeleted, StreamEvent
  <2>2. /\ ProfileIDMap' = [ProfileIDMap EXCEPT ![p] = Nil]
        /\ UpdateMaps(p, ProfileIDMap[p], Nil)
    BY <1>5, <1>6 DEF HandleDeleted
  <2> HIDE DEF p
  <2>3. p # q /\ ProfileIDMap'[q] = ProfileIDMap[q]
    BY <1>3, <1>5, <2>1, <2>2
  <2>4. ProfileIDMap[p] \in Profile \cup {Nil} /\ Nil \in Profile \cup {Nil}
    BY <1>3, <2>1
  <2>5. /\ \A g \in Groups : groupsIDToProfileID'[g][q] = groupsIDToProfileID[g][q]
        /\ \A r \in Relations :
              relationIDToProfilesID'[r][q] = relationIDToProfilesID[r][q]
    BY <2>1, <2>2, <2>3, <2>4, MapsEffect
  <2> QED BY <1>4, <1>5, <2>3, <2>5
<1>7. CASE Apply /\ loop.event.key \in Groups
  <2> DEFINE g == loop.event.key
  <2>1. ApplyGroup(g, loop.res) /\ g \in Groups
    BY <1>7 DEF Apply
  <2> HIDE DEF g
  <2>2. /\ groupsIDToProfileID' = groupsIDToProfileID
        /\ relationIDToProfilesID' = relationIDToProfilesID
    BY <2>1 DEF ApplyGroup
  <2>3. CASE groupsIDToProfileID[g][q] > 0 /\ ProfileIDMap[q] # Nil
    <3>1. ProfileIDMap'[q] =
             [ProfileIDMap[q] EXCEPT !.group = g, !.version = loop.res.version]
      BY <2>1, <2>3 DEF ApplyGroup
    <3>2. ProfileIDMap[q] \in Profile
      BY <1>3, <2>3
    <3>3. /\ ProfileIDMap'[q].group = g
          /\ ProfileIDMap'[q].relation = ProfileIDMap[q].relation
      BY <3>1, <3>2 DEF Profile
    <3>4. relationIDToProfilesID[ProfileIDMap[q].relation][q] > 0
      BY <2>3 DEF CachedIsListed, Listed
    <3> QED BY <2>2, <2>3, <3>3, <3>4
  <2>4. CASE ~(groupsIDToProfileID[g][q] > 0 /\ ProfileIDMap[q] # Nil)
    <3>1. ProfileIDMap'[q] = ProfileIDMap[q]
      BY <2>1, <2>4 DEF ApplyGroup
    <3> QED BY <1>4, <1>5, <2>2, <3>1
  <2> QED BY <2>3, <2>4
<1>8. CASE Apply /\ loop.event.key \notin Groups
  <2> DEFINE p == loop.event.key
             res == loop.res
  <2>1. p \in Profiles /\ res \in Profile
    BY <1>8 DEF TypeOK, Apply
  <2>2. ApplyProfile(p, loop.event.kind, res)
    BY <1>8 DEF Apply
  <2> HIDE DEF p, res
  <2>3. PICK old \in Profile \cup {Nil} : UpdateMaps(p, old, res)
    BY <1>3, <2>1, <2>2 DEF ApplyProfile
  <2>4. ProfileIDMap' = [ProfileIDMap EXCEPT ![p] = res]
    BY <2>2 DEF ApplyProfile
  <2>5. CASE p = q
    <3>1. ProfileIDMap'[q] = res /\ res # Nil
      BY <1>3, <1>5, <2>1, <2>4, <2>5
    <3>2. groupsIDToProfileID'[res.group][p] > 0 /\ relationIDToProfilesID'[res.relation][p] > 0
      BY <2>1, <2>3, <3>1, MapsEffect
    <3> QED BY <2>5, <3>1, <3>2
  <2>6. CASE p # q
    <3>1. ProfileIDMap'[q] = ProfileIDMap[q]
      BY <1>3, <2>4, <2>6
    <3>2. /\ \A g \in Groups : groupsIDToProfileID'[g][q] = groupsIDToProfileID[g][q]
          /\ \A r \in Relations :
                relationIDToProfilesID'[r][q] = relationIDToProfilesID[r][q]
      BY <2>1, <2>3, <2>6, MapsEffect
    <3> QED BY <1>4, <1>5, <3>1, <3>2
  <2> QED BY <2>5, <2>6
<1>9. CASE Install
  <2>1. ProfileIDMap'[q].relation \in Relations /\ ProfileIDMap'[q].group \in Groups
    <3>1. ProfileIDMap'[q] \in Profile \cup {Nil}
      BY <1>1 DEF TypeOK
    <3> QED BY <1>5, <3>1, Edges
  <2> QED BY <1>9, <2>1 DEF Install
<1>10. CASE Restart
    BY <1>5, <1>10 DEF Restart
<1>11. CASE Change
    BY <1>5, <1>11 DEF Change, CreateProfile, UpdateProfile, DeleteProfile, UpdateGroup
<1>12. CASE GetResource \/ ListPage \/ ListFails \/ Tick \/ UNCHANGED vars
    BY <1>5, <1>12 DEF GetResource, ListPage, ListFails, Tick, vars
<1> QED BY <1>6, <1>7, <1>8, <1>9, <1>10, <1>11, <1>12 DEF Next, Loop

\* What a host asks for, and what the change of a group reaches, misses no
\* cached profile.
THEOREM CachedAreListed == Spec => []CachedIsListed
<1>1. Init => TypeOK /\ CachedIsListed
    BY TypeInit, ListedInit
<1>2. TypeOK /\ CachedIsListed /\ [Next]_vars => TypeOK' /\ CachedIsListed'
    BY TypeNext, ListedNext
<1> QED BY <1>1, <1>2, PTL DEF Spec

-----------------------------------------------------------------------------
(* Deleted profiles are announced *)

\* The cache, or what the goroutine is about to put there, holds the profile.
Carried(p) ==
    \/ ProfileIDMap[p] # Nil
    \/ loop.pc = "apply" /\ loop.event.key = p
    \/ loop.pc \in {"list", "install"} /\ loop.found[p] # Nil

\* GhostsAreAnnounced is not inductive: a load or an answer may carry a
\* profile that was deleted since.
CarriedAreAnnounced ==
    \A p \in Profiles : stored[p] = Absent /\ Carried(p) => Announced(p)

\* An event that waits is not lost when another one arrives.
LEMMA AnnouncedAppend ==
    ASSUME TypeOK, NEW p \in Profiles, NEW e \in StreamEvent, Notify(e)
    PROVE  /\ Announced(p) => Announced(p)'
           /\ e = Event("DELETED", p) => Announced(p)'
<1>1. events \in Seq(StreamEvent) /\ events' = Append(events, e)
    BY DEF TypeOK, Notify
<1>2. /\ Len(events') = Len(events) + 1
      /\ Len(events) \in Nat
      /\ DOMAIN events = 1 .. Len(events) /\ DOMAIN events' = 1 .. Len(events')
      /\ \A k \in 1 .. Len(events) : events'[k] = events[k]
      /\ events'[Len(events) + 1] = e
    BY <1>1
<1>3. Announced(p) => Announced(p)'
    BY <1>2 DEF Announced, Event
<1>4. e = Event("DELETED", p) => Announced(p)'
    BY <1>2 DEF Announced, Event
<1> QED BY <1>3, <1>4

\* Handling one event takes no other off the stream.
LEMMA AnnouncedTail ==
    ASSUME TypeOK, NEW p \in Profiles, events # <<>>, events' = Tail(events),
           Head(events) # Event("DELETED", p), Announced(p)
    PROVE  Announced(p)'
<1>1. events \in Seq(StreamEvent)
    BY DEF TypeOK
<1>2. PICK k \in DOMAIN events : events[k] = Event("DELETED", p)
    BY DEF Announced
<1>3. k \in 2 .. Len(events)
    BY <1>1, <1>2
<1>4. k - 1 \in DOMAIN events' /\ events'[k - 1] = events[k]
    BY <1>1, <1>3
<1> QED BY <1>2, <1>4 DEF Announced, Event

\* Nothing is carried at the beginning.
LEMMA AnnouncedInit == Init => CarriedAreAnnounced
    BY DEF Init, CarriedAreAnnounced, Carried, Load

\* A change of Inventory announces what it deletes.
LEMMA AnnouncedChange ==
    ASSUME TypeOK, CarriedAreAnnounced, Change, NEW q \in Profiles,
           stored'[q] = Absent, Carried(q)'
    PROVE  Announced(q)'
<1>1. UNCHANGED <<loop, cache>>
    BY DEF Change, CreateProfile, UpdateProfile, DeleteProfile, UpdateGroup
<1>2. Carried(q)
    BY <1>1 DEF Carried, cache
<1>3. stored[q] = Absent => Announced(q)
    BY <1>2 DEF CarriedAreAnnounced
<1>4. stored \in [Profiles -> [relation : Relations, group : Groups] \cup {Absent}]
    BY DEF TypeOK
<1>5. ASSUME NEW p \in Profiles, NEW r \in Relations, NEW g \in Groups, NEW e \in StreamEvent,
             stored' = [stored EXCEPT ![p] = [relation |-> r, group |-> g]],
             Notify(e)
      PROVE  Announced(q)'
  <2>1. [relation |-> r, group |-> g] # Absent
    BY TelemetryCacheAssumption DEF Absent
  <2>2. stored[q] = Absent
    BY <1>4, <1>5, <2>1
  <2> QED BY <1>3, <1>5, <2>2, AnnouncedAppend
<1>6. CASE \E p \in Profiles, r \in Relations, g \in Groups :
              CreateProfile(p, r, g) \/ UpdateProfile(p, r, g)
  <2>1. PICK p \in Profiles, r \in Relations, g \in Groups :
              CreateProfile(p, r, g) \/ UpdateProfile(p, r, g)
    BY <1>6
  <2>2. Event("CREATED", p) \in StreamEvent /\ Event("UPDATED", p) \in StreamEvent
    BY DEF Event, StreamEvent
  <2>3. PICK e \in StreamEvent :
           Notify(e) /\ stored' = [stored EXCEPT ![p] = [relation |-> r, group |-> g]]
    BY <2>1, <2>2 DEF CreateProfile, UpdateProfile
  <2> QED BY <1>5, <2>3
<1>7. ASSUME NEW p \in Profiles, DeleteProfile(p)
      PROVE  Announced(q)'
  <2>1. Event("DELETED", p) \in StreamEvent /\ Notify(Event("DELETED", p))
    BY <1>7 DEF Event, StreamEvent, DeleteProfile
  <2>2. CASE p = q
    BY <2>1, <2>2, AnnouncedAppend
  <2>3. CASE p # q
    <3>1. stored[q] = Absent
      BY <1>4, <1>7, <2>3 DEF DeleteProfile
    <3> QED BY <1>3, <2>1, <3>1, AnnouncedAppend
  <2> QED BY <2>2, <2>3
<1>8. ASSUME NEW g \in Groups, UpdateGroup(g)
      PROVE  Announced(q)'
  <2>1. Event("UPDATED", g) \in StreamEvent /\ Notify(Event("UPDATED", g))
    BY <1>8 DEF Event, StreamEvent, UpdateGroup
  <2>2. stored[q] = Absent
    BY <1>8 DEF UpdateGroup
  <2> QED BY <1>3, <2>1, <2>2, AnnouncedAppend
<1> QED BY <1>6, <1>7, <1>8 DEF Change

\* Every step keeps the announcement of what is carried and gone.
LEMMA AnnouncedNext ==
    ASSUME TypeOK, CarriedAreAnnounced, [Next]_vars
    PROVE  CarriedAreAnnounced'
<1>1. SUFFICES ASSUME NEW q \in Profiles, stored'[q] = Absent, Carried(q)'
               PROVE  Announced(q)'
    BY DEF CarriedAreAnnounced
<1>2. CASE Change
    BY <1>1, <1>2, AnnouncedChange
<1>3. ASSUME stored' = stored, Carried(q), events' = events
      PROVE  Announced(q)'
    BY <1>1, <1>3 DEF CarriedAreAnnounced, Announced
<1>4. CASE HandleDeleted
  <2> DEFINE p == Head(events).key
  <2>1. /\ p \in Profiles /\ Head(events) \in StreamEvent
        /\ events # <<>> /\ events' = Tail(events) /\ stored' = stored
        /\ loop.pc = "idle" /\ loop' = loop
    BY <1>4, HeadType DEF HandleDeleted, StreamEvent, inventory
  <2>2. ProfileIDMap'[q] # Nil
    BY <1>1, <2>1 DEF Carried
  <2>3. ProfileIDMap \in [Profiles -> Profile \cup {Nil}]
    BY DEF TypeOK
  <2>4. \/ ProfileIDMap' = [ProfileIDMap EXCEPT ![p] = Nil]
        \/ ProfileIDMap[p] = Nil /\ ProfileIDMap' = ProfileIDMap
    BY <1>4 DEF HandleDeleted, cache
  <2>5. p # q /\ ProfileIDMap[q] # Nil
    BY <2>1, <2>2, <2>3, <2>4
  <2>6. Announced(q)
    BY <1>1, <2>1, <2>5 DEF CarriedAreAnnounced, Carried
  <2>7. Head(events) # Event("DELETED", q)
    BY <2>5 DEF Event
  <2> QED BY <2>1, <2>6, <2>7, AnnouncedTail
<1>5. CASE GetResource
  <2>1. /\ events # <<>> /\ events' = Tail(events) /\ Head(events).kind # "DELETED"
        /\ UNCHANGED <<inventory, cache>> /\ loop.pc = "idle"
    BY <1>5 DEF GetResource
  <2>2. Carried(q)
    <3>1. CASE loop' = loop
      BY <1>1, <2>1, <3>1 DEF Carried, cache
    <3>2. CASE /\ Resource(Head(events).key) # Nil
               /\ loop' = [pc |-> "apply", event |-> Head(events),
                           res |-> Resource(Head(events).key)]
      <4>1. CASE Head(events).key = q
        <5>1. Resource(Head(events).key) = Read(q)
          BY <4>1, TelemetryCacheAssumption DEF Resource
        <5> QED BY <1>1, <2>1, <3>2, <5>1, ReadType DEF inventory
      <4>2. CASE Head(events).key # q
        BY <1>1, <2>1, <3>2, <4>2 DEF Carried, cache
      <4> QED BY <4>1, <4>2
    <3> QED BY <1>5, <3>1, <3>2 DEF GetResource
  <2>3. Announced(q)
    BY <1>1, <2>1, <2>2 DEF CarriedAreAnnounced, inventory
  <2>4. Head(events) # Event("DELETED", q)
    BY <2>1 DEF Event
  <2> QED BY <2>1, <2>3, <2>4, AnnouncedTail
<1>6. CASE Apply
  <2>1. loop.pc = "apply" /\ loop'.pc = "idle" /\ stored' = stored /\ events' = events
    BY <1>6 DEF Apply, Idle, inventory
  <2>2. ProfileIDMap'[q] # Nil
    BY <1>1, <2>1 DEF Carried
  <2>3. ProfileIDMap \in [Profiles -> Profile \cup {Nil}]
    BY DEF TypeOK
  <2>4. loop.event.key = q \/ ProfileIDMap[q] # Nil
    BY <1>6, <2>2, <2>3 DEF Apply, ApplyGroup, ApplyProfile
  <2> QED BY <1>3, <2>1, <2>4 DEF Carried
<1>7. CASE ListPage \/ ListFails
  <2> DEFINE found == [p \in Profiles |->
                          IF p \in Page(loop.offset) THEN Read(p) ELSE loop.found[p]]
  <2>1. loop.pc = "list" /\ UNCHANGED <<inventory, events, cache>>
    BY <1>7 DEF ListPage, ListFails
  <2>2. /\ loop'.pc \in {"list", "install"}
        /\ loop'.found \in {found, loop.found}
    BY <1>7 DEF ListPage, ListFails
  <2>3. Read(q) = Nil
    BY <1>1, <2>1, ReadType DEF inventory
  <2>4. loop'.found[q] # Nil => loop.found[q] # Nil
    BY <2>2, <2>3
  <2>5. ProfileIDMap' = ProfileIDMap
    BY <2>1 DEF cache
  <2> HIDE DEF found
  <2>6. Carried(q)
    BY <1>1, <2>1, <2>2, <2>4, <2>5 DEF Carried
  <2> QED BY <1>3, <2>1, <2>6 DEF inventory
<1>8. CASE Install
  <2>1. /\ loop.pc = "install" /\ loop'.pc = "idle" /\ ProfileIDMap' = loop.found
        /\ stored' = stored /\ events' = events
    BY <1>8 DEF Install, Idle, inventory
  <2> QED BY <1>1, <1>3, <2>1 DEF Carried
<1>9. CASE Tick
    BY <1>1, <1>3, <1>9 DEF Tick, Carried, Load, inventory, cache
<1>10. CASE Restart
    BY <1>1, <1>10 DEF Restart, Carried, Load
<1>11. CASE UNCHANGED vars
    BY <1>1, <1>3, <1>11 DEF vars, inventory, cache, Carried
<1> QED BY <1>2, <1>4, <1>5, <1>6, <1>7, <1>8, <1>9, <1>10, <1>11 DEF Next, Loop

\* A deleted profile stays in the cache only until the event that tells so is
\* handled: no load that began earlier and no late answer brings it back.
THEOREM GhostsAnnounced == Spec => []GhostsAreAnnounced
<1>1. Init => TypeOK /\ CarriedAreAnnounced
    BY TypeInit, AnnouncedInit
<1>2. TypeOK /\ CarriedAreAnnounced /\ [Next]_vars => TypeOK' /\ CarriedAreAnnounced'
    BY TypeNext, AnnouncedNext
<1>3. CarriedAreAnnounced => GhostsAreAnnounced
    BY DEF CarriedAreAnnounced, GhostsAreAnnounced, Carried
<1> QED BY <1>1, <1>2, <1>3, PTL DEF Spec

-----------------------------------------------------------------------------
(* A quiet cache is current *)

\* Calls never fail, and one page holds all profiles.
Undisrupted == Failing = {} /\ Cardinality(Profiles) =< BatchSize

\* What the cache will hold of a profile when the goroutine is idle again.
Coming(p) ==
    IF loop.pc = "list" THEN Read(p)
    ELSE IF loop.pc = "install" THEN loop.found[p]
    ELSE IF loop.pc = "apply" /\ loop.event.key = p THEN loop.res
    ELSE IF /\ loop.pc = "apply" /\ loop.event.key \in Groups
            /\ groupsIDToProfileID[loop.event.key][p] > 0 /\ ProfileIDMap[p] # Nil
         THEN [relation |-> ProfileIDMap[p].relation, group |-> loop.event.key,
               version |-> loop.res.version]
    ELSE ProfileIDMap[p]

\* An event about a key waits.
Waits(key) == \E k \in DOMAIN events : events[k].key = key

\* A load is at its first page and has found nothing.
LoadsAreFresh == loop.pc = "list" => loop = Load

\* No profile lives twice, and the last event about one that is gone says so.
EventsInOrder ==
    /\ \A p \in Profiles : stored[p] # Absent => p \in created
    /\ \A p \in Profiles, k \in DOMAIN events : events[k].key = p =>
          /\ p \in created
          /\ events[k].kind = "DELETED" => stored[p] = Absent
          /\ stored[p] = Absent =>
                \E l \in DOMAIN events : k =< l /\ events[l] = Event("DELETED", p)

\* What was missed of a profile is still to be told.
ProfilesAreTold ==
    \A p \in Profiles : Coming(p).relation = Read(p).relation \/ Waits(p)

\* What was missed of the group that a profile shows is still to be told.
GroupsAreTold ==
    \A p \in Profiles : Coming(p) # Nil =>
        \/ Coming(p).version = groupVersion[Coming(p).group]
        \/ Waits(Coming(p).group)

ToldInv == LoadsAreFresh /\ EventsInOrder /\ ProfilesAreTold /\ GroupsAreTold

LEMMA ToldInit == Init => ToldInv
<1> SUFFICES ASSUME Init PROVE ToldInv
    OBVIOUS
<1>1. loop.pc = "list" /\ loop = Load /\ events = <<>> /\ \A p \in Profiles : stored[p] = Absent
    BY DEF Init, Load
<1>2. \A p \in Profiles : Coming(p) = Nil /\ Read(p) = Nil
    BY <1>1 DEF Coming, Read
<1> QED BY <1>1, <1>2 DEF ToldInv, LoadsAreFresh, EventsInOrder, ProfilesAreTold, GroupsAreTold

\* What is to be read is current.
LEMMA ListTold ==
    ASSUME loop'.pc = "list", NEW p \in Profiles
    PROVE  /\ (Coming(p) = Read(p))'
           /\ (Coming(p) # Nil => Coming(p).version = groupVersion[Coming(p).group])'
    BY DEF Coming, Read, Nil

LEMMA EventsAppend ==
    ASSUME TypeOK, NEW e \in StreamEvent, Notify(e)
    PROVE  /\ Len(events) \in Nat
           /\ DOMAIN events = 1 .. Len(events) /\ DOMAIN events' = 1 .. Len(events) + 1
           /\ \A k \in 1 .. Len(events) : events'[k] = events[k]
           /\ events'[Len(events) + 1] = e
           /\ \A key : Waits(key) => Waits(key)'
           /\ Waits(e.key)'
<1>1. events \in Seq(StreamEvent) /\ events' = Append(events, e)
    BY DEF TypeOK, Notify
<1>2. /\ Len(events) \in Nat
      /\ DOMAIN events = 1 .. Len(events) /\ DOMAIN events' = 1 .. Len(events) + 1
      /\ \A k \in 1 .. Len(events) : events'[k] = events[k]
      /\ events'[Len(events) + 1] = e
    BY <1>1
<1>3. Len(events) + 1 \in DOMAIN events'
    BY <1>2
<1>4. \A key : Waits(key) => Waits(key)'
    BY <1>2 DEF Waits
<1>5. Waits(e.key)'
    BY <1>2, <1>3 DEF Waits
<1> QED BY <1>2, <1>4, <1>5

LEMMA EventsTail ==
    ASSUME TypeOK, events # <<>>, events' = Tail(events)
    PROVE  /\ DOMAIN events \subseteq Nat /\ 1 \in DOMAIN events /\ events[1] = Head(events)
           /\ \A k \in DOMAIN events' : k + 1 \in DOMAIN events /\ events'[k] = events[k + 1]
           /\ \A k \in DOMAIN events : k # 1 => /\ k - 1 \in DOMAIN events'
                                                /\ events'[k - 1] = events[k]
           /\ DOMAIN events' \subseteq Nat
           /\ \A key : Waits(key) /\ Head(events).key # key => Waits(key)'
<1>1. events \in Seq(StreamEvent)
    BY DEF TypeOK
<1>2. /\ DOMAIN events = 1 .. Len(events) /\ Len(events) \in Nat
      /\ DOMAIN events' = 1 .. Len(events) - 1 /\ Len(events) # 0
      /\ \A k \in 1 .. Len(events) - 1 : events'[k] = events[k + 1]
      /\ events[1] = Head(events)
    BY <1>1
<1>3. \A k \in DOMAIN events : k # 1 => k - 1 \in DOMAIN events' /\ events'[k - 1] = events[k]
    BY <1>2
<1>4. \A key : Waits(key) /\ Head(events).key # key => Waits(key)'
    BY <1>2, <1>3 DEF Waits
<1> QED BY <1>2, <1>3, <1>4

\* Taking the first event off keeps the order.
LEMMA OrderTail ==
    ASSUME TypeOK, EventsInOrder, events # <<>>, events' = Tail(events), UNCHANGED inventory
    PROVE  EventsInOrder'
<1>1. stored' = stored /\ created' = created
    BY DEF inventory
<1>2. ASSUME NEW p \in Profiles, NEW k \in DOMAIN events', events'[k].key = p
      PROVE  /\ p \in created
             /\ events'[k].kind = "DELETED" => stored[p] = Absent
             /\ stored[p] = Absent =>
                   \E l \in DOMAIN events' : k =< l /\ events'[l] = Event("DELETED", p)
  <2>1. k \in Nat /\ k + 1 \in DOMAIN events /\ events[k + 1] = events'[k]
    BY EventsTail
  <2>2. /\ p \in created
        /\ events'[k].kind = "DELETED" => stored[p] = Absent
        /\ stored[p] = Absent =>
              \E l \in DOMAIN events : k + 1 =< l /\ events[l] = Event("DELETED", p)
    BY <1>2, <2>1 DEF EventsInOrder
  <2>3. ASSUME stored[p] = Absent
        PROVE  \E l \in DOMAIN events' : k =< l /\ events'[l] = Event("DELETED", p)
    <3>1. PICK l \in DOMAIN events : k + 1 =< l /\ events[l] = Event("DELETED", p)
        BY <2>2, <2>3
    <3>2. l \in Nat /\ l # 1 /\ k =< l - 1
        BY <2>1, <3>1, EventsTail
    <3>3. l - 1 \in DOMAIN events' /\ events'[l - 1] = events[l]
        BY <3>2, EventsTail
    <3> QED BY <3>1, <3>2, <3>3
  <2> QED BY <2>2, <2>3
<1> QED BY <1>1, <1>2 DEF EventsInOrder, Event

\* A change of one profile adds an event about it, which says DELETED if it is
\* one; a new profile is one that no event is about.
LEMMA OrderAppend ==
    ASSUME TypeOK, EventsInOrder, NEW e \in StreamEvent, Notify(e), created \subseteq created',
           e.key \in Profiles => e.key \in created',
           \A p \in Profiles : stored'[p] # Absent => p \in created',
           \A p \in Profiles : e.key # p => stored'[p] = stored[p],
           \A p \in Profiles : e.key = p =>
              \/ e = Event("DELETED", p) /\ stored'[p] = Absent
              \/ /\ e.kind # "DELETED" /\ stored'[p] # Absent
                 /\ p \in created => stored[p] # Absent
    PROVE  EventsInOrder'
<1>1. /\ Len(events) \in Nat
      /\ DOMAIN events = 1 .. Len(events) /\ DOMAIN events' = 1 .. Len(events) + 1
      /\ \A k \in 1 .. Len(events) : events'[k] = events[k]
      /\ events'[Len(events) + 1] = e
    BY EventsAppend
<1>2. ASSUME NEW p \in Profiles, NEW k \in DOMAIN events', events'[k].key = p
      PROVE  /\ p \in created'
             /\ events'[k].kind = "DELETED" => stored'[p] = Absent
             /\ stored'[p] = Absent =>
                   \E l \in DOMAIN events' : k =< l /\ events'[l] = Event("DELETED", p)
  <2>1. CASE e.key = p
    <3>1. CASE e = Event("DELETED", p) /\ stored'[p] = Absent
      <4>1. Len(events) + 1 \in DOMAIN events' /\ k =< Len(events) + 1
        BY <1>1
      <4> QED BY <1>1, <2>1, <3>1, <4>1
    <3>2. CASE e.kind # "DELETED" /\ stored'[p] # Absent /\ (p \in created => stored[p] # Absent)
      <4>1. CASE k = Len(events) + 1
        BY <1>1, <2>1, <3>2, <4>1
      <4>2. CASE k \in 1 .. Len(events)
        <5>1. events[k].key = p /\ k \in DOMAIN events
            BY <1>1, <1>2, <4>2
        <5>2. p \in created /\ (events[k].kind = "DELETED" => stored[p] = Absent)
            BY <5>1 DEF EventsInOrder
        <5> QED BY <1>1, <2>1, <3>2, <4>2, <5>2
      <4> QED BY <1>1, <4>1, <4>2
    <3> QED BY <2>1, <3>1, <3>2
  <2>2. CASE e.key # p
    <3>1. k \in 1 .. Len(events) /\ events[k].key = p /\ stored'[p] = stored[p]
        BY <1>1, <1>2, <2>2
    <3>2. /\ p \in created
          /\ events[k].kind = "DELETED" => stored[p] = Absent
          /\ stored[p] = Absent =>
                \E l \in DOMAIN events : k =< l /\ events[l] = Event("DELETED", p)
        BY <1>1, <3>1 DEF EventsInOrder
    <3>3. \A l \in DOMAIN events : l \in DOMAIN events' /\ events'[l] = events[l]
        BY <1>1
    <3> QED BY <3>1, <3>2, <3>3
  <2> QED BY <2>1, <2>2
<1> QED BY <1>2 DEF EventsInOrder, Event

\* What TelemetryCacheAssumption says of keys.
LEMMA Keys ==
    /\ \A p \in Profiles : p \notin Groups
    /\ \A g \in Groups : g \notin Profiles /\ g # EmptyKey
    /\ \A r \in Relations : r # EmptyKey
    BY TelemetryCacheAssumption

\* A change of a profile: all others are read as before.
LEMMA ToldProfileChange ==
    ASSUME TypeOK, ToldInv, NEW p \in Profiles, NEW kind \in {"CREATED", "UPDATED", "DELETED"},
           Notify(Event(kind, p)), UNCHANGED <<groupVersion, loop, cache>>,
           \A q \in Profiles \ {p} : stored'[q] = stored[q]
    PROVE  ProfilesAreTold' /\ GroupsAreTold' /\ LoadsAreFresh'
<1>1. Event(kind, p) \in StreamEvent /\ Event(kind, p).key = p
    BY DEF Event, StreamEvent
<1>2. (\A key : Waits(key) => Waits(key)') /\ Waits(p)'
    BY <1>1, EventsAppend
<1>3. loop' = loop /\ LoadsAreFresh'
    BY DEF ToldInv, LoadsAreFresh
<1>4. CASE loop.pc = "list"
    BY <1>3, <1>4, ListTold DEF ProfilesAreTold, GroupsAreTold
<1>5. CASE loop.pc # "list"
  <2>1. \A q \in Profiles : Coming(q)' = Coming(q)
    BY <1>3, <1>5 DEF Coming, cache
  <2>2. \A q \in Profiles \ {p} : Read(q)' = Read(q)
    BY DEF Read
  <2>3. ProfilesAreTold'
    BY <1>2, <2>1, <2>2 DEF ToldInv, ProfilesAreTold
  <2>4. GroupsAreTold'
    BY <1>2, <2>1 DEF ToldInv, GroupsAreTold
  <2> QED BY <1>3, <2>3, <2>4
<1> QED BY <1>3, <1>4, <1>5

LEMMA ToldChange ==
    ASSUME TypeOK, ToldInv, Change
    PROVE  ToldInv'
<1>1. ASSUME NEW p \in Profiles, NEW r \in Relations, NEW g \in Groups, CreateProfile(p, r, g)
      PROVE  ToldInv'
  <2>1. /\ created' = created \cup {p} /\ p \notin created
        /\ stored' = [stored EXCEPT ![p] = [relation |-> r, group |-> g]]
        /\ Notify(Event("CREATED", p)) /\ UNCHANGED <<groupVersion, loop, cache>>
    BY <1>1 DEF CreateProfile
  <2>2. /\ \A q \in Profiles \ {p} : stored'[q] = stored[q]
        /\ stored'[p] # Absent
    BY <2>1, Keys DEF TypeOK, Absent
  <2>3. Event("CREATED", p) \in StreamEvent /\ Event("CREATED", p).key = p
    BY DEF Event, StreamEvent
  <2>4. EventsInOrder'
    <3>1. \A q \in Profiles : stored'[q] # Absent => q \in created'
        BY <2>1, <2>2 DEF ToldInv, EventsInOrder
    <3>2. Event("CREATED", p).kind # "DELETED"
        BY DEF Event
    <3> QED BY <2>1, <2>2, <2>3, <3>1, <3>2, OrderAppend DEF ToldInv
  <2> QED BY <2>1, <2>2, <2>4, ToldProfileChange DEF ToldInv
<1>2. ASSUME NEW p \in Profiles, NEW r \in Relations, NEW g \in Groups, UpdateProfile(p, r, g)
      PROVE  ToldInv'
  <2>1. /\ created' = created /\ stored[p] # Absent
        /\ stored' = [stored EXCEPT ![p] = [relation |-> r, group |-> g]]
        /\ Notify(Event("UPDATED", p)) /\ UNCHANGED <<groupVersion, loop, cache>>
    BY <1>2 DEF UpdateProfile, Existing
  <2>2. /\ \A q \in Profiles \ {p} : stored'[q] = stored[q]
        /\ stored'[p] # Absent
    BY <2>1, Keys DEF TypeOK, Absent
  <2>3. Event("UPDATED", p) \in StreamEvent /\ Event("UPDATED", p).key = p
    BY DEF Event, StreamEvent
  <2>4. EventsInOrder'
    <3>1. p \in created' /\ \A q \in Profiles : stored'[q] # Absent => q \in created'
        BY <2>1, <2>2 DEF ToldInv, EventsInOrder
    <3>2. Event("UPDATED", p).kind # "DELETED"
        BY DEF Event
    <3> QED BY <2>1, <2>2, <2>3, <3>1, <3>2, OrderAppend DEF ToldInv
  <2> QED BY <2>1, <2>2, <2>4, ToldProfileChange DEF ToldInv
<1>3. ASSUME NEW p \in Profiles, DeleteProfile(p)
      PROVE  ToldInv'
  <2>1. /\ created' = created /\ stored[p] # Absent
        /\ stored' = [stored EXCEPT ![p] = Absent]
        /\ Notify(Event("DELETED", p)) /\ UNCHANGED <<groupVersion, loop, cache>>
    BY <1>3 DEF DeleteProfile, Existing
  <2>2. /\ \A q \in Profiles \ {p} : stored'[q] = stored[q]
        /\ stored'[p] = Absent
    BY <2>1 DEF TypeOK
  <2>3. Event("DELETED", p) \in StreamEvent /\ Event("DELETED", p).key = p
    BY DEF Event, StreamEvent
  <2>4. EventsInOrder'
    <3>1. p \in created' /\ \A q \in Profiles : stored'[q] # Absent => q \in created'
        BY <2>1, <2>2 DEF ToldInv, EventsInOrder
    <3> QED BY <2>1, <2>2, <2>3, <3>1, OrderAppend DEF ToldInv
  <2> QED BY <2>1, <2>2, <2>4, ToldProfileChange DEF ToldInv
<1>4. ASSUME NEW g \in Groups, UpdateGroup(g)
      PROVE  ToldInv'
  <2>1. /\ groupVersion' = [groupVersion EXCEPT ![g] = @ + 1]
        /\ Notify(Event("UPDATED", g)) /\ UNCHANGED <<created, stored, loop, cache>>
    BY <1>4 DEF UpdateGroup
  <2>2. Event("UPDATED", g) \in StreamEvent /\ Event("UPDATED", g).key = g
    BY DEF Event, StreamEvent
  <2>3. EventsInOrder'
    BY <2>1, <2>2, Keys, OrderAppend DEF ToldInv, EventsInOrder
  <2>4. (\A key : Waits(key) => Waits(key)') /\ Waits(g)'
    BY <2>1, <2>2, EventsAppend
  <2>5. loop' = loop /\ LoadsAreFresh'
    BY <2>1 DEF ToldInv, LoadsAreFresh
  <2>6. CASE loop.pc = "list"
    BY <2>3, <2>5, <2>6, ListTold DEF ToldInv, ProfilesAreTold, GroupsAreTold
  <2>7. CASE loop.pc # "list"
    <3>1. \A q \in Profiles : Coming(q)' = Coming(q)
        BY <2>1, <2>7 DEF Coming, cache
    <3>2. \A q \in Profiles : Read(q)'.relation = Read(q).relation
        BY <2>1 DEF Read, Nil
    <3>3. ProfilesAreTold'
        BY <2>4, <3>1, <3>2 DEF ToldInv, ProfilesAreTold
    <3>4. ASSUME NEW q \in Profiles, Coming(q)' # Nil
          PROVE  (Coming(q).version = groupVersion[Coming(q).group] \/ Waits(Coming(q).group))'
      <4>1. CASE Coming(q).group = g
        BY <2>4, <3>1, <4>1
      <4>2. CASE Coming(q).group # g
        <5>1. groupVersion'[Coming(q).group] = groupVersion[Coming(q).group]
            BY <2>1, <4>2 DEF TypeOK
        <5> QED BY <2>4, <3>1, <3>4, <5>1 DEF ToldInv, GroupsAreTold
      <4> QED BY <4>1, <4>2
    <3> QED BY <2>3, <2>5, <3>3, <3>4 DEF ToldInv, GroupsAreTold
  <2> QED BY <2>6, <2>7
<1> QED BY <1>1, <1>2, <1>3, <1>4 DEF Change

LEMMA ToldDelete ==
    ASSUME TypeOK, ToldInv, HandleDeleted
    PROVE  ToldInv'
<1>1. /\ loop.pc = "idle" /\ loop' = loop
      /\ events # <<>> /\ events' = Tail(events) /\ Head(events).kind = "DELETED"
      /\ UNCHANGED inventory
    BY DEF HandleDeleted
<1>2. PICK p \in Profiles : p = Head(events).key
    BY <1>1, HeadType DEF StreamEvent
<1>3. EventsInOrder'
    BY <1>1, OrderTail DEF ToldInv
<1>4. stored[p] = Absent
    BY <1>1, <1>2, EventsTail DEF ToldInv, EventsInOrder
<1>5. Read(p)' = Nil /\ \A q \in Profiles : Read(q)' = Read(q)
    BY <1>1, <1>4 DEF Read, inventory
<1>6. \A q \in Profiles : Coming(q) = ProfileIDMap[q] /\ Coming(q)' = ProfileIDMap'[q]
    BY <1>1 DEF Coming
<1>7. ProfileIDMap'[p] = Nil /\ \A q \in Profiles \ {p} : ProfileIDMap'[q] = ProfileIDMap[q]
  <2>1. \/ ProfileIDMap' = [ProfileIDMap EXCEPT ![p] = Nil]
        \/ ProfileIDMap[p] = Nil /\ ProfileIDMap' = ProfileIDMap
    BY <1>2 DEF HandleDeleted, cache
  <2> QED BY <1>2, <2>1 DEF TypeOK
<1>8. \A key : Waits(key) /\ key # p => Waits(key)'
    BY <1>1, <1>2, EventsTail
<1>9. ProfilesAreTold'
    BY <1>5, <1>6, <1>7, <1>8 DEF ToldInv, ProfilesAreTold
<1>10. GroupsAreTold'
  <2> SUFFICES ASSUME NEW q \in Profiles, Coming(q)' # Nil
               PROVE  (Coming(q).version = groupVersion[Coming(q).group] \/ Waits(Coming(q).group))'
    BY DEF GroupsAreTold
  <2>1. q # p /\ Coming(q)' = Coming(q) /\ Coming(q) = ProfileIDMap[q]
    BY <1>6, <1>7
  <2>2. Coming(q).group # p
    <3>1. ProfileIDMap[q] \in Profile
        BY <1>6, <2>1 DEF TypeOK
    <3> QED BY <1>2, <2>1, <3>1, Keys DEF Profile
  <2>3. Coming(q).version = groupVersion[Coming(q).group] \/ Waits(Coming(q).group)
    BY <2>1 DEF ToldInv, GroupsAreTold
  <2> QED BY <1>1, <1>8, <2>1, <2>2, <2>3 DEF inventory
<1>11. LoadsAreFresh'
    BY <1>1 DEF ToldInv, LoadsAreFresh
<1> QED BY <1>3, <1>9, <1>10, <1>11 DEF ToldInv

LEMMA ToldGet ==
    ASSUME TypeOK, CachedIsListed, ToldInv, Failing = {}, GetResource
    PROVE  ToldInv'
<1>1. /\ loop.pc = "idle" /\ events # <<>> /\ events' = Tail(events)
      /\ Head(events).kind # "DELETED" /\ UNCHANGED <<inventory, cache>>
    BY DEF GetResource
<1>2. PICK key : key = Head(events).key
    OBVIOUS
<1>3. key \in Profiles \cup Groups
    BY <1>1, <1>2, HeadType DEF StreamEvent
<1>4. EventsInOrder'
    BY <1>1, OrderTail DEF ToldInv
<1>5. \A k : Waits(k) /\ k # key => Waits(k)'
    BY <1>1, <1>2, EventsTail
<1>6. \A q \in Profiles : Coming(q) = ProfileIDMap[q] /\ Read(q)' = Read(q)
    BY <1>1 DEF Coming, Read, inventory
<1>7. ProfileIDMap' = ProfileIDMap /\ groupsIDToProfileID' = groupsIDToProfileID
      /\ groupVersion' = groupVersion /\ stored' = stored
    BY <1>1 DEF inventory, cache
<1>8. ASSUME NEW q \in Profiles, Coming(q)' = Coming(q), q # key \/ Waits(q)',
             Coming(q) # Nil => Coming(q).group # key
      PROVE  /\ (Coming(q).relation = Read(q).relation \/ Waits(q))'
             /\ (Coming(q) # Nil =>
                    \/ Coming(q).version = groupVersion[Coming(q).group]
                    \/ Waits(Coming(q).group))'
  <2>1. Coming(q).relation = Read(q).relation \/ Waits(q)
    BY DEF ToldInv, ProfilesAreTold
  <2>2. Coming(q) # Nil => \/ Coming(q).version = groupVersion[Coming(q).group]
                           \/ Waits(Coming(q).group)
    BY DEF ToldInv, GroupsAreTold
  <2> QED BY <1>5, <1>6, <1>7, <1>8, <2>1, <2>2
<1>9. CASE key \in Groups
  <2>1. loop' = [pc |-> "apply", event |-> Head(events), res |-> Resource(key)]
    <3>1. Resource(key) # Nil
        BY <1>9, Keys DEF Resource, Nil
    <3> QED BY <1>2, <3>1 DEF GetResource
  <2>2. LoadsAreFresh'
    BY <2>1 DEF LoadsAreFresh
  <2>3. ASSUME NEW q \in Profiles
        PROVE  /\ (Coming(q).relation = Read(q).relation \/ Waits(q))'
               /\ (Coming(q) # Nil =>
                    \/ Coming(q).version = groupVersion[Coming(q).group]
                    \/ Waits(Coming(q).group))'
    <3>1. /\ loop'.pc = "apply" /\ loop'.event.key = key /\ q # key
          /\ loop'.res.version = groupVersion[key]
        BY <1>2, <1>9, <2>1, Keys DEF Resource
    <3>2. CASE groupsIDToProfileID[key][q] > 0 /\ ProfileIDMap[q] # Nil
      <4>1. Coming(q)' = [relation |-> ProfileIDMap[q].relation, group |-> key,
                          version |-> groupVersion[key]]
        BY <1>7, <1>9, <3>1, <3>2 DEF Coming
      <4>2. (Coming(q).relation = Read(q).relation \/ Waits(q))'
        BY <1>5, <1>6, <3>1, <4>1 DEF ToldInv, ProfilesAreTold
      <4> QED BY <1>7, <4>1, <4>2
    <3>3. CASE ~(groupsIDToProfileID[key][q] > 0 /\ ProfileIDMap[q] # Nil)
      <4>1. Coming(q)' = Coming(q)
        BY <1>6, <1>7, <1>9, <3>1, <3>3 DEF Coming
      <4>2. Coming(q) # Nil => Coming(q).group # key
        BY <1>6, <3>3 DEF CachedIsListed
      <4> QED BY <1>8, <3>1, <4>1, <4>2
    <3> QED BY <3>2, <3>3
  <2> QED BY <1>4, <2>2, <2>3 DEF ToldInv, ProfilesAreTold, GroupsAreTold
<1>10. CASE key \in Profiles
  <2>1. Resource(key) = Read(key)
    BY <1>10, Keys DEF Resource
  <2>2. \A q \in Profiles : Coming(q) # Nil => Coming(q).group # key
    <3>1. \A q \in Profiles : ProfileIDMap[q] # Nil => ProfileIDMap[q].group \in Groups
        BY DEF TypeOK, Profile
    <3> QED BY <1>6, <1>10, <3>1, Keys
  <2>3. CASE Read(key) # Nil
    <3>1. loop' = [pc |-> "apply", event |-> Head(events), res |-> Read(key)]
        BY <1>2, <2>1, <2>3 DEF GetResource
    <3>2. LoadsAreFresh'
        BY <3>1 DEF LoadsAreFresh
    <3>3. ASSUME NEW q \in Profiles
          PROVE  /\ (Coming(q).relation = Read(q).relation \/ Waits(q))'
                 /\ (Coming(q) # Nil =>
                      \/ Coming(q).version = groupVersion[Coming(q).group]
                      \/ Waits(Coming(q).group))'
      <4>1. loop'.pc = "apply" /\ loop'.event.key = key /\ loop'.res = Read(key)
        BY <1>2, <3>1
      <4>2. CASE q = key
        <5>1. Coming(q)' = Read(q)
            BY <4>1, <4>2 DEF Coming
        <5>2. Read(q).version = groupVersion[Read(q).group]
            BY <2>3, <4>2 DEF Read
        <5> QED BY <1>6, <1>7, <5>1, <5>2
      <4>3. CASE q # key
        <5>1. Coming(q)' = Coming(q)
            BY <1>6, <1>7, <1>10, <4>1, <4>3, Keys DEF Coming
        <5> QED BY <1>8, <2>2, <4>3, <5>1
      <4> QED BY <4>2, <4>3
    <3> QED BY <1>4, <3>2, <3>3 DEF ToldInv, ProfilesAreTold, GroupsAreTold
  <2>4. CASE Read(key) = Nil
    <3>1. loop' = loop
        BY <1>2, <2>1, <2>4 DEF GetResource
    <3>2. LoadsAreFresh'
        BY <3>1 DEF ToldInv, LoadsAreFresh
    <3>3. Waits(key)'
      <4>1. stored[key] = Absent
        BY <1>10, <2>4, ReadType
      <4>2. 1 \in DOMAIN events /\ events[1] = Head(events)
        BY <1>1, EventsTail
      <4>3. PICK l \in DOMAIN events : events[l] = Event("DELETED", key)
        BY <1>2, <1>10, <4>1, <4>2 DEF ToldInv, EventsInOrder
      <4>4. l # 1
        BY <1>1, <4>2, <4>3 DEF Event
      <4>5. l - 1 \in DOMAIN events' /\ events'[l - 1] = events[l]
        BY <1>1, <4>4, EventsTail
      <4> QED BY <4>3, <4>5 DEF Waits, Event
    <3>4. \A q \in Profiles : Coming(q)' = Coming(q)
        BY <1>1, <1>6, <1>7, <3>1 DEF Coming
    <3>5. ASSUME NEW q \in Profiles
          PROVE  /\ (Coming(q).relation = Read(q).relation \/ Waits(q))'
                 /\ (Coming(q) # Nil =>
                      \/ Coming(q).version = groupVersion[Coming(q).group]
                      \/ Waits(Coming(q).group))'
        BY <1>8, <2>2, <3>3, <3>4
    <3> QED BY <1>4, <3>2, <3>5 DEF ToldInv, ProfilesAreTold, GroupsAreTold
  <2> QED BY <2>3, <2>4
<1> QED BY <1>3, <1>9, <1>10

\* A step that leaves what is coming as it was, and Inventory and the stream.
LEMMA ToldKept ==
    ASSUME ToldInv, UNCHANGED <<inventory, events>>, LoadsAreFresh',
           \A q \in Profiles : Coming(q)' = Coming(q)
    PROVE  ToldInv'
<1>1. /\ events' = events /\ stored' = stored /\ created' = created
      /\ groupVersion' = groupVersion
    BY DEF inventory
<1>2. \A q \in Profiles : Read(q)' = Read(q)
    BY <1>1 DEF Read
<1>3. \A key : Waits(key)' <=> Waits(key)
    BY <1>1 DEF Waits
<1>4. EventsInOrder'
    BY <1>1 DEF ToldInv, EventsInOrder, Event
<1>5. ProfilesAreTold'
    BY <1>2, <1>3 DEF ToldInv, ProfilesAreTold
<1>6. GroupsAreTold'
    BY <1>1, <1>3 DEF ToldInv, GroupsAreTold
<1> QED BY <1>4, <1>5, <1>6 DEF ToldInv

LEMMA ToldApply ==
    ASSUME TypeOK, ToldInv, Apply
    PROVE  ToldInv'
<1> DEFINE key == loop.event.key
<1>1. /\ loop.pc = "apply" /\ loop'.pc = "idle" /\ UNCHANGED <<inventory, events>>
    BY DEF Apply, Idle
<1>2. \/ key \in Groups
      \/ key \in Profiles /\ loop.res \in Profile
    BY <1>1 DEF TypeOK
<1>3. ASSUME NEW q \in Profiles PROVE Coming(q)' = Coming(q)
  <2>1. Coming(q)' = ProfileIDMap'[q]
    BY <1>1 DEF Coming
  <2>2. CASE key \in Groups
    <3>1. q # key
        BY <2>2, Keys
    <3>2. ProfileIDMap'[q] = IF groupsIDToProfileID[key][q] > 0 /\ ProfileIDMap[q] # Nil
             THEN [ProfileIDMap[q] EXCEPT !.group = key, !.version = loop.res.version]
             ELSE ProfileIDMap[q]
        BY <2>2 DEF Apply, ApplyGroup
    <3>3. ProfileIDMap[q] # Nil => ProfileIDMap[q] \in Profile
        BY DEF TypeOK
    <3>4. ASSUME ProfileIDMap[q] \in Profile, NEW new,
                 new = [ProfileIDMap[q] EXCEPT !.group = key, !.version = loop.res.version]
          PROVE  new = [relation |-> ProfileIDMap[q].relation, group |-> key,
                        version |-> loop.res.version]
        BY <3>4 DEF Profile
    <3> QED BY <1>1, <2>1, <2>2, <3>1, <3>2, <3>3, <3>4 DEF Coming
  <2>3. CASE key \in Profiles
    <3>1. ProfileIDMap' = [ProfileIDMap EXCEPT ![key] = loop.res] /\ key \notin Groups
        BY <2>3, Keys DEF Apply, ApplyProfile
    <3>2. ProfileIDMap'[q] = IF q = key THEN loop.res ELSE ProfileIDMap[q]
        BY <3>1 DEF TypeOK
    <3> QED BY <1>1, <2>1, <3>1, <3>2 DEF Coming
  <2> QED BY <1>2, <2>2, <2>3
<1>4. LoadsAreFresh'
    BY <1>1 DEF LoadsAreFresh
<1> QED BY <1>1, <1>3, <1>4, ToldKept

LEMMA FewExist ==
    /\ IsFiniteSet(Existing)
    /\ Cardinality(Existing) \in Nat /\ BatchSize \in Nat
    /\ Undisrupted => Cardinality(Existing) =< BatchSize
<1>1. IsFiniteSet(Profiles) /\ BatchSize \in Nat
    BY TelemetryCacheAssumption
<1>2. IsFiniteSet(Existing) /\ Cardinality(Existing) =< Cardinality(Profiles)
    BY <1>1, FS_Subset DEF Existing
<1>3. Cardinality(Existing) \in Nat /\ Cardinality(Profiles) \in Nat
    BY <1>1, <1>2, FS_CardinalityType
<1> QED BY <1>1, <1>2, <1>3 DEF Undisrupted

\* One page shows all profiles that exist.
LEMMA OnePage ==
    ASSUME Undisrupted, NEW p \in Existing
    PROVE  p \in Page(0)
<1> DEFINE upTo == {q \in Existing : q =< p}
<1>1. IsFiniteSet(upTo) /\ Cardinality(upTo) =< Cardinality(Existing)
    BY FewExist, FS_Subset
<1>2. p \in upTo
    BY TelemetryCacheAssumption DEF Existing
<1>3. Cardinality(upTo) # 0 /\ Cardinality(upTo) \in Nat
    BY <1>1, <1>2, FS_EmptySet, FS_CardinalityType
<1> QED BY <1>1, <1>3, FewExist DEF Page, Place

LEMMA ToldLoad ==
    ASSUME TypeOK, ToldInv, Undisrupted, ListPage \/ ListFails \/ Install
    PROVE  ToldInv'
<1>1. CASE ListPage
  <2>1. loop = Load /\ loop.pc = "list" /\ loop.offset = 0 /\ loop.found = [p \in Profiles |-> Nil]
    BY <1>1 DEF ListPage, ToldInv, LoadsAreFresh, Load
  <2> DEFINE found == [p \in Profiles |-> IF p \in Page(loop.offset) THEN Read(p)
                                          ELSE loop.found[p]]
  <2>2. \A p \in Profiles : found[p] = Read(p)
    BY <2>1, OnePage DEF Existing, Read
  <2>3. ~(Cardinality(Existing) > loop.offset + BatchSize)
    BY <2>1, FewExist
  <2> HIDE DEF found
  <2>4. loop' = [pc |-> "install", found |-> found]
    BY <1>1, <2>3 DEF ListPage, found
  <2>5. \A p \in Profiles : Coming(p)' = found[p]
    BY <2>4 DEF Coming
  <2>6. \A p \in Profiles : Coming(p)' = Coming(p)
    BY <2>1, <2>2, <2>5 DEF Coming
  <2>7. UNCHANGED <<inventory, events>> /\ LoadsAreFresh'
    BY <1>1, <2>4 DEF ListPage, LoadsAreFresh
  <2> QED BY <2>6, <2>7, ToldKept
<1>2. CASE ListFails
    BY <1>2 DEF ListFails, Undisrupted
<1>3. CASE Install
  <2>1. /\ loop.pc = "install" /\ loop'.pc = "idle" /\ ProfileIDMap' = loop.found
        /\ UNCHANGED <<inventory, events>>
    BY <1>3 DEF Install, Idle
  <2>2. \A p \in Profiles : Coming(p)' = Coming(p)
    BY <2>1 DEF Coming
  <2> QED BY <2>1, <2>2, ToldKept DEF LoadsAreFresh
<1> QED BY <1>1, <1>2, <1>3

\* A load begins: everything is about to be read.
LEMMA ToldBegin ==
    ASSUME TypeOK, ToldInv, Tick \/ Restart
    PROVE  ToldInv'
<1>1. loop' = Load /\ loop'.pc = "list" /\ UNCHANGED inventory
    BY DEF Tick, Restart, Load
<1>2. EventsInOrder'
    BY <1>1 DEF Tick, Restart, inventory, ToldInv, EventsInOrder, Event
<1> QED BY <1>1, <1>2, ListTold DEF ToldInv, LoadsAreFresh, ProfilesAreTold, GroupsAreTold

LEMMA ToldNext ==
    ASSUME TypeOK, CachedIsListed, ToldInv, Undisrupted, [Next]_vars
    PROVE  ToldInv'
<1>1. CASE UNCHANGED vars
  <2>1. \A q \in Profiles : Coming(q)' = Coming(q)
    BY <1>1 DEF vars, inventory, cache, Coming, Read
  <2>2. LoadsAreFresh'
    BY <1>1 DEF vars, ToldInv, LoadsAreFresh
  <2> QED BY <1>1, <2>1, <2>2, ToldKept DEF vars
<1> QED BY <1>1, ToldChange, ToldDelete, ToldGet, ToldApply, ToldLoad, ToldBegin
        DEF Next, Loop, Undisrupted

\* A quiet cache shows every profile as Inventory has it.
LEMMA ToldIsCurrent ==
    ASSUME TypeOK, CachedIsListed, ToldInv
    PROVE  QuietCacheIsCurrent
<1> SUFFICES ASSUME loop.pc = "idle", events = <<>>, NEW p \in Profiles
             PROVE  /\ ProfileIDMap[p].relation = Read(p).relation
                    /\ OwnGroupOnly(p) => ProfileIDMap[p] = Read(p)
    BY DEF QuietCacheIsCurrent
<1>1. \A key : ~Waits(key)
    BY DEF Waits
<1>2. Coming(p) = ProfileIDMap[p]
    BY DEF Coming
<1>3. ProfileIDMap[p].relation = Read(p).relation
    BY <1>1, <1>2 DEF ToldInv, ProfilesAreTold
<1>4. ASSUME OwnGroupOnly(p) PROVE ProfileIDMap[p] = Read(p)
  <2>1. ProfileIDMap[p] \in Profile \cup {Nil}
    BY DEF TypeOK
  <2>2. CASE ProfileIDMap[p] = Nil
    <3>1. Read(p).relation = EmptyKey
        BY <1>3, <2>2 DEF Nil
    <3>2. Read(p) \notin Profile
        BY <3>1, Keys DEF Profile
    <3> QED BY <2>2, <3>2, ReadType
  <2>3. CASE ProfileIDMap[p] # Nil
    <3>1. ProfileIDMap[p] \in Profile /\ ProfileIDMap[p].relation # EmptyKey
        BY <2>1, <2>3, Keys DEF Profile
    <3>2. stored[p] # Absent
        BY <1>3, <3>1 DEF Read, Nil
    <3>3. ProfileIDMap[p].group = stored[p].group
        BY <1>4, <2>3, <3>1 DEF OwnGroupOnly, CachedIsListed, Profile
    <3>4. ProfileIDMap[p].version = groupVersion[ProfileIDMap[p].group]
        BY <1>1, <1>2, <2>3 DEF ToldInv, GroupsAreTold
    <3>5. /\ Read(p).relation = stored[p].relation /\ Read(p).group = stored[p].group
          /\ Read(p).version = groupVersion[stored[p].group] /\ Read(p) \in Profile
        BY <3>2, ReadType DEF Read
    <3> QED BY <1>3, <3>1, <3>3, <3>4, <3>5 DEF Profile
  <2> QED BY <2>2, <2>3
<1> QED BY <1>3, <1>4

\* When no call fails and one page holds all profiles, a cache that has handled
\* all events shows every profile with the relation it has in Inventory, and
\* with the latest state of its group unless a former group lists it still:
\* whatever was read late, told twice or loaded in between, and over restarts.
THEOREM QuietCacheCurrent ==
    ASSUME Undisrupted
    PROVE  Spec => []QuietCacheIsCurrent
<1> DEFINE Inv == TypeOK /\ CachedIsListed /\ ToldInv
<1>1. Init => Inv
    BY TypeInit, ListedInit, ToldInit
<1>2. Inv /\ [Next]_vars => Inv'
    BY TypeNext, ListedNext, ToldNext
<1>3. Inv => QuietCacheIsCurrent
    BY ToldIsCurrent
<1> QED BY <1>1, <1>2, <1>3, PTL DEF Spec
=============================================================================
