--------------------------- MODULE TelemetryCache ---------------------------
(***************************************************************************)
(* The telemetry manager's cache of telemetry profiles                     *)
(* (telemetry/internal/invclient/telemetrycache.go).                       *)
(*                                                                         *)
(* One goroutine loads all profiles page by page when it starts and at     *)
(* every tick, and in between handles the events of Inventory: it gets the *)
(* resource that an event names and puts it into three maps.  Go's select  *)
(* may prefer a tick to an event that arrived earlier.  The maps change    *)
(* under one lock, and the gRPC handlers only read them.                   *)
(*                                                                         *)
(* A key stands for a tenant with a resource ID.  Keys of profiles are     *)
(* numbers because Inventory lists them in the order of their IDs, which   *)
(* are random: a new profile can come before older ones.                   *)
(***************************************************************************)
EXTENDS Integers, FiniteSets, SequencesExt

CONSTANTS
    Profiles,    \* keys of telemetry profiles, never used twice
    Groups,      \* keys of telemetry groups
    Relations,   \* keys of the instances, sites and regions
    BatchSize,   \* resources in an answer of List
    Failing,     \* Inventory calls that may fail
    Restarts,    \* the manager may be restarted
    MaxVersion,  \* bound of the changes of a group
    MaxEvents    \* bound of the events that were not handled yet

EmptyKey == ""

ASSUME TelemetryCacheAssumption ==
    /\ Profiles \subseteq Nat /\ IsFiniteSet(Profiles)
    /\ Profiles \cap Groups = {}
    /\ EmptyKey \notin Relations \cup Groups
    /\ BatchSize \in Nat \ {0}
    /\ Failing \subseteq {"get", "list"}
    /\ Restarts \in BOOLEAN
    /\ MaxVersion \in Nat
    /\ MaxEvents \in Nat

VARIABLES
    created,        \* profiles that were ever created
    stored,         \* Inventory's profiles: relation and group
    groupVersion,   \* Inventory's groups: how often they were changed
    events,         \* the stream of events
    loop,           \* the goroutine
    ProfileIDMap,
    groupsIDToProfileID,     \* how often a group lists a profile
    relationIDToProfilesID   \* how often a relation lists a profile

inventory == <<created, stored, groupVersion>>
cache     == <<ProfileIDMap, groupsIDToProfileID, relationIDToProfilesID>>
vars      == <<inventory, events, loop, cache>>

-----------------------------------------------------------------------------
(* Inventory *)

\* A nil profile has empty edges.
Nil    == [relation |-> EmptyKey, group |-> EmptyKey, version |-> 0]
Absent == [relation |-> EmptyKey, group |-> EmptyKey]

Existing == {p \in Profiles : stored[p] # Absent}

\* A profile is read with its group.
Read(p) ==
    IF stored[p] = Absent THEN Nil
    ELSE [relation |-> stored[p].relation, group |-> stored[p].group,
          version |-> groupVersion[stored[p].group]]

Event(kind, key) == [kind |-> kind, key |-> key]

Notify(event) ==
    /\ Len(events) < MaxEvents
    /\ events' = Append(events, event)

CreateProfile(p, r, g) ==
    /\ p \notin created
    /\ created' = created \cup {p}
    /\ stored' = [stored EXCEPT ![p] = [relation |-> r, group |-> g]]
    /\ Notify(Event("CREATED", p))
    /\ UNCHANGED <<groupVersion, loop, cache>>

\* Relation and group may change, and so may fields that are left out.
UpdateProfile(p, r, g) ==
    /\ p \in Existing
    /\ stored' = [stored EXCEPT ![p] = [relation |-> r, group |-> g]]
    /\ Notify(Event("UPDATED", p))
    /\ UNCHANGED <<created, groupVersion, loop, cache>>

DeleteProfile(p) ==
    /\ p \in Existing
    /\ stored' = [stored EXCEPT ![p] = Absent]
    /\ Notify(Event("DELETED", p))
    /\ UNCHANGED <<created, groupVersion, loop, cache>>

UpdateGroup(g) ==
    /\ groupVersion[g] < MaxVersion
    /\ groupVersion' = [groupVersion EXCEPT ![g] = @ + 1]
    /\ Notify(Event("UPDATED", g))
    /\ UNCHANGED <<created, stored, loop, cache>>

-----------------------------------------------------------------------------
(* The maps *)

\* removeFromSlice takes away one of several.
Unlist(map, old, p) ==
    IF old # EmptyKey /\ map[old][p] > 0
    THEN [map EXCEPT ![old][p] = @ - 1] ELSE map

Enlist(map, new, p) ==
    IF new # EmptyKey THEN [map EXCEPT ![new][p] = @ + 1] ELSE map

\* updateResourceIDMap; two resources that were read are never the same object.
Update(map, p, old, new) == Enlist(Unlist(map, old, p), new, p)

\* updateResourceIDMap and updateRelationIDMap, for one profile.
UpdateMaps(p, old, new) ==
    /\ groupsIDToProfileID' = Update(groupsIDToProfileID, p, old.group, new.group)
    /\ relationIDToProfilesID' =
          Update(relationIDToProfilesID, p, old.relation, new.relation)

\* ListTelemetryProfileByRelation
Listed(r) ==
    {p \in Profiles : relationIDToProfilesID[r][p] > 0 /\ ProfileIDMap[p] # Nil}

-----------------------------------------------------------------------------
(* Events *)

Idle == [pc |-> "idle"]

\* Defect: the profile is left in the map of profiles.
HandleDeletedMaps ==
    /\ loop.pc = "idle" /\ events # <<>> /\ Head(events).kind = "DELETED"
    /\ events' = Tail(events)
    /\ UpdateMaps(Head(events).key, ProfileIDMap[Head(events).key], Nil)
    /\ UNCHANGED <<inventory, loop, ProfileIDMap>>

\* reconcileResource of a DELETED event asks nothing.
HandleDeleted ==
    /\ loop.pc = "idle" /\ events # <<>> /\ Head(events).kind = "DELETED"
    /\ events' = Tail(events)
    /\ LET p == Head(events).key IN
          IF ProfileIDMap[p] # Nil
          THEN /\ ProfileIDMap' = [ProfileIDMap EXCEPT ![p] = Nil]
               /\ UpdateMaps(p, ProfileIDMap[p], Nil)
          ELSE UNCHANGED cache
    /\ UNCHANGED <<inventory, loop>>

Resource(key) ==
    IF key \in Groups
    THEN [relation |-> EmptyKey, group |-> key, version |-> groupVersion[key]]
    ELSE Read(key)

\* Defect: the error of a resource that is gone is ignored.
GetResourceNil ==
    /\ loop.pc = "idle" /\ events # <<>> /\ Head(events).kind # "DELETED"
    /\ events' = Tail(events)
    /\ loop' = [pc |-> "apply", event |-> Head(events), res |-> Resource(Head(events).key)]
    /\ UNCHANGED <<inventory, cache>>

\* getResource; when it fails the event is lost.
GetResource ==
    /\ loop.pc = "idle" /\ events # <<>> /\ Head(events).kind # "DELETED"
    /\ events' = Tail(events)
    /\ LET res == Resource(Head(events).key) IN
          \/ /\ res # Nil
             /\ loop' = [pc |-> "apply", event |-> Head(events), res |-> res]
          \/ /\ res = Nil \/ "get" \in Failing
             /\ UNCHANGED loop
    /\ UNCHANGED <<inventory, cache>>

\* Defect: the group that a profile holds is not replaced.
ApplyNoGroup(g, res) == UNCHANGED cache

\* A group replaces the one of the profiles that it lists.
ApplyGroup(g, res) ==
    /\ ProfileIDMap' = [p \in Profiles |->
          IF groupsIDToProfileID[g][p] > 0 /\ ProfileIDMap[p] # Nil
          THEN [ProfileIDMap[p] EXCEPT !.group = g, !.version = res.version]
          ELSE ProfileIDMap[p]]
    /\ UNCHANGED <<groupsIDToProfileID, relationIDToProfilesID>>

\* Defect: the reverse maps are updated on creation only.
ApplyProfileUnmoved(p, kind, res) ==
    /\ ProfileIDMap' = [ProfileIDMap EXCEPT ![p] = res]
    /\ IF kind = "UPDATED" THEN UNCHANGED <<groupsIDToProfileID, relationIDToProfilesID>>
       ELSE UpdateMaps(p, Nil, res)

\* A profile replaces its former state, which is taken for nil on CREATED.
ApplyProfile(p, kind, res) ==
    /\ ProfileIDMap' = [ProfileIDMap EXCEPT ![p] = res]
    /\ UpdateMaps(p, IF kind = "UPDATED" THEN ProfileIDMap[p] ELSE Nil, res)

Apply ==
    /\ loop.pc = "apply"
    /\ IF loop.event.key \in Groups
       THEN ApplyGroup(loop.event.key, loop.res)
       ELSE ApplyProfile(loop.event.key, loop.event.kind, loop.res)
    /\ loop' = Idle
    /\ UNCHANGED <<inventory, events>>

-----------------------------------------------------------------------------
(* Loads *)

Load == [pc |-> "list", offset |-> 0, found |-> [p \in Profiles |-> Nil]]

\* The ticker
Tick ==
    /\ loop.pc = "idle"
    /\ loop' = Load
    /\ UNCHANGED <<inventory, events, cache>>

\* The place of a profile in the list of all.
Place(p) == Cardinality({q \in Existing : q =< p})

Page(offset) == {p \in Existing : offset < Place(p) /\ Place(p) =< offset + BatchSize}

\* loadTelemetryProfilesFromInv: one call to List.
ListPage ==
    /\ loop.pc = "list"
    /\ LET found == [p \in Profiles |->
                        IF p \in Page(loop.offset) THEN Read(p) ELSE loop.found[p]]
       IN  \/ /\ Cardinality(Existing) > loop.offset + BatchSize
              /\ loop' = [pc |-> "list", offset |-> loop.offset + BatchSize,
                          found |-> found]
           \/ /\ Cardinality(Existing) =< loop.offset + BatchSize
              /\ loop' = [pc |-> "install", found |-> found]
    /\ UNCHANGED <<inventory, events, cache>>

\* An error of List ends the load with what was found before.
ListFails ==
    /\ "list" \in Failing /\ loop.pc = "list"
    /\ loop' = [pc |-> "install", found |-> loop.found]
    /\ UNCHANGED <<inventory, events, cache>>

\* Defect: the reverse maps of the last load are kept.
InstallProfilesOnly ==
    /\ loop.pc = "install"
    /\ ProfileIDMap' = loop.found
    /\ UNCHANGED <<groupsIDToProfileID, relationIDToProfilesID>>
    /\ loop' = Idle
    /\ UNCHANGED <<inventory, events>>

\* LoadAllTelemetryProfiles replaces the three maps.
Install ==
    /\ loop.pc = "install"
    /\ ProfileIDMap' = loop.found
    /\ groupsIDToProfileID' = [g \in Groups |-> [p \in Profiles |->
          IF loop.found[p].group = g THEN 1 ELSE 0]]
    /\ relationIDToProfilesID' = [r \in Relations |-> [p \in Profiles |->
          IF loop.found[p].relation = r THEN 1 ELSE 0]]
    /\ loop' = Idle
    /\ UNCHANGED <<inventory, events>>

\* The process dies when the stream ends.  A new one subscribes, then loads.
Restart ==
    /\ Restarts
    /\ events' = <<>>
    /\ loop' = Load
    /\ ProfileIDMap' = [p \in Profiles |-> Nil]
    /\ groupsIDToProfileID' = [g \in Groups |-> [p \in Profiles |-> 0]]
    /\ relationIDToProfilesID' = [r \in Relations |-> [p \in Profiles |-> 0]]
    /\ UNCHANGED inventory

-----------------------------------------------------------------------------
Init ==
    /\ created = {}
    /\ stored = [p \in Profiles |-> Absent]
    /\ groupVersion = [g \in Groups |-> 0]
    /\ events = <<>>
    /\ loop = Load
    /\ ProfileIDMap = [p \in Profiles |-> Nil]
    /\ groupsIDToProfileID = [g \in Groups |-> [p \in Profiles |-> 0]]
    /\ relationIDToProfilesID = [r \in Relations |-> [p \in Profiles |-> 0]]

Change ==
    \/ \E p \in Profiles, r \in Relations, g \in Groups :
          CreateProfile(p, r, g) \/ UpdateProfile(p, r, g)
    \/ \E p \in Profiles : DeleteProfile(p)
    \/ \E g \in Groups : UpdateGroup(g)

Loop == HandleDeleted \/ GetResource \/ Apply \/ ListPage \/ ListFails \/ Install

Next == Change \/ Loop \/ Tick \/ Restart

Spec == Init /\ [][Next]_vars

\* The goroutine is scheduled, and its ticker goes off again and again.  A
\* tick is not kept away by events for ever: select picks at random.
FairSpec == Spec /\ WF_vars(Loop) /\ SF_vars(Tick)

-----------------------------------------------------------------------------
(* Properties *)

Profile == [relation : Relations, group : Groups, version : Nat]

StreamEvent == [kind : {"CREATED", "UPDATED", "DELETED"}, key : Profiles]
               \cup [kind : {"UPDATED"}, key : Groups]

\* Type correctness: the maps, the stream and the state of the goroutine.
TypeOK ==
    /\ created \subseteq Profiles
    /\ stored \in [Profiles -> [relation : Relations, group : Groups] \cup {Absent}]
    /\ groupVersion \in [Groups -> Nat]
    /\ events \in Seq(StreamEvent)
    /\ ProfileIDMap \in [Profiles -> Profile \cup {Nil}]
    /\ groupsIDToProfileID \in [Groups -> [Profiles -> Nat]]
    /\ relationIDToProfilesID \in [Relations -> [Profiles -> Nat]]
    /\ loop.pc \in {"idle", "apply", "list", "install"}
    /\ loop.pc = "apply" =>
          \/ /\ loop.event.key \in Groups /\ loop.event.kind = "UPDATED"
             /\ loop.res.version \in Nat
          \/ /\ loop.event.key \in Profiles /\ loop.event.kind \in {"CREATED", "UPDATED"}
             /\ loop.res \in Profile
    /\ loop.pc = "list" => loop.offset \in Nat
    /\ loop.pc \in {"list", "install"} =>
          loop.found \in [Profiles -> Profile \cup {Nil}]

\* A cached profile is found by its relation and by its group: what a host
\* asks for, and what the change of a group reaches, misses no cached profile,
\* however loads, lost calls and events that say the same twice are mixed.
CachedIsListed ==
    \A p \in Profiles : ProfileIDMap[p] # Nil =>
        /\ p \in Listed(ProfileIDMap[p].relation)
        /\ groupsIDToProfileID[ProfileIDMap[p].group][p] > 0

Announced(p) == \E k \in DOMAIN events : events[k] = Event("DELETED", p)

\* A deleted profile stays in the cache only until the event that tells so is
\* handled: no load that began earlier and no late answer brings it back.
GhostsAreAnnounced ==
    \A p \in Profiles : ProfileIDMap[p] # Nil /\ stored[p] = Absent => Announced(p)

\* No group lists the profile but the one that it has.
OwnGroupOnly(p) ==
    \A g \in Groups \ {stored[p].group} : groupsIDToProfileID[g][p] = 0

\* When all events are handled and no call has failed, the cache holds the
\* profiles of Inventory, with their relation.  A profile shows the latest
\* state of its group unless a former group lists it still.
QuietCacheIsCurrent ==
    loop.pc = "idle" /\ events = <<>> =>
        \A p \in Profiles :
            /\ ProfileIDMap[p].relation = Read(p).relation
            /\ OwnGroupOnly(p) => ProfileIDMap[p] = Read(p)

\* The cache is what Inventory holds, and its maps list exactly that.
Exact ==
    /\ ProfileIDMap = [p \in Profiles |-> Read(p)]
    /\ \A r \in Relations, p \in Profiles :
          relationIDToProfilesID[r][p] = IF stored[p].relation = r THEN 1 ELSE 0
    /\ \A g \in Groups, p \in Profiles :
          groupsIDToProfileID[g][p] = IF stored[p].group = g THEN 1 ELSE 0

\* Inventory is left alone, lists its profiles, and the manager goes on.
Undisturbed == UNCHANGED inventory /\ ~ListFails /\ ~Restart

\* When Inventory is left alone, the cache becomes exact and stays so,
\* whatever was lost, missed between two pages or listed twice before.
CacheConverges == <>[][Undisturbed]_vars => <>[]Exact

\* "If DELETED event and the resource is a TelemetryProfile, we need to clean
\* up any state in the cache, by cleaning both the ProfileIDMap and all the
\* reverse maps."
DeletedIsForgotten ==
    [][\A p \in Profiles :
          loop.pc = "idle" /\ ProfileIDMap[p] # Nil /\ ProfileIDMap'[p] = Nil =>
              /\ \A g \in Groups : groupsIDToProfileID'[g][p] = 0
              /\ \A r \in Relations : relationIDToProfilesID'[r][p] = 0]_vars
=============================================================================
