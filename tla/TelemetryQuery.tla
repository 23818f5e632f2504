--------------------------- MODULE TelemetryQuery ---------------------------
(***************************************************************************)
(* The query of a telemetry agent (GetTelemetryConfigByGUID), composed     *)
(* with the cache that it reads.                                           *)
(*                                                                         *)
(* A handler asks Inventory for the host with its instance, and for the    *)
(* regions and the site above the host.  It then looks each of them and    *)
(* the instance up in the cache, each under the lock but not all under     *)
(* one, and combines the profiles that it got.                             *)
(*                                                                         *)
(* What it got are pointers to the cached profiles.  A change of a group   *)
(* is stored into these objects, while the handler reads them without the  *)
(* lock: it finds the former group or the new one.  A profile that is      *)
(* loaded again is a new object, and the handler keeps the old one.        *)
(***************************************************************************)
EXTENDS TelemetryCache

CONSTANTS
    Path,      \* regions from the root, site and instance of the host
    Kind,      \* of each group: logs or metrics, and what collects them
    Inputs,    \* of each version of a group: the names of what is collected
    Setting    \* of each profile: its interval or its severity level

ASSUME TelemetryQueryAssumption ==
    /\ Path \in Seq(Relations) \ {<<>>}
    /\ Kind \in [Groups -> {"LOGS", "METRICS"} \X {"HOST", "CLUSTER"}]
    /\ DOMAIN Inputs = Groups
    /\ \A g \in Groups : DOMAIN Inputs[g] = 0 .. MaxVersion
    /\ Setting \in [Profiles -> Nat]

VARIABLES
    query,    \* the handler
    config    \* the configuration that the agent has

system == <<vars, query, config>>

-----------------------------------------------------------------------------
(* Rendering *)

\* Defect: the least verbose level of a log is kept.
LowestSetting(kind, settings) == Min(settings)

\* The highest severity number of a log, the shortest interval of a metric.
Combined(kind, settings) ==
    IF kind[1] = "LOGS" THEN Max(settings) ELSE Min(settings)

\* Defect: what is collected twice is configured twice.
KeepDuplicates(resources) == resources

\* Deduplicate: one of all the resources of an input and a kind.
Deduplicate(resources) ==
    {[r EXCEPT !.setting = Combined(r.kind,
          {s.setting : s \in {t \in resources : t.input = r.input /\ t.kind = r.kind}})] :
        r \in resources}

\* convertProfileToConfig
Config(found) ==
    Deduplicate(UNION
        {{[input |-> i, kind |-> Kind[f.group], setting |-> Setting[f.profile]] :
            i \in Inputs[f.group][f.version]} : f \in found})

-----------------------------------------------------------------------------
(* The handler *)

\* Defect: the profiles of the instance are left out.
WithoutInstance(p) == Front(p)

\* ListTelemetryProfilesByHostAndInstanceID: what is above the host, the instance.
Looked(p) == p

\* The agent asks: GetHostByUUID and getHostHierarchy, where the second result
\* counts.  What is steady from here on shall be in the answer.  When a call
\* fails the agent keeps the configuration it has.
GetHierarchy ==
    /\ query = Idle
    /\ query' = [pc |-> "lookup", todo |-> Looked(Path), found |-> {},
                 steady |-> {p \in Profiles : ProfileIDMap[p].relation \in ToSet(Path)}]
    /\ UNCHANGED <<vars, config>>

\* A profile that is in the map as long as it is "cached".
Pointer(p, res) ==
    [profile |-> p, group |-> res.group, version |-> res.version, cached |-> TRUE]

\* ListTelemetryProfileByRelation, for the next of them.
Lookup ==
    /\ query.pc = "lookup" /\ query.todo # <<>>
    /\ query' = [query EXCEPT !.todo = Tail(@), !.found = @ \cup
          {Pointer(p, ProfileIDMap[p]) : p \in Listed(Head(query.todo))}]
    /\ UNCHANGED <<vars, config>>

Respond ==
    /\ query.pc = "lookup" /\ query.todo = <<>>
    /\ config' = Config(query.found)
    /\ query' = Idle
    /\ UNCHANGED vars

Handle == GetHierarchy \/ Lookup \/ Respond

-----------------------------------------------------------------------------
(* The cache moves while the handler is at work *)

\* The goroutine has put another object in the place of the profile.
Replaced(p) ==
    \/ loop.pc = "install" /\ loop' = Idle
    \/ loop.pc = "apply" /\ loop' = Idle /\ loop.event.key = p
    \/ ProfileIDMap'[p] = Nil

\* The goroutine has stored another group into the object.
Regrouped(f) ==
    /\ f.cached
    /\ ~Replaced(f.profile)
    /\ Pointer(f.profile, ProfileIDMap'[f.profile]) # f

\* The handler may read a racing store or miss it.
Follow ==
    /\ query.pc = "lookup"
    /\ \E missed \in SUBSET {f \in query.found : Regrouped(f)} :
          query' = [query EXCEPT
              !.found = {IF Regrouped(f) /\ f \notin missed
                         THEN Pointer(f.profile, ProfileIDMap'[f.profile])
                         ELSE [f EXCEPT !.cached = @ /\ ~Replaced(f.profile)] : f \in @},
              !.steady = {p \in @ : ProfileIDMap'[p] = ProfileIDMap[p]}]

Beside(action) ==
    /\ action
    /\ IF query.pc = "lookup" THEN Follow ELSE UNCHANGED query
    /\ UNCHANGED config

\* The query ends with the process.
RestartAll ==
    /\ Restart
    /\ query' = Idle
    /\ UNCHANGED config

SystemInit ==
    /\ Init
    /\ query = Idle
    /\ config = {}

SystemNext ==
    \/ Handle
    \/ Beside(Change)
    \/ Beside(Loop)
    \/ Beside(Tick)
    \/ RestartAll

SystemSpec == SystemInit /\ [][SystemNext]_system

\* As for the cache alone; a handler runs, and the agent asks again and again.
SystemFairSpec ==
    /\ SystemSpec
    /\ WF_system(Beside(Loop))
    /\ SF_system(Beside(Tick))
    /\ WF_system(Handle)

-----------------------------------------------------------------------------
(* Properties *)

\* A configuration obeys a profile: all that its group collects is collected,
\* at least as verbosely or as often as the profile asks.
Obeys(c, p) ==
    \A i \in Inputs[ProfileIDMap[p].group][ProfileIDMap[p].version] :
        \E entry \in c :
            /\ entry.input = i
            /\ entry.kind = Kind[ProfileIDMap[p].group]
            /\ IF entry.kind[1] = "LOGS" THEN entry.setting >= Setting[p]
                                         ELSE entry.setting =< Setting[p]

\* "The union of all the groups is used, the lowest interval, the most
\* verbose level": a profile that is cached under a part of the path from the
\* beginning to the end of the query is obeyed by the answer, however the
\* cache is loaded, moved and changed between the lookups.
SteadyIsConfigured ==
    [][Respond => \A p \in query.steady : Obeys(config', p)]_system

\* An agent never gets two settings for one thing that it collects, although a
\* profile can be listed under two relations and seen with two of its groups.
OneSettingPerInput ==
    \A c, d \in config : c.input = d.input /\ c.kind = d.kind => c = d

\* What the profiles in Inventory ask of the host.
Wanted ==
    Config({Pointer(p, Read(p)) : p \in {q \in Existing : stored[q].relation \in ToSet(Path)}})

LeftAlone == Undisturbed /\ ~RestartAll

\* When Inventory is left alone, the agent gets the configuration that the
\* profiles in Inventory ask for, and keeps it.
AnswersConverge == <>[][LeftAlone]_system => <>[](config = Wanted)
=============================================================================
