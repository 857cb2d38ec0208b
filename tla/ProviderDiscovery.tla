-------------------------- MODULE ProviderDiscovery --------------------------
(***************************************************************************)
(* Provider discovery (greentyper provider_connection.rs,                   *)
(* provider_discovery_task.rs, provider_discovery_catalog.rs and            *)
(* greentyper-core provider_discovery.rs): a process asks a Profile's       *)
(* models endpoint what it serves, in a worker of its own, keeps the answer *)
(* in a file all processes share, shows the models it names, and makes a    *)
(* model Preset of one.  The Config, the file and the endpoint may each     *)
(* change between any two of these steps.                                   *)
(***************************************************************************)
EXTENDS Integers, Sequences, FiniteSets

CONSTANTS
    Users,              \* processes
    Profiles,           \* provider profile identifiers
    Settings,           \* bound: [template, endpoint, dialects, mode] a Profile may have
    Models,             \* model identifiers
    Released,           \* template -> the models of the release catalog
    PrimaryDialect,     \* the dialect of a release model
    Answers,            \* bound: the lists of identifiers an endpoint may send
    MaxModels,          \* MAX_OBSERVED_MODELS
    MaxProfiles,        \* MAX_DISCOVERY_PROFILES
    MaxRevision,        \* bound: Config commits
    MaxClock            \* bound: milliseconds, one for every question asked

ASSUME DiscoveryAssumption ==
    /\ {MaxModels, MaxProfiles, MaxRevision, MaxClock} \subseteq Nat
    /\ \A s \in Settings : s.mode \in {"template", "discovery", "both"}
    /\ "none" \notin Users    \* the lock's value while nobody holds it

VARIABLES
    config,     \* the Config file: revision, selected, profiles, presets
    loaded,     \* the Config each process runs with
    observed,   \* the discovery file: profile -> observation
    lock,       \* who holds the discovery lock
    job,        \* each process's OnDemandProviderDiscoveryTask, or command
    replacing,  \* an observation on its way into the file, with what was read
    shown,      \* the discovery state each process last built a view of
    acceptance, \* DiscoveredModelAcceptance
    draft,      \* the Config draft of an accepted model
    clock,
    listed,     \* ghost: <<profile, fingerprint, model>> an endpoint answered
    kept,       \* ghost: what the discovery file should hold
    accepted    \* ghost: <<profile, fingerprint, model>> committed as a Preset

discovery_vars == <<config, loaded, observed, lock, job, replacing, shown,
                    acceptance, draft, clock, listed, kept, accepted>>

Absent == "none"
Nothing == [x \in {} |-> 0]

-----------------------------------------------------------------------------
(* A Profile as a Config resolves it.                                       *)

includes_discovery(mode) == mode \in {"discovery", "both"}
includes_release_seed(mode) == mode \in {"template", "both"}

\* All of the snapshot; the catalog mode is not part of it.
fingerprint(s) == <<s.template, s.endpoint, s.dialects>>

identity(x, s) == [profile |-> x, template |-> s.template, fingerprint |-> fingerprint(s)]

\* eligible_terminal_discovery_profile.
eligible(c) ==
    /\ c.selected \in Profiles
    /\ includes_discovery(c.profiles[c.selected].mode)
    /\ c.profiles[c.selected].endpoint # Absent

-----------------------------------------------------------------------------
(* provider_discovery_catalog.                                              *)

discovery_freshness(c, state, x) ==
    IF ~includes_discovery(c.profiles[x].mode) THEN "Disabled"
    ELSE IF x \notin DOMAIN state THEN "Missing"
    ELSE IF state[x].identity = identity(x, c.profiles[x]) THEN "Current"
    ELSE "Stale"

Discovered(c, state, x, m) ==
    /\ includes_discovery(c.profiles[x].mode)
    /\ x \in DOMAIN state /\ m \in state[x].models
IsReleased(c, x, m) ==
    /\ includes_release_seed(c.profiles[x].mode)
    /\ m \in Released[c.profiles[x].template]

availability(c, state, x, m) ==
    IF ~Discovered(c, state, x, m) THEN "Unverified"
    ELSE CASE discovery_freshness(c, state, x) = "Current" -> "Available"
           [] discovery_freshness(c, state, x) = "Stale" -> "Stale"

suggestion(c, state, x, m) ==
    IF <<x, m>> \in c.presets THEN "None"
    ELSE IF IsReleased(c, x, m) /\ PrimaryDialect \in c.profiles[x].dialects THEN "AcceptReleaseStarter"
    ELSE IF ~Discovered(c, state, x, m) THEN "Incompatible"
    ELSE IF discovery_freshness(c, state, x) = "Current" THEN "AcceptDiscoveredWithDialect"
    ELSE "RefreshRequired"

-----------------------------------------------------------------------------
(* Asking a Profile's endpoint.                                             *)

Idle(p) == job[p] = Nothing /\ replacing[p] = Nothing

\* A command starts, or a terminal refreshes: the Config and the discovery
\* state are read.
Open(p) ==
    /\ Idle(p)
    /\ loaded' = [loaded EXCEPT ![p] = config]
    /\ shown' = [shown EXCEPT ![p] = observed]
    /\ UNCHANGED <<config, observed, lock, job, replacing, acceptance, draft, clock, listed, kept, accepted>>

\* Time passes while the endpoint is asked.
Start(p, x, by) ==
    /\ Idle(p) /\ clock < MaxClock /\ clock' = clock + 1
    /\ job' = [job EXCEPT ![p] = [by |-> by, identity |-> identity(x, loaded[p].profiles[x]),
                                  endpoint |-> loaded[p].profiles[x].endpoint, answer |-> {Absent}]]
    /\ UNCHANGED <<config, loaded, observed, lock, replacing, shown, acceptance, draft, listed, kept, accepted>>

\* The terminal asks about the Profile it runs with, if that has a route.
request(p) == eligible(loaded[p]) /\ Start(p, loaded[p].selected, "terminal")

\* `provider discovery refresh`.
refresh_provider_discovery(p, x) ==
    includes_discovery(loaded[p].profiles[x].mode) /\ Start(p, x, "command")

\* A list with an unusable identifier, one identifier twice or too many of
\* them is refused whole.
parse_models(answer) ==
    IF /\ Len(answer) <= MaxModels
       /\ \A i \in DOMAIN answer : answer[i] \in Models
       /\ \A i, j \in DOMAIN answer : answer[i] = answer[j] => i = j
    THEN {answer[i] : i \in DOMAIN answer} ELSE {Absent}

\* The endpoint answers with the models it serves; every other outcome, an
\* unusable credential or answer or no route, is a failure and saves nothing.
test(p, answer) ==
    LET models == parse_models(answer) IN
    /\ job[p] # Nothing /\ job[p].answer = {Absent}
    /\ \/ /\ job[p].endpoint # Absent /\ models # {Absent}
          /\ job' = [job EXCEPT ![p].answer = models]
          /\ listed' = listed \cup
                {<<job[p].identity.profile, job[p].identity.fingerprint, m>> : m \in models}
       \/ /\ job' = [job EXCEPT ![p] = Nothing]
          /\ UNCHANGED listed
    /\ UNCHANGED <<config, loaded, observed, lock, replacing, shown, acceptance, draft, clock, kept, accepted>>

\* A second process finds the lock taken and gives up.
lock_state(p) == lock = Absent

\* What a terminal does first with a result: the Config may have moved on.
StillAsked(p) ==
    /\ eligible(config)
    /\ identity(config.selected, config.profiles[config.selected]) = job[p].identity

\* commit_provider_discovery_status, up to the read under the lock.
Completed(p) ==
    /\ job[p] # Nothing /\ job[p].answer # {Absent}
    /\ job' = [job EXCEPT ![p] = Nothing]
    /\ IF (job[p].by = "terminal" => StillAsked(p)) /\ lock_state(p)
       THEN /\ lock' = p
            /\ replacing' = [replacing EXCEPT ![p] =
                    [observation |-> [identity |-> job[p].identity, at |-> clock, models |-> job[p].answer],
                     read |-> observed]]
       ELSE UNCHANGED <<lock, replacing>>
    /\ UNCHANGED <<config, loaded, observed, shown, acceptance, draft, clock, listed, kept, accepted>>

With(state, o) ==
    [x \in DOMAIN state \cup {o.identity.profile} |->
        IF x = o.identity.profile THEN o ELSE state[x]]

\* replace_profile: the atomic write, or a refusal; the lock goes with it.
replace_profile(p) ==
    /\ replacing[p] # Nothing
    /\ LET state == With(replacing[p].read, replacing[p].observation)
       IN  \/ /\ Cardinality(DOMAIN state) <= MaxProfiles
              /\ observed' = state
              /\ kept' = With(kept, replacing[p].observation)
              /\ shown' = [shown EXCEPT ![p] = state]
           \/ UNCHANGED <<observed, kept, shown>>
    /\ replacing' = [replacing EXCEPT ![p] = Nothing]
    /\ lock' = IF lock = p THEN Absent ELSE lock
    /\ UNCHANGED <<config, loaded, job, acceptance, draft, clock, listed, accepted>>

-----------------------------------------------------------------------------
(* Accepting a model.                                                       *)

validate_Unbound(p, a) ==
    /\ includes_discovery(loaded[p].profiles[a.identity.profile].mode)
    /\ a.identity.profile \in DOMAIN observed
    /\ a.model \in observed[a.identity.profile].models
\* validate_terminal_discovery_acceptance: against the Config the terminal
\* runs with and the file as it is now.
validate(p, a) ==
    LET x == a.identity.profile IN
    /\ identity(x, loaded[p].profiles[x]) = a.identity
    /\ includes_discovery(loaded[p].profiles[x].mode)
    /\ x \in DOMAIN observed
    /\ observed[x].identity = a.identity /\ observed[x].at = a.at
    /\ a.model \in observed[x].models

BeginDiscoveryAcceptance(p, x, m) ==
    /\ Idle(p) /\ acceptance[p] = Nothing /\ draft[p] = Nothing
    /\ suggestion(loaded[p], shown[p], x, m) = "AcceptDiscoveredWithDialect"
    /\ LET a == [identity |-> shown[p][x].identity, at |-> shown[p][x].at, model |-> m]
       IN  validate(p, a) /\ acceptance' = [acceptance EXCEPT ![p] = a]
    /\ UNCHANGED <<config, loaded, observed, lock, job, replacing, shown, draft, clock, listed, kept, accepted>>

\* begin_model_preset; the draft stands on the Config that is loaded.
Stage(p, x, m) ==
    draft' = [draft EXCEPT ![p] = [base |-> loaded[p].revision, profile |-> x, model |-> m]]

\* A dialect was chosen and the Preset named.
ConfirmDiscoveryAcceptance(p) ==
    /\ Idle(p) /\ acceptance[p] # Nothing
    /\ LET x == acceptance[p].identity.profile
           m == acceptance[p].model
       IN  IF validate(p, acceptance[p]) /\ <<x, m>> \notin loaded[p].presets
           THEN Stage(p, x, m) ELSE UNCHANGED draft
    /\ acceptance' = [acceptance EXCEPT ![p] = Nothing]
    /\ UNCHANGED <<config, loaded, observed, lock, job, replacing, shown, clock, listed, kept, accepted>>

\* The command's form of it, which reads the file once.
begin_discovered_model_preset(p, x, m) ==
    /\ Idle(p) /\ acceptance[p] = Nothing /\ draft[p] = Nothing
    /\ discovery_freshness(loaded[p], observed, x) = "Current"
    /\ m \in observed[x].models /\ <<x, m>> \notin loaded[p].presets
    /\ Stage(p, x, m)
    /\ UNCHANGED <<config, loaded, observed, lock, job, replacing, shown, acceptance, clock, listed, kept, accepted>>

\* The draft is committed over the revision it began from or refused.
Commit(p) ==
    /\ draft[p] # Nothing /\ config.revision < MaxRevision
    /\ IF draft[p].base = config.revision
       THEN LET x == draft[p].profile IN
            /\ config' = [config EXCEPT !.revision = @ + 1, !.presets = @ \cup {<<x, draft[p].model>>}]
            /\ loaded' = [loaded EXCEPT ![p] = config']
            /\ accepted' = accepted \cup
                    {<<x, fingerprint(config.profiles[x]), draft[p].model>>}
       ELSE UNCHANGED <<config, loaded, accepted>>
    /\ draft' = [draft EXCEPT ![p] = Nothing]
    /\ UNCHANGED <<observed, lock, job, replacing, shown, acceptance, clock, listed, kept>>

\* Somebody edits a Profile or selects another.
EditConfig(x, s) ==
    /\ config.revision < MaxRevision
    /\ config' \in {[config EXCEPT !.revision = @ + 1, !.profiles[x] = s],
                    [config EXCEPT !.revision = @ + 1, !.selected = x]} \ {config}
    /\ UNCHANGED <<loaded, observed, lock, job, replacing, shown, acceptance, draft, clock, listed, kept, accepted>>

\* A process ends anywhere; the system drops its lock.
ProcessEnds(p) ==
    /\ job[p] # Nothing \/ replacing[p] # Nothing \/ acceptance[p] # Nothing \/ draft[p] # Nothing
    /\ job' = [job EXCEPT ![p] = Nothing]
    /\ replacing' = [replacing EXCEPT ![p] = Nothing]
    /\ acceptance' = [acceptance EXCEPT ![p] = Nothing]
    /\ draft' = [draft EXCEPT ![p] = Nothing]
    /\ lock' = IF lock = p THEN Absent ELSE lock
    /\ UNCHANGED <<config, loaded, observed, shown, clock, listed, kept, accepted>>

DiscoveryInit ==
    /\ \E s \in Settings, x \in Profiles :
        config = [revision |-> 0, selected |-> x, profiles |-> [y \in Profiles |-> s], presets |-> {}]
    /\ loaded = [p \in Users |-> config]
    /\ observed = Nothing /\ kept = Nothing /\ lock = Absent
    /\ job = [p \in Users |-> Nothing] /\ replacing = job /\ acceptance = job /\ draft = job
    /\ shown = [p \in Users |-> Nothing]
    /\ clock = 0 /\ listed = {} /\ accepted = {}

DiscoveryNext ==
    \/ \E p \in Users :
        \/ Open(p) \/ request(p) \/ Completed(p) \/ replace_profile(p)
        \/ ConfirmDiscoveryAcceptance(p) \/ Commit(p) \/ ProcessEnds(p)
        \/ \E answer \in Answers : test(p, answer)
        \/ \E x \in Profiles :
            \/ refresh_provider_discovery(p, x)
            \/ \E m \in Models :
                BeginDiscoveryAcceptance(p, x, m) \/ begin_discovered_model_preset(p, x, m)
    \/ \E x \in Profiles, s \in Settings : EditConfig(x, s)

-----------------------------------------------------------------------------
\* A model is shown as available, or became a Preset, only if the Profile as
\* it then was had answered that it serves it: no answer of an endpoint or a
\* template the Profile no longer has counts, however late it arrives.
DiscoveredWasListed ==
    /\ accepted \subseteq listed
    /\ \A p \in Users, x \in Profiles, m \in Models :
        availability(loaded[p], shown[p], x, m) = "Available" =>
            <<x, fingerprint(loaded[p].profiles[x]), m>> \in listed

\* Processes that save observations of different Profiles do not undo each
\* other's.
ObservationsSurvive == observed = kept

\* The availability shown is what an endpoint said, and stays recorded.
DiscoveryIsSound == DiscoveredWasListed /\ ObservationsSurvive
==============================================================================
