--------------------------- MODULE ConfigDocument ---------------------------
(* A Config layer document and its resolution: config/runtime.rs,           *)
(* ConfigDocument, resolve_documents and validate_effective.                *)
(*                                                                          *)
(* A document is its flattened form (ConfigDocument::flatten): a function   *)
(* from the schema paths that are present to their values.  A path of an    *)
(* addressable object is <<kind, id, field>>, any other <<section, field>>. *)
(* An object is present when it has a field, which is what prune_empty      *)
(* keeps true of edited documents.  Of the schema the model keeps every     *)
(* path that another path or layer can make valid or invalid; a field whose *)
(* value only has to be well formed (parse_config_value, validate_value) is *)
(* left out, and so are a profile's routes, dialects and loopback opt-in.   *)
EXTENDS Naturals, Sequences, FiniteSets

CONSTANTS
    Profile,        \* ids of Provider Profiles
    Preset,         \* ids of Model Presets
    Schedule,       \* ids of Price Schedules
    Window,         \* ids of Usage Windows
    MaxCandidates   \* MAX_MODEL_PRESET_FALLBACK_CANDIDATES

ASSUME CandidatesAssumption == MaxCandidates \in Nat \ {0} /\ IsFiniteSet(Preset)

SelectedProfile == <<"provider", "profile">>
DefaultPreset == <<"agent", "default_model_preset">>
PrimaryWindow == <<"ui", "primary_usage_window">>

ProfileField == {"template", "base_url", "credential", "pricing"}
(* "identity" is the pair model and dialect: a preset needs both. *)
PresetField == {"provider", "identity", "max_output_tokens", "fallback"}
(* "terms" are the required fields of a schedule other than its provider,   *)
(* "rule" is a window's start, end, days and time zone.                     *)
ScheduleField == {"provider", "terms"}
WindowField == {"rule"}

Object == ({"providers"} \X Profile) \cup ({"model_presets"} \X Preset)
            \cup ({"price_schedules"} \X Schedule) \cup ({"windows"} \X Window)

Path == {SelectedProfile, DefaultPreset, PrimaryWindow}
          \cup ({"providers"} \X Profile \X ProfileField)
          \cup ({"model_presets"} \X Preset \X PresetField)
          \cup ({"price_schedules"} \X Schedule \X ScheduleField)
          \cup ({"windows"} \X Window \X WindowField)

Empty == [path \in {} |-> TRUE]

(* The paths of one object, and the objects of a kind a document defines.   *)
PathsOf(object) == {path \in Path : Len(path) = 3 /\ <<path[1], path[2]>> = object}

Ids(document, kind) == {path[2] : path \in {x \in DOMAIN document : x[1] = kind}}

contains_object(document, object) == object[2] \in Ids(document, object[1])

Keep(document, paths) == [path \in DOMAIN document \cap paths |-> document[path]]

(* A document over another: each path on its own, the overlay's value first. *)
merge_from(base, overlay) ==
    [path \in DOMAIN base \cup DOMAIN overlay |->
        IF path \in DOMAIN overlay THEN overlay[path] ELSE base[path]]

(* The three edits of a draft.  reset and delete_object need the paths only; *)
(* an object left without fields is gone (prune_empty).                      *)
set(document, path, value) == merge_from(document, [x \in {path} |-> value])

reset(document, path) == Keep(document, Path \ {path})

delete_object(document, object) == Keep(document, Path \ PathsOf(object))

(* built_in, then user, then project, then the command line: each field of  *)
(* each object on its own, the later layer winning.  The product opens its  *)
(* Config Runtime with an empty command-line document.                      *)
built_in == [path \in {SelectedProfile} |-> "simulator"]

Effective(user, project) == merge_from(merge_from(built_in, user), project)

(* Whether a field is present, and whether it has a given value. *)
Has(document, path) == path \in DOMAIN document

Is(document, path, value) == Has(document, path) /\ document[path] = value

(* A profile's pricing decision.  A template is "carded" when the release   *)
(* bundles price schedules for it.  Unset, it is the mirror or nothing for  *)
(* a custom origin and the template's own for the others.                   *)
resolve_provider_pricing_source(document, p) ==
    LET field(f) == <<"providers", p, f>>
        custom == Has(document, field("base_url"))
        carded == Is(document, field("template"), "carded")
    IN  IF Has(document, field("pricing"))
        THEN CASE document[field("pricing")] = "template" /\ custom /\ carded -> "template_mirror"
               [] document[field("pricing")] \in {"template", "template_mirror"}
                    /\ custom /\ ~carded -> "invalid"
               [] document[field("pricing")] = "template_mirror" /\ ~custom -> "invalid"
               [] OTHER -> document[field("pricing")]
        ELSE IF custom THEN (IF carded THEN "template_mirror" ELSE "none") ELSE "template"

ProfileIsValid(document, p) ==
    LET field(f) == <<"providers", p, f>>
    IN  /\ Has(document, field("template"))
        /\ Has(document, field("base_url")) =>
              /\ Has(document, field("credential"))
              /\ Has(document, field("pricing")) \/ Is(document, field("template"), "carded")
        /\ resolve_provider_pricing_source(document, p) # "invalid"

ScheduleIsValid(document, s) ==
    LET field(f) == <<"price_schedules", s, f>>
    IN  /\ Has(document, field("provider"))
        /\ Has(document, field("terms"))
        /\ document[field("provider")] \in Ids(document, "providers")
        /\ resolve_provider_pricing_source(document, document[field("provider")]) = "manual"

(* The fallback list of a preset; an absent one is the empty list. *)
Fallback(document, m) ==
    LET path == <<"model_presets", m, "fallback">>
    IN  IF Has(document, path) THEN document[path] ELSE <<>>

FallbackSet(document, m) == {Fallback(document, m)[i] : i \in DOMAIN Fallback(document, m)}

(* Its paths are of the schema, and a fallback is a list of ids, of presets *)
(* that may be defined or not.                                              *)
IsDocument(document) ==
    DOMAIN document \subseteq Path /\ \A m \in Preset : Fallback(document, m) \in Seq(Preset)

(* What a preset demands its fallback demands too: here the token limit. *)
preserves_fallback_capability_contract(document, required, candidate) ==
    LET limit(m) == <<"model_presets", m, "max_output_tokens">>
    IN  Has(document, limit(required)) =>
            /\ Has(document, limit(candidate))
            /\ document[limit(candidate)] >= document[limit(required)]

PresetIsValid(document, m) ==
    LET field(f) == <<"model_presets", m, f>>
    IN  /\ Has(document, field("provider"))
        /\ document[field("provider")] \in Ids(document, "providers") \cup {"simulator"}
        /\ Has(document, field("identity"))
        /\ \A candidate \in FallbackSet(document, m) :
              /\ candidate # m
              /\ candidate \in Ids(document, "model_presets")
              /\ preserves_fallback_capability_contract(document, m, candidate)

(* The presets a preset can fall back to, itself included: the least set    *)
(* with it that is closed under fallback.                                   *)
Candidates(document, m) ==
    {n \in Preset : \A S \in SUBSET Preset :
        (m \in S /\ \A k \in S : FallbackSet(document, k) \subseteq S) => n \in S}

(* The depth-first search of the code finds a cycle exactly when some       *)
(* nonempty set of presets has a fallback inside it from each member.       *)
validate_fallback_cycles(document) ==
    /\ \A S \in SUBSET Ids(document, "model_presets") :
          S # {} => \E m \in S : FallbackSet(document, m) \cap S = {}
    /\ \A m \in Ids(document, "model_presets") :
          Cardinality(Candidates(document, m)) <= MaxCandidates

validate_effective(document) ==
    /\ document[SelectedProfile] \in Ids(document, "providers") \cup {"simulator"}
    /\ \A p \in Ids(document, "providers") : ProfileIsValid(document, p)
    /\ \A s \in Ids(document, "price_schedules") : ScheduleIsValid(document, s)
    /\ \A m \in Ids(document, "model_presets") : PresetIsValid(document, m)
    /\ Has(document, DefaultPreset) =>
          document[DefaultPreset] \in Ids(document, "model_presets")
    /\ validate_fallback_cycles(document)
    /\ Has(document, PrimaryWindow) =>
          document[PrimaryWindow] \in Ids(document, "windows")

resolve_documents(user, project) == validate_effective(Effective(user, project))

=============================================================================
