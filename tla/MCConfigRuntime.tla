-------------------------- MODULE MCConfigRuntime --------------------------
(* Two processes of one project: a user layer with a profile and a preset,  *)
(* a project layer with a second preset; drafts create and drop the second  *)
(* preset and make it a fallback of the first.                              *)
EXTENDS ConfigRuntime, TLC

CONSTANTS a, b, p1, m1, m2, user_file, project_file

MCProjectFile == [p \in {a, b} |-> project_file]
MCFileRank == (user_file :> 2) @@ (project_file :> 1)
Given(m) == (<<"model_presets", m, "provider">> :> p1)
              @@ (<<"model_presets", m, "identity">> :> "given")
FallbackOf(m) == <<"model_presets", m, "fallback">>
UserLayer == (<<"providers", p1, "template">> :> "carded") @@ Given(m1)
ProjectLayer == Given(m2)
Cyclic == UserLayer @@ ProjectLayer @@ (FallbackOf(m1) :> <<m2>>) @@ (FallbackOf(m2) :> <<m1>>)
MCHandDocument == {Cyclic}
MCInitialDocument == (user_file :> UserLayer) @@ (project_file :> ProjectLayer)
MCInitialBackup == (user_file :> Missing) @@ (project_file :> [document |-> Empty, bytes |-> "toml"])
MCEditablePath == {FallbackOf(m1)}
MCEditableObject == {<<"model_presets", m2>>}
MCValue == FallbackOf(m1) :> {<<m2>>}
ProcessSymmetry == Permutations({a, b})
=============================================================================
