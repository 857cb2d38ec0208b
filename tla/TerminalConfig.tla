--------------------------- MODULE TerminalConfig ---------------------------
(***************************************************************************)
(* The half of the interactive terminal that edits the user's configuration *)
(* (greentyper terminal.rs and presentation.rs, core config/editor.rs): the *)
(* slash panel's routes, the Config Center, the object prompt, the editor   *)
(* and the Provider wizard with their text, choice and credential fields,    *)
(* the credential actions, and the model and stats panels.  Files, locks    *)
(* and resolution are those of ConfigRuntime and ConfigDocument: here a     *)
(* commit is one step that compares revisions and replaces the document.    *)
(***************************************************************************)
EXTENDS Integers, Sequences, SequencesExt

CONSTANTS
    Ids,            \* the object ids that may be typed, in order
    Fields,         \* kind of object -> its fields, in the schema's order
    Interaction,    \* field -> "Choice", "Text", "Deferred" or "Credential"
    Required,       \* kind of object -> the fields it cannot do without
    ChoiceValues,   \* the choices of a choice field
    MaxDraft,       \* the input limit of a text
    Parsable,       \* the texts that parse as an integer or a list
    Catalog,        \* the model selector's rows that no preset stands for
    StatsEntries,   \* the number of rows of each group of the stats panel
    Nothing,        \* a model value: no editor, no text, no choice
    UserDocuments,  \* the documents other processes may write
    MaxRevision     \* bound: writes of the user layer

Kinds == {"provider", "preset"}

ASSUME TerminalConfigAssumption ==
    /\ DOMAIN Fields = Kinds /\ DOMAIN Required = Kinds
    /\ \A k \in Kinds : Fields[k] \in Seq(DOMAIN Interaction) /\ Fields[k] # <<>>
    /\ \A f \in DOMAIN Interaction : Interaction[f] \in {"Choice", "Text", "Deferred", "Credential"}
    /\ {MaxDraft, MaxRevision} \subseteq Nat /\ Len(ChoiceValues) > 0

VARIABLES
    file,       \* the user layer on disk
    loaded,     \* the layer the terminal's ConfigRuntime has
    shown,      \* the document the screen's model list was built from
    page,       \* PresentationState
    panel,      \* its section, row, detail and group
    prompt,     \* ActiveConfigObjectCreate
    editor,     \* ActiveConfigEditor, and what its last preview validated
    typed,      \* ConfigTextInput
    validChoice, \* validated_config_choice
    validText,  \* validated_config_text
    discarding, \* confirming_discard
    cred,       \* CredentialFlow
    dispatched, \* the command given to the credential vault in this flow
    applied,    \* the preset staged for the Agent's next Turn in this panel
    open        \* the loop has not ended

tconfig_vars == <<file, loaded, shown, page, panel, prompt, editor, typed, validChoice,
                  validText, discarding, cred, dispatched, applied, open>>

Unset == <<>>

-----------------------------------------------------------------------------
(* Documents and drafts.                                                    *)

Path(object, f) == <<object[1], object[2], f>>
Get(document, path) == IF path \in DOMAIN document THEN document[path] ELSE Unset
Without(document, paths) == [x \in DOMAIN document \ paths |-> document[x]]
PutValue(document, path, value) == (path :> value) @@ document
IdsOf(document, kind) == {x[2] : x \in {y \in DOMAIN document : y[1] = kind}}
contains_object(document, object) == object[2] \in IdsOf(document, object[1])

\* What validation asks: every object whole, and a preset's profile present.
ValidDocument(document) ==
    /\ \A k \in Kinds : \A i \in IdsOf(document, k) : \A f \in Required[k] :
          Path(<<k, i>>, f) \in DOMAIN document
    /\ IdsOf(document, "preset") # {} => IdsOf(document, "provider") # {}

\* ConfigRuntime::commit, dry or not, up to the write.
Committable(e) == file.revision = e.base /\ ValidDocument(e.document)

FieldIndex(e) ==
    CHOOSE i \in DOMAIN Fields[e.object[1]] : Fields[e.object[1]][i] = e.field
Here(e) == Path(e.object, e.field)

\* A session on an object: its first field, nothing previewed.
Session(object, operation, document, dirty) ==
    [object |-> object, operation |-> operation, base |-> loaded.revision,
     document |-> document, field |-> Fields[object[1]][1], dirty |-> dirty,
     connection |-> Nothing, previewed |-> Nothing]

NoPanel == [section |-> Nothing, pending |-> Nothing, selected |-> 0, detail |-> FALSE, group |-> 0]
Closed == /\ page' = "SlashPanel" /\ editor' = Nothing /\ prompt' = Nothing /\ panel' = NoPanel

EditorScreen(object) == IF object[1] = "provider" THEN "ProviderWizard" ELSE "ConfigEditor"

\* sync_config_text: the focused field's value, to be replaced by typing; a
\* credential reference is never shown.
Synced(e) ==
    IF e = Nothing \/ e.operation = "Delete" \/ Interaction[e.field] = "Choice" THEN Nothing
    ELSE [value |-> IF Interaction[e.field] = "Credential" THEN Unset ELSE Get(e.document, Here(e)),
          replace |-> TRUE, pending |-> FALSE]
SyncText == typed' = Synced(editor') /\ validText' = Nothing /\ discarding' = FALSE
ClearText == typed' = Nothing /\ validText' = Nothing /\ discarding' = FALSE

Opened(e) == /\ editor' = e /\ page' = EditorScreen(e.object) /\ prompt' = Nothing /\ panel' = NoPanel

Disk == UNCHANGED <<file, loaded, shown>>
Outside == UNCHANGED <<cred, dispatched, applied, open>>
SameTexts == UNCHANGED <<typed, validChoice, validText, discarding>>

-----------------------------------------------------------------------------
(* Contexts.                                                                *)

Unsaved == editor # Nothing /\ (editor.dirty \/ (typed # Nothing /\ typed.pending))

config_context ==
    CASE cred # Nothing -> cred.step
      [] cred = Nothing /\ discarding -> "DiscardConfirmation"
      [] cred = Nothing /\ ~discarding /\ editor # Nothing ->
            IF editor.operation = "Delete" THEN "ConfigDeleteConfirmation"
            ELSE Interaction[editor.field]
      [] cred = Nothing /\ ~discarding /\ page = "ConfigCenter" ->
            IF panel.pending # Nothing THEN "ConfigObject" ELSE "Other"
      [] OTHER -> page

-----------------------------------------------------------------------------
(* The slash panel and the Config Center.                                   *)

CanOpen(route, object) ==
    /\ contains_object(loaded.document, object)
    /\ route = "Edit" => file.revision = loaded.revision /\ ValidDocument(loaded.document)

\* activate, on the panel's choice of a route, with an object once one was
\* selected.  An editor opens on a previewed draft, a deletion is dirty.
OpenRoute(route, object, f) ==
    CASE route = "Edit" ->
            LET e == [Session(object, "Edit", loaded.document, FALSE)
                        EXCEPT !.field = f, !.previewed = loaded.document]
            IN  Opened(e)
      [] route = "Delete" ->
            /\ editor' = Session(object, "Delete",
                    Without(loaded.document, {Path(object, g) : g \in ToSet(Fields[object[1]])}), TRUE)
            /\ page' = "ConfigEditor" /\ prompt' = Nothing /\ panel' = NoPanel

ActivateConfig ==
    \/ /\ \E at \in {"ModelSelector", "Stats", "ConfigCenter"} :
             /\ page' = at
             /\ panel' = [NoPanel EXCEPT !.group = IF at = "ModelSelector" THEN 3 ELSE 0]
             /\ UNCHANGED <<prompt, editor>>
       /\ validChoice' = Nothing /\ SyncText /\ Disk
       /\ applied' = Nothing /\ UNCHANGED <<cred, dispatched, open>>
    \/ /\ \E k \in Kinds : prompt' = [kind |-> k, id |-> Nothing, starter |-> Nothing]
       /\ page' = "ConfigObjectCreate"
       /\ UNCHANGED <<panel, editor>>
       /\ validChoice' = Nothing /\ SyncText /\ Disk /\ Outside
    \/ /\ \E k \in Kinds, route \in {"Edit", "Delete"} : \E f \in ToSet(Fields[k]) :
             /\ route = "Delete" => f = Fields[k][1]
             /\ panel' = [NoPanel EXCEPT !.section = k, !.pending = <<route, f>>]
       /\ page' = "ConfigCenter"
       /\ UNCHANGED <<prompt, editor>>
       /\ validChoice' = Nothing /\ SyncText /\ Disk /\ Outside

Clamp(s, n) == IF n = 0 \/ s < 0 THEN 0 ELSE IF s > n - 1 THEN n - 1 ELSE s
Step(event) == IF event \in {"Up", "BackTab"} THEN -1 ELSE 1

\* config_center_objects, in the order of their ids.
Listed == SelectSeq(Ids, LAMBDA i : i \in IdsOf(loaded.document, panel.section))

MoveConfigObjectSelection(event) ==
    /\ panel' = [panel EXCEPT !.selected = Clamp(@ + Step(event), Len(Listed))]
    /\ UNCHANGED <<page, prompt, editor>> /\ SameTexts /\ Disk /\ Outside

\* The panel goes back to the slash panel first: a route that then fails
\* leaves it there.
ActivateConfigObject ==
    LET object == <<panel.section, Listed[panel.selected + 1]>>
        route == panel.pending[1]
        f == panel.pending[2]
    IN  /\ panel.selected < Len(Listed)
        /\ IF CanOpen(route, object)
           THEN OpenRoute(route, object, f) /\ validChoice' = Nothing /\ SyncText
           ELSE Closed /\ SameTexts
        /\ Disk /\ Outside

-----------------------------------------------------------------------------
(* The object prompt.                                                       *)

EditConfigObjectId ==
    /\ \E i \in ToSet(Ids) \cup {Nothing} : i # prompt.id /\ prompt' = [prompt EXCEPT !.id = i]
    /\ UNCHANGED <<page, panel, editor>> /\ SameTexts /\ Disk /\ Outside

\* begin_model_starter and begin_model_preset: the starter's fields are staged.
Started(object) ==
    LET fields == {Path(object, f) : f \in Required["preset"]}
    IN  [x \in fields |-> ChoiceValues[1]] @@ loaded.document
CanStart(object) ==
    /\ object[1] = "preset" /\ ~contains_object(loaded.document, object)
    /\ ValidDocument(Started(object))

\* submit_config_object_id: a discovered model is asked for its dialect first.
SubmitConfigObjectId ==
    LET object == <<prompt.kind, prompt.id>> IN
    /\ prompt.id # Nothing
    /\ \/ /\ prompt.starter = Nothing /\ ~contains_object(loaded.document, object)
          /\ Opened(Session(object, "Create", loaded.document, FALSE))
       \/ /\ prompt.starter = "release" /\ CanStart(object)
          /\ Opened(Session(object, "Create", Started(object), TRUE))
       \/ /\ prompt.starter = "discovery" /\ CanStart(object)
          /\ page' = "ModelDiscoveryDialect" /\ panel' = NoPanel
          /\ UNCHANGED <<prompt, editor>>
    /\ validChoice' = Nothing /\ SyncText /\ Disk /\ Outside

\* The observation is validated again (ProviderDiscovery): it may be gone.
ConfirmDiscoveredModelDialect ==
    LET object == <<"preset", prompt.id>> IN
    /\ \/ /\ CanStart(object)
          /\ Opened(Session(object, "Create", Started(object), TRUE))
          /\ validChoice' = Nothing /\ SyncText
       \/ /\ page' = "ModelSelector" /\ panel' = [NoPanel EXCEPT !.group = 3] /\ prompt' = Nothing
          /\ UNCHANGED editor /\ SameTexts
    /\ Disk /\ Outside

-----------------------------------------------------------------------------
(* Staging.                                                                 *)

\* Any staged change: the preview and the connection test no longer count.
Staged(document) ==
    editor' = [editor EXCEPT !.document = document, !.dirty = TRUE, !.previewed = Nothing,
                             !.connection = Nothing]

Typed(value) == typed' = [value |-> value, replace |-> FALSE, pending |-> FALSE]

\* reset_config_text and reset_config.
ResetField ==
    /\ Staged(Without(editor.document, {Here(editor)}))
    /\ typed' = [value |-> Unset, replace |-> TRUE, pending |-> FALSE]
    /\ validText' = Nothing /\ discarding' = FALSE

\* edit_config_text: a text that is parsed waits in the buffer, any other is
\* staged at once; emptied, the field is reset.
EditConfigText(event) ==
    LET old == IF typed.replace THEN <<>> ELSE typed.value
        new == IF event = "Backspace" THEN Front(old) ELSE Append(old, event)
    IN  /\ event # "Backspace" => Len(old) < MaxDraft
        /\ IF event = "Backspace" /\ (typed.replace \/ Len(old) <= 1) THEN ResetField
           ELSE /\ IF Interaction[editor.field] = "Deferred"
                   THEN /\ typed' = [value |-> new, replace |-> FALSE, pending |-> TRUE]
                        /\ UNCHANGED editor
                   ELSE Typed(new) /\ Staged(PutValue(editor.document, Here(editor), new))
                /\ validText' = Nothing /\ discarding' = FALSE
        /\ UNCHANGED <<page, panel, prompt, validChoice>> /\ Disk /\ Outside

ClearConfigText ==
    ResetField /\ UNCHANGED <<page, panel, prompt, validChoice>> /\ Disk /\ Outside

\* flush_config_text: the editor with the pending text staged, if it parses.
Pending == typed # Nothing /\ typed.pending
CanFlush == IF Pending THEN typed.value \in Parsable ELSE TRUE
Flushed ==
    IF Pending
    THEN [editor EXCEPT !.document = PutValue(@, Here(editor), typed.value), !.dirty = TRUE,
                        !.previewed = Nothing, !.connection = Nothing]
    ELSE editor

MoveConfigField_Dropping(event) ==
    LET fields == Fields[editor.object[1]] IN
    /\ editor' = [editor EXCEPT !.field = fields[Clamp(FieldIndex(editor) - 1 + Step(event), Len(fields)) + 1]]
    /\ validChoice' = Nothing /\ SyncText
    /\ UNCHANGED <<page, panel, prompt>> /\ Disk /\ Outside
MoveConfigField(event) ==
    LET fields == Fields[editor.object[1]] IN
    /\ CanFlush
    /\ editor' = [Flushed EXCEPT !.field = fields[Clamp(FieldIndex(editor) - 1 + Step(event), Len(fields)) + 1]]
    /\ validChoice' = Nothing /\ SyncText
    /\ UNCHANGED <<page, panel, prompt>> /\ Disk /\ Outside

config_choice == IF Get(editor.document, Here(editor)) = Unset THEN Nothing ELSE Get(editor.document, Here(editor))

\* An unset choice starts at one of the ends.
MoveConfigChoice(event) ==
    LET at == {i \in DOMAIN ChoiceValues : ChoiceValues[i] = config_choice}
        next == IF at = {} THEN (IF event = "Up" THEN Len(ChoiceValues) ELSE 1)
                ELSE Clamp((CHOOSE i \in at : TRUE) - 1 + Step(event), Len(ChoiceValues)) + 1
    IN  /\ Staged(PutValue(editor.document, Here(editor), ChoiceValues[next]))
        /\ validChoice' = Nothing
        /\ UNCHANGED <<page, panel, prompt, typed, validText, discarding>> /\ Disk /\ Outside

-----------------------------------------------------------------------------
(* Preview, commit and discard.                                             *)

Previewed(e) == [e EXCEPT !.dirty = e.document # file.document, !.previewed = e.document]

\* commit_config: the layer is written unless nothing changed, and reloaded.
\* The model list on the screen is not rebuilt.
CommitDraft(e) ==
    /\ Committable(e) /\ file.revision < MaxRevision
    /\ file' = (IF e.document = file.document THEN file
                ELSE [revision |-> file.revision + 1, document |-> e.document])
    /\ loaded' = (IF e.document = file.document THEN loaded ELSE file')
    /\ Closed /\ UNCHANGED shown

PreviewConfig ==
    /\ IF Committable(editor) THEN editor' = Previewed(editor) /\ validChoice' = config_choice
       ELSE validChoice' = Nothing /\ UNCHANGED editor
    /\ UNCHANGED <<page, panel, prompt, typed, validText, discarding>> /\ Disk /\ Outside

CommitConfig ==
    /\ editor.dirty /\ config_choice = validChoice
    /\ CommitDraft(editor)
    /\ validChoice' = Nothing /\ UNCHANGED <<typed, validText, discarding>> /\ Outside

\* submit_config_text: the first Enter previews, the second commits; what does
\* not parse stays in the buffer.
SubmitConfigText ==
    LET e == Flushed
        t == [typed EXCEPT !.pending = FALSE]
    IN  /\ CanFlush
        /\ CASE ~e.dirty -> UNCHANGED <<file, loaded, shown, page, panel, prompt, editor, typed, validText, discarding>>
             [] e.dirty /\ t.value # validText ->
                   /\ editor' = IF Committable(e) THEN Previewed(e) ELSE e
                   /\ validText' = IF Committable(e) THEN t.value ELSE Nothing
                   /\ typed' = t
                   /\ UNCHANGED <<page, panel, prompt, discarding>> /\ Disk
             [] OTHER -> CommitDraft(e) /\ ClearText
        /\ UNCHANGED validChoice /\ Outside

\* A confirmed deletion is previewed and committed in one step.
ConfirmConfigDelete ==
    /\ CommitDraft(editor) /\ validChoice' = Nothing /\ ClearText /\ Outside

DiscardConfig == Closed /\ validChoice' = Nothing /\ ClearText /\ Disk /\ Outside

CancelDiscard ==
    /\ discarding' = FALSE
    /\ UNCHANGED <<page, panel, prompt, editor, typed, validChoice, validText>> /\ Disk /\ Outside

\* Leaving an editor with unsaved input asks, or is refused on a choice.
BackConfig ==
    /\ IF typed # Nothing /\ Unsaved
       THEN discarding' = TRUE /\ UNCHANGED <<page, panel, prompt, editor, typed, validChoice, validText>>
       ELSE CASE page = "ModelDiscoveryDialect" ->
                    /\ page' = "ConfigObjectCreate"
                    /\ UNCHANGED <<panel, prompt, editor>> /\ validChoice' = Nothing /\ ClearText
              [] page # "ModelDiscoveryDialect" /\ panel.detail ->
                    /\ panel' = [panel EXCEPT !.detail = FALSE]
                    /\ UNCHANGED <<page, prompt, editor>> /\ validChoice' = Nothing /\ ClearText
              [] OTHER -> ~Unsaved /\ Closed /\ validChoice' = Nothing /\ ClearText
    /\ Disk /\ Outside

QuitConfig ==
    /\ ~Unsaved /\ open' = FALSE
    /\ UNCHANGED <<page, panel, prompt, editor, cred, dispatched, applied>> /\ SameTexts /\ Disk

-----------------------------------------------------------------------------
(* The Provider wizard's connection and credential.                         *)

\* resolve_draft: against the layer as it was loaded.
Resolved(e) == e.base = loaded.revision /\ ValidDocument(e.document)

TestProviderConnection ==
    /\ page = "ProviderWizard" /\ Resolved(editor)
    /\ editor' = [editor EXCEPT !.connection = editor.document]
    /\ UNCHANGED <<page, panel, prompt>> /\ SameTexts /\ Disk /\ Outside

\* ProviderCredentialScope: profile, reference and origin of a document.
ScopeIn(document, object) ==
    [id |-> object[2], reference |-> Get(document, Path(object, "credential")),
     origin |-> Get(document, Path(object, "base_url"))]
HasScope(e) == Resolved(e) /\ Get(e.document, Path(e.object, "credential")) # Unset
current_credential_scope == ScopeIn(editor.document, editor.object)

CredentialActions == <<"Bind", "Replace", "Test", "Forget">>
Choosing(scope, n) == [step |-> "CredentialActions", scope |-> scope, action |-> n, input |-> 0]
Editing == UNCHANGED <<page, panel, prompt, editor, applied, open>> /\ SameTexts /\ Disk

\* With a clean draft only.
OpenCredentialActions ==
    /\ ~Unsaved /\ HasScope(editor)
    /\ cred' = Choosing(current_credential_scope, 1)
    /\ UNCHANGED dispatched /\ Editing

MoveCredentialAction(event) ==
    /\ cred' = [cred EXCEPT !.action = Clamp(@ - 1 + Step(event), 4) + 1]
    /\ UNCHANGED dispatched /\ Editing

\* Before each step the scope is computed again; another one ends the flow.
SameScope == HasScope(editor) /\ cred.scope = current_credential_scope
Dispatch(action) == dispatched' = [action |-> action, scope |-> cred.scope]

ActivateCredentialAction ==
    /\ IF ~SameScope THEN cred' = Nothing /\ UNCHANGED dispatched
       ELSE CASE cred.action \in {1, 2} ->
                    cred' = [cred EXCEPT !.step = "CredentialSecret", !.input = 0] /\ UNCHANGED dispatched
              [] cred.action = 3 -> UNCHANGED cred /\ Dispatch("Test")
              [] OTHER -> cred' = [cred EXCEPT !.step = "CredentialConfirmation"] /\ UNCHANGED dispatched
    /\ Editing

EditCredentialSecret(event) ==
    /\ cred' = [cred EXCEPT !.input =
                    CASE event = "Delete" -> 0
                      [] event = "Backspace" -> IF @ = 0 THEN 0 ELSE @ - 1
                      [] OTHER -> IF @ < MaxDraft THEN @ + 1 ELSE @]
    /\ UNCHANGED dispatched /\ Editing

\* A bind is given to the vault, a replacement confirmed first; the input is
\* taken out of its buffer either way, and an empty one is refused.
SubmitCredentialSecret ==
    /\ CASE ~SameScope -> cred' = Nothing /\ UNCHANGED dispatched
         [] SameScope /\ cred.input = 0 -> UNCHANGED <<cred, dispatched>>
         [] SameScope /\ cred.input > 0 /\ cred.action = 1 ->
               cred' = Choosing(cred.scope, 1) /\ Dispatch("Bind")
         [] OTHER -> cred' = [cred EXCEPT !.step = "CredentialConfirmation", !.input = 0] /\ UNCHANGED dispatched
    /\ Editing

ConfirmCredentialAction ==
    /\ IF ~SameScope THEN cred' = Nothing /\ UNCHANGED dispatched
       ELSE cred' = Choosing(cred.scope, cred.action) /\ Dispatch(CredentialActions[cred.action])
    /\ Editing

CancelCredentialFlow ==
    /\ cred' = IF cred.step = "CredentialActions" THEN Nothing ELSE Choosing(cred.scope, cred.action)
    /\ dispatched' = Nothing /\ Editing

-----------------------------------------------------------------------------
(* The model and stats panels.                                              *)

Groups == <<"Favorites", "Recent", "Compatible", "All">>

\* The rows: the presets the view was built with, then the catalogs' models.
ModelRows ==
    [i \in DOMAIN SelectSeq(Ids, LAMBDA x : x \in IdsOf(shown.document, "preset")) |->
        [source |-> "preset",
         id |-> SelectSeq(Ids, LAMBDA x : x \in IdsOf(shown.document, "preset"))[i],
         groups |-> {"Recent", "All"}]]
    \o Catalog
VisibleRows == SelectSeq(ModelRows, LAMBDA r : Groups[panel.group + 1] \in r.groups)
RowCount == IF page = "Stats" THEN StatsEntries[panel.group + 1] ELSE Len(VisibleRows)
GroupCount == IF page = "Stats" THEN Len(StatsEntries) ELSE Len(Groups)

MovePanelGroup(event) ==
    /\ panel' = [panel EXCEPT !.group = (@ + Step(event)) % GroupCount, !.selected = 0, !.detail = FALSE]
    /\ UNCHANGED <<page, prompt, editor>> /\ SameTexts /\ Disk /\ Outside
MovePanelSelection(event) ==
    /\ panel' = [panel EXCEPT !.selected = Clamp(@ + Step(event), RowCount), !.detail = FALSE]
    /\ UNCHANGED <<page, prompt, editor>> /\ SameTexts /\ Disk /\ Outside
TogglePanelDetail ==
    /\ panel.selected < RowCount
    /\ panel' = [panel EXCEPT !.detail = IF page = "Stats" THEN ~@ ELSE TRUE]
    /\ UNCHANGED <<page, prompt, editor>> /\ SameTexts /\ Disk /\ Outside

\* refresh_terminal_view reopens the configuration.
RefreshConfig ==
    /\ loaded' = file /\ shown' = file
    /\ panel' = IF page # "ModelSelector" THEN panel
                ELSE LET n == Len(SelectSeq(Ids, LAMBDA x : x \in IdsOf(file.document, "preset"))) + Len(Catalog)
                     IN  [panel EXCEPT !.selected = Clamp(@, n), !.detail = @ /\ panel.selected < n]
    /\ UNCHANGED <<file, page, prompt, editor>> /\ SameTexts /\ Outside

PresetIn(document, id) == [x \in {y \in DOMAIN document : y[1] = "preset" /\ y[2] = id} |-> document[x]]

\* stage_terminal_model_selection: the preset shown must be the one loaded.
CanApply_Stale(id) == id \in IdsOf(loaded.document, "preset")
CanApply(id) == PresetIn(loaded.document, id) = PresetIn(shown.document, id)

\* The second Enter on a row.
ActivateModelEntry ==
    LET row == VisibleRows[panel.selected + 1] IN
    /\ panel.selected < RowCount /\ panel.detail
    /\ CASE row.source = "preset" ->
               /\ CanApply(row.id)
               /\ applied' = [shown |-> PresetIn(shown.document, row.id),
                              staged |-> PresetIn(loaded.document, row.id)]
               /\ loaded' = file /\ shown' = file
               /\ UNCHANGED <<file, page, panel, prompt, editor, cred, dispatched, open>> /\ SameTexts
         [] OTHER ->
               /\ prompt' = [kind |-> "preset", id |-> Nothing, starter |-> row.source]
               /\ page' = "ConfigObjectCreate"
               /\ UNCHANGED <<panel, editor>> /\ SameTexts /\ Disk /\ Outside

-----------------------------------------------------------------------------
Chars == {"x"}

\* TerminalInputState::apply and the session's handler, for these contexts.
PanelKey(event, context) ==
    CASE context = "SlashPanel" ->
            \/ event = "Enter" /\ ActivateConfig
            \/ event = "F6" /\ RefreshConfig
            \/ event = "Escape" /\ QuitConfig
      [] context = "ConfigObjectCreate" ->
            \/ event = "x" /\ EditConfigObjectId
            \/ event = "Enter" /\ SubmitConfigObjectId
            \/ event = "Escape" /\ BackConfig
      [] context = "ModelDiscoveryDialect" ->
            \/ event = "Enter" /\ ConfirmDiscoveredModelDialect
            \/ event = "Escape" /\ BackConfig
      [] context = "ConfigObject" ->
            \/ event \in {"Up", "Down"} /\ MoveConfigObjectSelection(event)
            \/ event = "Enter" /\ ActivateConfigObject
            \/ event = "Escape" /\ BackConfig
      [] context \in {"ModelSelector", "Stats"} ->
            \/ event \in {"Up", "Down"} /\ MovePanelSelection(event)
            \/ event \in {"Tab", "BackTab"} /\ MovePanelGroup(event)
            \/ event = "Enter" /\ IF context = "Stats" \/ ~panel.detail THEN TogglePanelDetail ELSE ActivateModelEntry
            \/ event = "F6" /\ RefreshConfig
            \/ event = "Escape" /\ BackConfig

EditorKey(event, context) ==
    CASE context = "Choice" ->
            \/ event \in {"Up", "Down"} /\ MoveConfigChoice(event)
            \/ event \in {"Tab", "BackTab"} /\ MoveConfigField(event)
            \/ event = "Enter" /\ PreviewConfig
            \/ event = "c" /\ CommitConfig
            \/ event = "d" /\ DiscardConfig
            \/ event = "F5" /\ TestProviderConnection
            \/ event = "Escape" /\ BackConfig
      [] context \in {"Text", "Deferred", "Credential"} ->
            \/ event \in Chars \cup {"Backspace"} /\ EditConfigText(event)
            \/ event = "Delete" /\ ClearConfigText
            \/ event \in {"Tab", "BackTab"} /\ MoveConfigField(event)
            \/ event = "Enter" /\ SubmitConfigText
            \/ event = "F5" /\ TestProviderConnection
            \/ event = "F7" /\ context = "Credential" /\ OpenCredentialActions
            \/ event = "Escape" /\ BackConfig
      [] context = "DiscardConfirmation" ->
            \/ event = "Enter" /\ DiscardConfig
            \/ event = "Escape" /\ CancelDiscard
            \/ event = "F5" /\ TestProviderConnection
      [] context = "ConfigDeleteConfirmation" ->
            \/ event = "Enter" /\ ConfirmConfigDelete
            \/ event = "Escape" /\ DiscardConfig

CredentialKey(event, context) ==
    CASE context = "CredentialActions" ->
            \/ event \in {"Up", "Down"} /\ MoveCredentialAction(event)
            \/ event = "Enter" /\ ActivateCredentialAction
            \/ event = "Escape" /\ CancelCredentialFlow
      [] context = "CredentialSecret" ->
            \/ event \in Chars \cup {"Backspace", "Delete"} /\ EditCredentialSecret(event)
            \/ event = "Enter" /\ SubmitCredentialSecret
            \/ event = "Escape" /\ CancelCredentialFlow
      [] context = "CredentialConfirmation" ->
            \/ event = "Enter" /\ ConfirmCredentialAction
            \/ event = "Escape" /\ CancelCredentialFlow

PanelContexts == {"SlashPanel", "ConfigObjectCreate", "ModelDiscoveryDialect", "ConfigObject",
                  "ModelSelector", "Stats"}
CredentialContexts == {"CredentialActions", "CredentialSecret", "CredentialConfirmation"}

Key(event, context) ==
    CASE context \in PanelContexts -> PanelKey(event, context)
      [] context \in CredentialContexts -> CredentialKey(event, context)
      [] context = "Other" -> event = "Escape" /\ BackConfig
      [] OTHER -> EditorKey(event, context)

TConfigEvents == Chars \cup {"Enter", "Escape", "Up", "Down", "Tab", "BackTab", "Backspace",
                             "Delete", "c", "d", "F5", "F6", "F7"}

OtherWriter ==
    /\ file.revision < MaxRevision
    /\ \E document \in UserDocuments :
          /\ document # file.document
          /\ file' = [revision |-> file.revision + 1, document |-> document]
    /\ UNCHANGED <<loaded, shown, page, panel, prompt, editor, typed, validChoice, validText,
                   discarding, cred, dispatched, applied, open>>

TConfigInit ==
    /\ \E document \in UserDocuments : file = [revision |-> 0, document |-> document]
    /\ loaded = file /\ shown = file
    /\ page = "SlashPanel" /\ panel = NoPanel /\ prompt = Nothing /\ editor = Nothing
    /\ typed = Nothing /\ validChoice = Nothing /\ validText = Nothing /\ discarding = FALSE
    /\ cred = Nothing /\ dispatched = Nothing /\ applied = Nothing /\ open = TRUE

TConfigNext ==
    \/ OtherWriter
    \/ open /\ \E event \in TConfigEvents : Key(event, config_context)
    \/ open /\ QuitConfig

-----------------------------------------------------------------------------
\* A draft that differs from the layer it was opened on, or text not yet
\* staged, leaves the screen only by being written or by an explicit discard (the
\* confirmation, d on a choice, Escape on a deletion), and moving to another
\* field takes the text along.
UnsavedIsNotDropped ==
    [][editor # Nothing /\ (Pending \/ editor.document # loaded.document)
       => /\ open'
          /\ editor' = Nothing =>
                \/ file'.document = Flushed.document
                \/ config_context \in {"Choice", "ConfigDeleteConfirmation", "DiscardConfirmation"}
          /\ editor' # Nothing /\ editor'.field # editor.field =>
                editor'.document = Flushed.document]_tconfig_vars

\* A command given to the vault is for the profile as it is committed in the
\* layer the terminal has loaded, never for a draft.
CredentialIsForCommitted ==
    [][dispatched' # dispatched /\ dispatched' # Nothing
       => dispatched'.scope = ScopeIn(loaded.document, editor.object)]_tconfig_vars

\* The preset staged for the Agent is the one the screen showed.
AppliedWasShown == applied # Nothing => applied.shown = applied.staged

\* The result of a connection test on the screen is of the staged draft.
TestedIsCurrent ==
    editor # Nothing /\ editor.connection # Nothing => editor.connection = editor.document

\* Typed input and credentials go where the user put them: none is dropped
\* unasked, none is bound for an origin that is not committed.
DraftsAreHonoured == UnsavedIsNotDropped /\ CredentialIsForCommitted

\* What a screen offers to act on is current: the model that is applied, and
\* the connection result beside a draft.
ScreenIsCurrent == AppliedWasShown /\ TestedIsCurrent

\* What a commit writes is what the last preview validated.
CommitWasPreviewed ==
    [][editor # Nothing /\ editor.operation # "Delete" /\ editor' = Nothing /\ file' # file
       => Flushed.previewed = Flushed.document]_tconfig_vars
=============================================================================
