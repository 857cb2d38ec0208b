---------------------------- MODULE MCTerminal -----------------------------
(* Instances for TLC of the interactive terminal: its renderer over narrow   *)
(* and wide characters, its prompts for Agents, approvals and output, and    *)
(* its Config screens.  The parts share no state; a behaviour is one of a    *)
(* single part.                                                              *)
EXTENDS TerminalRenderer, TerminalSession, TerminalConfig

CONSTANT Parts  \* the parts an instance runs

VARIABLE part

-----------------------------------------------------------------------------
(* Renderer: a character of one column, one of two, one of none.             *)
Glyph(symbol, columnsOf) == [symbol |-> symbol, width |-> columnsOf]
Narrow == Glyph("a", 1)
Wide == Glyph("W", 2)
Mark == Glyph("z", 0)
MCGlyphs == {Narrow, Wide, Mark, Space}
MCTexts == {<<Wide, Narrow>>, <<Narrow, Space, Wide>>, <<Mark>>}
MCStatuses == {<<Wide, Narrow>>}
MCNotices == {<<>>, <<Narrow>>}

-----------------------------------------------------------------------------
(* Session: an approval of two rows in a narrow terminal, one in a wide one. *)
MCDetailLines == <<2, 1>>

-----------------------------------------------------------------------------
(* Config: a Provider with a choice, a text and a credential, and a preset   *)
(* with a parsed text and a choice it can do without.                        *)
MCFields == [provider |-> <<"template", "base_url", "credential">>,
             preset |-> <<"model", "effort">>]
MCInteraction == [template |-> "Choice", base_url |-> "Text", credential |-> "Credential",
                  model |-> "Deferred", effort |-> "Choice"]
MCRequired == [provider |-> {"template"}, preset |-> {"model"}]
MCChoiceValues == <<<<"a">>, <<"b">>>>
MCIds == <<"i">>
MCParsable == {<<"x">>}
CatalogRow(source) == [source |-> source, id |-> source, groups |-> {"Compatible", "All"}]
MCCatalog == <<CatalogRow("release"), CatalogRow("discovery")>>
MCStatsEntries == <<1, 0>>

Bare == <<"provider", "i", "template">> :> <<"a">>
Bound == (<<"provider", "i", "credential">> :> <<"x">>) @@ Bare
Whole == (<<"preset", "i", "model">> :> <<"x">>) @@ Bound
MCUserDocuments == {<<>>, Bare, Whole}

-----------------------------------------------------------------------------
(* The first state of a part that takes no step.                             *)
QuietSession == SessionInit /\ width = 1
QuietConfig == TConfigInit /\ file.document = Bare

MCInit ==
    /\ part \in Parts /\ RendererInit
    /\ \/ part = "renderer" /\ QuietSession /\ QuietConfig
       \/ part = "session" /\ SessionInit /\ QuietConfig
       \/ part = "config" /\ QuietSession /\ TConfigInit

MCNext ==
    /\ part' = part
    /\ \/ part = "renderer" /\ RendererNext /\ UNCHANGED <<session_vars, tconfig_vars>>
       \/ part = "session" /\ SessionNext /\ UNCHANGED <<renderer_vars, tconfig_vars>>
       \/ part = "config" /\ TConfigNext /\ UNCHANGED <<renderer_vars, session_vars>>

MCSpec == MCInit /\ [][MCNext]_<<part, renderer_vars, session_vars, tconfig_vars>>
=============================================================================
