---------------------------- MODULE ArgumentParser ----------------------------
(***************************************************************************)
(* The command line's parser (greentyper cli.rs): a loop over the arguments *)
(* of each family of commands, then the rules of the command itself, which  *)
(* name every option it must refuse by hand.  An argument is an option with *)
(* the class of its value, or a positional; all refusals are one.           *)
(***************************************************************************)
EXTENDS Integers, Sequences, FiniteSets

CONSTANTS
    MaxOptions,     \* bound: options after the command
    MaxPositionals  \* bound: positionals after it

ASSUME ParserAssumption == {MaxOptions, MaxPositionals} \subseteq Nat

VARIABLES
    cmd,        \* <<family, action>>
    seen,       \* the options read so far
    again,      \* the ones read more than once
    positional, \* how many positionals were read, the sub-command not counted
    only,       \* config: a "--" was read
    verdict     \* "reading", "refused" or "accepted"

parser_vars == <<cmd, seen, again, positional, only, verdict>>

\* What the value of an option may look like.
ValueClass == {"missing", "dash", "empty", "wrong", "fine"}

Has(options) == options \subseteq seen
Rejects(options) == options \cap seen = {}

-----------------------------------------------------------------------------
(* The loops: the options of a family, its flags, what they take as values. *)

parse_options == {"--ledger", "--input", "--delivery", "--tool", "--dialect", "--preset",
                  "--at", "--limit", "--cursor", "--summary-only"}
parse_turn_target_options == {"--ledger", "--turn"}
parse_app_server_options == {"--stdio", "--ledger"}
parse_context_options == {"--ledger", "--max-raw-bytes", "--max-raw-items"}
parse_workspace_options == {"--root", "--path", "--read-set", "--input", "--worktree", "--branch",
                            "--base", "--target", "--source", "--delete-branch"}
parse_skill_options == {"--project", "--ledger", "--id", "--message", "--approve"}
parse_tool_options == {"--ledger", "--call", "--failed", "--succeeded-digest"}
parse_agent_options == {"--ledger", "--operation", "--parent", "--agent", "--recipient", "--title",
                        "--body", "--outcome", "--reason", "--scope", "--token-budget",
                        "--tool-budget", "--input", "--turn", "--tool", "--capability"}
parse_credential_options == {"--profile", "--origin"}
parse_config_options == {"--dry-run", "--scope", "--user-config", "--project-config",
                         "--discovery-state", "--dialect"}
parse_local_process_smoke_options == {"--run-dir", "--scenario", "--message"}
parse_provider_http_smoke_options == {"--ledger", "--scenario", "--input"}
parse_presentation_smoke_options == {"--query"}

Options ==
    [plain |-> parse_options, turn |-> parse_turn_target_options,
     server |-> parse_app_server_options, context |-> parse_context_options,
     workspace |-> parse_workspace_options, skill |-> parse_skill_options,
     tool |-> parse_tool_options, agent |-> parse_agent_options,
     credential |-> parse_credential_options, config |-> parse_config_options,
     process_smoke |-> parse_local_process_smoke_options,
     http_smoke |-> parse_provider_http_smoke_options,
     presentation_smoke |-> parse_presentation_smoke_options]

Smokes == {"process_smoke", "http_smoke", "presentation_smoke"}
Flags == {"--summary-only", "--stdio", "--delete-branch", "--approve", "--failed", "--dry-run"}
Repeatable(family) == IF family = "workspace" THEN {"--path"}
                      ELSE IF family = "agent" THEN {"--capability"} ELSE {}
\* Options whose value has a format: numbers, digests, names, absolute paths.
Formatted(family) ==
    CASE family = "plain" -> {"--tool", "--dialect", "--at", "--limit", "--cursor", "--delivery"}
      [] family = "turn" -> {"--turn"}
      [] family = "context" -> {"--max-raw-bytes", "--max-raw-items"}
      [] family = "tool" -> {"--call", "--succeeded-digest"}
      [] family = "agent" -> {"--operation", "--parent", "--agent", "--recipient", "--tool",
                              "--capability", "--turn", "--token-budget", "--tool-budget"}
      [] family = "config" -> parse_config_options \ {"--dry-run"}
      [] family = "process_smoke" -> {"--run-dir", "--scenario"}
      [] family = "http_smoke" -> {"--ledger", "--scenario"}
      [] OTHER -> {}
NonEmpty(family) ==
    CASE family \in {"server", "workspace", "skill", "credential"} -> Options[family]
      [] OTHER -> Formatted(family) \cup {"--ledger"}

\* next_agent_value, next_tool_option_value, next_option_value and the like.
TakesValue(family, o, v) ==
    /\ v # "missing"
    /\ v = "dash" => \/ family = "plain" /\ o = "--input"
                     \/ family \in Smokes /\ o \notin Formatted(family)
    /\ v = "empty" => o \notin NonEmpty(family)
    /\ v = "wrong" => o \notin Formatted(family)

-----------------------------------------------------------------------------
(* The rules of each command, as the code lists them.                       *)

reject_stats_options == {"--summary-only", "--limit", "--cursor"}

parse_plain(action) ==
    /\ action # "stats" => Rejects(reject_stats_options)
    /\ CASE action = "tui" ->
              Rejects({"--input", "--delivery", "--tool", "--at", "--dialect", "--preset"})
         [] action = "headless" ->
              /\ Rejects({"--delivery", "--at"}) /\ ~Has({"--preset", "--dialect"})
              /\ Has({"--input"})
         [] action = "resume" -> Rejects({"--input", "--delivery", "--at", "--dialect", "--preset"})
         [] action = "status" ->
              Rejects({"--input", "--delivery", "--tool", "--at", "--dialect", "--preset"})
         [] action = "stats" ->
              /\ Rejects({"--input", "--delivery", "--tool", "--dialect", "--preset"})
              /\ Has({"--summary-only"}) => Rejects({"--limit", "--cursor"})
              /\ Has({"--cursor"}) => Has({"--limit"})
         [] action = "reconcile" ->
              Rejects({"--input", "--tool", "--at", "--dialect", "--preset"}) /\ Has({"--delivery"})

parse_context(action) == action # "reduce" => Rejects({"--max-raw-bytes", "--max-raw-items"})

parse_workspace_read(action) ==
    /\ Has({"--root"})
    /\ CASE action \in {"inspect", "list"} ->
              Rejects({"--path", "--input", "--read-set", "--worktree", "--branch", "--base",
                       "--target", "--source", "--delete-branch"})
         [] action = "remove" ->
              /\ Has({"--worktree"})
              /\ Rejects({"--path", "--input", "--read-set", "--branch", "--base", "--target",
                          "--source"})
         [] action = "capture" ->
              /\ Has({"--path"})
              /\ Rejects({"--input", "--read-set", "--worktree", "--branch", "--base", "--target",
                          "--source", "--delete-branch"})
         [] action = "validate" ->
              /\ Has({"--read-set"})
              /\ Rejects({"--path", "--input", "--worktree", "--branch", "--base", "--target",
                          "--source", "--delete-branch"})

\* paths.len() != 1 for apply: the second --path is an argument of its own.
parse_workspace_change(action) ==
    /\ Has({"--root"})
    /\ CASE action = "apply" ->
              /\ Has({"--path", "--read-set", "--input"}) /\ "--path" \notin again
              /\ Rejects({"--worktree", "--branch", "--base", "--target", "--source",
                          "--delete-branch"})
         [] action = "allocate" ->
              /\ Has({"--worktree", "--branch"})
              /\ Rejects({"--path", "--input", "--read-set", "--target", "--source",
                          "--delete-branch"})
         [] action \in {"merge-check", "merge"} ->
              /\ Has({"--target", "--source"})
              /\ Rejects({"--path", "--input", "--read-set", "--worktree", "--branch", "--base",
                          "--delete-branch"})

parse_skill(action) ==
    CASE action = "list" -> Rejects({"--ledger", "--id", "--message", "--approve"})
      [] action = "run" -> Has({"--id"})

parse_tool(action) ==
    CASE action = "status" -> Rejects({"--call", "--failed", "--succeeded-digest"})
      [] action = "reconcile" ->
            Has({"--call"}) /\ ("--failed" \in seen <=> "--succeeded-digest" \notin seen)

AgentTaskOptions == {"--title", "--scope", "--token-budget", "--tool-budget"}

parse_agent_command(action) ==
    CASE action \in {"status", "list"} ->
            Rejects(AgentTaskOptions \cup {"--parent", "--agent", "--recipient", "--operation",
                    "--body", "--input", "--outcome", "--reason", "--turn", "--tool"})
      [] action = "acknowledge" ->
            /\ Has({"--operation"})
            /\ Rejects(AgentTaskOptions \cup {"--parent", "--agent", "--recipient", "--body",
                       "--input", "--outcome", "--reason", "--turn", "--tool"})
      [] action = "delegate" ->
            /\ Has({"--title"})
            /\ Rejects({"--agent", "--recipient", "--operation", "--body", "--input", "--outcome",
                        "--reason", "--turn", "--tool"})
      [] action = "message" ->
            /\ Has({"--body"})
            /\ Rejects(AgentTaskOptions \cup {"--parent", "--operation", "--input", "--outcome",
                       "--reason", "--turn", "--tool"})
      [] action = "complete" ->
            /\ Has({"--outcome"})
            /\ Rejects(AgentTaskOptions \cup {"--parent", "--recipient", "--operation", "--body",
                       "--input", "--reason", "--turn", "--tool"})

parse_agent_control_Incomplete(action) == Has({"--agent"})
parse_agent_control(action) ==
    LET never == AgentTaskOptions \cup {"--parent", "--recipient", "--operation", "--body"}
    IN  CASE action = "fail" ->
                Has({"--reason"}) /\ Rejects(never \cup {"--input", "--outcome", "--turn", "--tool"})
          [] action = "cancel" -> Rejects(never \cup {"--input", "--outcome", "--turn", "--tool"})
          [] action = "turn" ->
                Has({"--agent", "--input"}) /\ Rejects(never \cup {"--outcome", "--reason", "--turn"})
          [] action = "retry" ->
                /\ Has({"--agent", "--turn"})
                /\ Rejects(never \cup {"--input", "--outcome", "--reason", "--tool"})
          [] action = "requeue" ->
                /\ Has({"--agent"})
                /\ Rejects(never \cup {"--input", "--outcome", "--reason", "--turn", "--tool"})

parse_config_discovery(action) ==
    CASE action = "discovery_status" ->
            positional = 0 /\ Rejects({"--scope", "--dry-run", "--dialect"})
      [] action \in {"discovery_refresh", "discovery_catalog"} ->
            positional = 1 /\ Rejects({"--scope", "--dry-run", "--dialect"})
      [] action = "discovery_accept" -> positional = 3 /\ Has({"--scope", "--dialect"})

parse_config_object(action) ==
    CASE action = "model_add" ->
            positional = 3 /\ Rejects({"--discovery-state"}) /\ Has({"--scope", "--dialect"})
      [] OTHER ->
            /\ Rejects({"--discovery-state", "--dialect"})
            /\ CASE action = "presets" -> positional = 0 /\ Rejects({"--scope", "--dry-run"})
                 [] action = "accept-starter" -> positional = 3 /\ Has({"--scope"})
                 [] action = "update-starter" -> positional = 1 /\ Has({"--scope"})
                 [] action = "get" -> positional = 1 /\ Rejects({"--scope", "--dry-run"})
                 [] action = "set" -> positional = 2 /\ Has({"--scope"})
                 [] action = "reset" -> positional = 1 /\ Has({"--scope"})
                 [] action = "repair" -> positional = 0 /\ Has({"--scope"}) /\ Rejects({"--dry-run"})
                 [] action = "test-provider" -> positional = 0 /\ Rejects({"--scope", "--dry-run"})

WorkspaceRead == {"inspect", "list", "remove", "capture", "validate"}
AgentCommands == {"status", "list", "acknowledge", "delegate", "message", "complete"}
Discovery == {"discovery_status", "discovery_refresh", "discovery_catalog", "discovery_accept"}

parse ==
    LET family == cmd[1]
        action == cmd[2]
    IN  CASE family = "plain" -> parse_plain(action)
          [] family = "turn" -> Has({"--turn"})
          [] family = "server" -> Has({"--stdio"})
          [] family = "context" -> parse_context(action)
          [] family = "workspace" -> IF action \in WorkspaceRead THEN parse_workspace_read(action)
                                     ELSE parse_workspace_change(action)
          [] family = "skill" -> parse_skill(action)
          [] family = "tool" -> parse_tool(action)
          [] family = "agent" -> IF action \in AgentCommands THEN parse_agent_command(action)
                                 ELSE parse_agent_control(action)
          [] family = "credential" -> Has({"--profile", "--origin"}) /\ positional = 1
          [] family = "config" -> IF action \in Discovery THEN parse_config_discovery(action)
                                  ELSE parse_config_object(action)
          [] OTHER -> Has(Options[family])

-----------------------------------------------------------------------------
Commands ==
    ({"plain"} \X {"tui", "headless", "resume", "status", "stats", "reconcile"}) \cup
    ({"turn"} \X {"cancel", "retry"}) \cup {<<"server", "stdio">>} \cup
    ({"context"} \X {"status", "preview", "handoff", "reduce"}) \cup
    ({"workspace"} \X (WorkspaceRead \cup {"apply", "allocate", "merge-check", "merge"})) \cup
    ({"skill"} \X {"list", "run"}) \cup ({"tool"} \X {"status", "reconcile"}) \cup
    ({"agent"} \X (AgentCommands \cup {"fail", "cancel", "turn", "retry", "requeue"})) \cup
    ({"credential"} \X {"bind", "replace", "test", "forget"}) \cup
    ({"config"} \X (Discovery \cup {"model_add", "presets", "accept-starter", "update-starter",
                     "get", "set", "reset", "repair", "test-provider"})) \cup
    {<<"process_smoke", "run">>, <<"http_smoke", "run">>, <<"presentation_smoke", "run">>}

Room == Cardinality(seen) + Cardinality(again) < MaxOptions
Refuse == verdict' = "refused" /\ UNCHANGED <<cmd, seen, again, positional, only>>

\* One option, and its value when it takes one.  A repeated --path counts.
ReadOption(o, v) ==
    /\ verdict = "reading" /\ Room /\ ~only
    /\ LET family == cmd[1]
           repeated == o \in seen
           known == o \in Options[family]
           dup == repeated /\ o \notin Repeatable(family)
           capability == o = "--capability" /\ cmd[2] # "delegate"
       IN  IF known /\ ~dup /\ ~capability /\ (o \in Flags \/ TakesValue(family, o, v))
           THEN /\ seen' = seen \cup {o}
                /\ again' = IF repeated THEN again \cup {o} ELSE again
                /\ UNCHANGED <<cmd, positional, only, verdict>>
           ELSE Refuse

\* Only config takes positionals among its options, and credential its
\* reference before them.
ReadPositional ==
    /\ verdict = "reading" /\ positional < MaxPositionals
    /\ IF cmd[1] = "config" \/ (cmd[1] = "credential" /\ positional = 0 /\ seen = {})
       THEN positional' = positional + 1 /\ UNCHANGED <<cmd, seen, again, only, verdict>>
       ELSE Refuse

ReadSeparator ==
    /\ verdict = "reading" /\ ~only
    /\ IF cmd[1] = "config" THEN only' = TRUE /\ UNCHANGED <<cmd, seen, again, positional, verdict>>
       ELSE Refuse

EndOfArguments ==
    /\ verdict = "reading"
    /\ verdict' = IF parse THEN "accepted" ELSE "refused"
    /\ UNCHANGED <<cmd, seen, again, positional, only>>

\* Any option: the ones the command's family knows, and one it does not.
AllOptions == Options[cmd[1]] \cup {"--other"}

ParserInit ==
    /\ cmd \in Commands
    /\ seen = {} /\ again = {} /\ positional = 0 /\ only = FALSE /\ verdict = "reading"

ParserNext ==
    \/ \E o \in AllOptions, v \in ValueClass : ReadOption(o, v)
    \/ ReadPositional \/ ReadSeparator \/ EndOfArguments

-----------------------------------------------------------------------------
(* USAGE, the text help prints: what a command must and may be given.       *)

LedgerOnly == [must |-> {}, may |-> {"--ledger"}, positionals |-> 0]
Synopsis(must, may, n) == [must |-> must, may |-> may, positionals |-> n]
ConfigPaths == {"--user-config", "--project-config"}
Edit(n) == Synopsis({"--scope"}, {"--dry-run"} \cup ConfigPaths, n)
Usage(family, action) ==
    CASE family = "plain" /\ action = "headless" ->
            Synopsis({"--input"}, {"--ledger", "--preset", "--dialect", "--tool"}, 0)
      [] family = "plain" /\ action = "resume" -> Synopsis({}, {"--ledger", "--tool"}, 0)
      [] family = "plain" /\ action = "stats" ->
            Synopsis({}, {"--ledger", "--at", "--summary-only", "--limit", "--cursor"}, 0)
      [] family = "plain" /\ action = "reconcile" -> Synopsis({"--delivery"}, {"--ledger"}, 0)
      [] family = "turn" -> Synopsis({"--turn"}, {"--ledger"}, 0)
      [] family = "server" -> Synopsis({"--stdio"}, {"--ledger"}, 0)
      [] family = "context" /\ action = "reduce" ->
            Synopsis({}, {"--ledger", "--max-raw-bytes", "--max-raw-items"}, 0)
      [] family = "workspace" /\ action \in {"inspect", "list"} -> Synopsis({"--root"}, {}, 0)
      [] family = "workspace" /\ action = "remove" ->
            Synopsis({"--root", "--worktree"}, {"--delete-branch"}, 0)
      [] family = "workspace" /\ action = "capture" ->
            Synopsis({"--root", "--path"}, {}, 0)
      [] family = "workspace" /\ action = "validate" -> Synopsis({"--root", "--read-set"}, {}, 0)
      [] family = "workspace" /\ action = "apply" ->
            Synopsis({"--root", "--read-set", "--path", "--input"}, {}, 0)
      [] family = "workspace" /\ action = "allocate" ->
            Synopsis({"--root", "--worktree", "--branch"}, {"--base"}, 0)
      [] family = "workspace" /\ action \in {"merge-check", "merge"} ->
            Synopsis({"--root", "--target", "--source"}, {}, 0)
      [] family = "skill" /\ action = "list" -> Synopsis({}, {"--project"}, 0)
      [] family = "skill" /\ action = "run" ->
            Synopsis({"--id"}, {"--project", "--ledger", "--message", "--approve"}, 0)
      [] family = "tool" /\ action = "reconcile" ->
            Synopsis({"--call"}, {"--ledger", "--failed", "--succeeded-digest"}, 0)
      [] family = "agent" /\ action = "acknowledge" -> Synopsis({"--operation"}, {"--ledger"}, 0)
      [] family = "agent" /\ action = "delegate" ->
            Synopsis({"--title"}, {"--ledger", "--parent", "--scope", "--token-budget",
                     "--tool-budget", "--capability"}, 0)
      [] family = "agent" /\ action = "message" ->
            Synopsis({"--body"}, {"--ledger", "--agent", "--recipient"}, 0)
      [] family = "agent" /\ action = "complete" ->
            Synopsis({"--outcome"}, {"--ledger", "--agent"}, 0)
      [] family = "agent" /\ action = "fail" -> Synopsis({"--reason"}, {"--ledger", "--agent"}, 0)
      [] family = "agent" /\ action = "cancel" -> Synopsis({}, {"--ledger", "--agent", "--reason"}, 0)
      [] family = "agent" /\ action = "turn" ->
            Synopsis({"--agent", "--input"}, {"--ledger", "--tool"}, 0)
      [] family = "agent" /\ action = "retry" -> Synopsis({"--agent", "--turn"}, {"--ledger"}, 0)
      [] family = "agent" /\ action = "requeue" -> Synopsis({"--agent"}, {"--ledger"}, 0)
      [] family = "credential" -> Synopsis({"--profile", "--origin"}, {}, 1)
      [] family = "config" /\ action \in {"discovery_status", "discovery_refresh", "discovery_catalog"} ->
            Synopsis({}, {"--discovery-state"} \cup ConfigPaths,
                     IF action = "discovery_status" THEN 0 ELSE 1)
      [] family = "config" /\ action = "discovery_accept" ->
            Synopsis({"--scope", "--dialect"}, {"--dry-run", "--discovery-state"} \cup ConfigPaths, 3)
      [] family = "config" /\ action = "model_add" ->
            Synopsis({"--scope", "--dialect"}, {"--dry-run"} \cup ConfigPaths, 3)
      [] family = "config" /\ action \in {"presets", "test-provider"} -> Synopsis({}, ConfigPaths, 0)
      [] family = "config" /\ action = "get" -> Synopsis({}, ConfigPaths, 1)
      [] family = "config" /\ action = "repair" -> Synopsis({"--scope"}, ConfigPaths, 0)
      [] family = "config" /\ action = "accept-starter" -> Edit(3)
      [] family = "config" /\ action = "set" -> Edit(2)
      [] family = "config" /\ action \in {"update-starter", "reset"} -> Edit(1)
      [] family \in Smokes ->
            Synopsis(Options[family], {}, 0)
      [] OTHER -> LedgerOnly

Alternatives ==
    /\ ~Has({"--failed", "--succeeded-digest"}) \/ cmd[1] # "tool"
    /\ cmd = <<"tool", "reconcile">> => ~Rejects({"--failed", "--succeeded-digest"})
    /\ again \subseteq CASE cmd = <<"workspace", "capture">> -> {"--path"}
                         [] cmd = <<"agent", "delegate">> -> {"--capability"} [] OTHER -> {}
    /\ cmd[1] = "plain" => ~Has({"--preset", "--dialect"}) /\ ~Has({"--summary-only", "--limit"})
                           /\ ("--cursor" \in seen => "--limit" \in seen)

\* No option is read and then ignored, and nothing the usage text offers is
\* refused: a command is accepted exactly when its options are those of its
\* line of USAGE, in any order.  (--approve, which USAGE asks of skill run, is
\* asked for when the Skill runs.)
ParserFollowsUsage ==
    LET usage == Usage(cmd[1], cmd[2])
        asUsed == /\ usage.must \subseteq seen /\ seen \subseteq usage.must \cup usage.may
                  /\ positional = usage.positionals /\ Alternatives
    IN  /\ verdict = "accepted" => asUsed
        /\ verdict = "reading" /\ asUsed => parse
==============================================================================
