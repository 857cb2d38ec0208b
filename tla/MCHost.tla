------------------------------ MODULE MCHost -------------------------------
(* Instances for TLC of a process's edges: its arguments, its client's       *)
(* connection, the credential vault, leased workspace files, and worktrees   *)
(* of a git repository.  The parts share no state; a behaviour is one of a   *)
(* single part.                                                              *)
EXTENDS ArgumentParser, ServerConnection, CredentialVault, Workspace, WorkspaceGit, TLC

CONSTANTS p, q, f, g, c, d

VARIABLE part

-----------------------------------------------------------------------------
(* Connection: every stream of up to five bytes, against a limit of two.     *)
MCInput == UNION {[1..n -> {"x", "cr", "nl"}] : n \in 0..5}

(* Vault: two origins over TLS, one URL with a path of its own origin, a     *)
(* loopback and a remote in plain text.                                      *)
Url(scheme, loopback, plain, origin) ==
    [scheme |-> scheme, loopback |-> loopback, plain |-> plain, origin |-> origin]
MCUrls == {Url("https", FALSE, TRUE, "one"), Url("https", FALSE, TRUE, "two"),
           Url("https", FALSE, FALSE, "one"), Url("http", TRUE, TRUE, "local"),
           Url("http", FALSE, TRUE, "two plain")}

(* Git: the second and the fourth commit cannot be merged.                   *)
MCConflicts == {{2, 4}}

MCSymmetry == Permutations({p, q}) \cup Permutations({f, g}) \cup Permutations({c, d})

-----------------------------------------------------------------------------
(* The first state of a part that takes no step.                             *)
QuietParser == ParserInit /\ cmd = <<"plain", "headless">>
QuietConnection == ConnectionInit /\ stream = <<>> /\ file.value = "u"
QuietWorkspace == WorkspaceInit /\ root.files = [x \in Files |-> c]

MCInit ==
    /\ VaultInit /\ GitInit
    /\ \/ part = "arguments" /\ ParserInit /\ QuietConnection /\ QuietWorkspace
       \/ part = "connection" /\ QuietParser /\ ConnectionInit /\ QuietWorkspace
       \/ part = "workspace" /\ QuietParser /\ QuietConnection /\ WorkspaceInit
       \/ part \in {"vault", "git"} /\ QuietParser /\ QuietConnection /\ QuietWorkspace

connection_vars == <<reader_vars, draft_vars>>

MCNext ==
    /\ part' = part
    /\ \/ /\ part = "arguments" /\ ParserNext
          /\ UNCHANGED <<connection_vars, vault_vars, workspace_vars, git_vars>>
       \/ /\ part = "connection" /\ ConnectionNext
          /\ UNCHANGED <<parser_vars, vault_vars, workspace_vars, git_vars>>
       \/ /\ part = "vault" /\ VaultNext
          /\ UNCHANGED <<parser_vars, connection_vars, workspace_vars, git_vars>>
       \/ /\ part = "workspace" /\ WorkspaceNext
          /\ UNCHANGED <<parser_vars, connection_vars, vault_vars, git_vars>>
       \/ /\ part = "git" /\ GitNext
          /\ UNCHANGED <<parser_vars, connection_vars, vault_vars, workspace_vars>>

MCSpec == MCInit /\ [][MCNext]_<<part, parser_vars, connection_vars, vault_vars,
                                 workspace_vars, git_vars>>
=============================================================================
