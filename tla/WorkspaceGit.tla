---------------------------- MODULE WorkspaceGit ----------------------------
(***************************************************************************)
(* Worktree allocation, removal and merging (greentyper workspace_git.rs,   *)
(* Unix).  Every git process a command runs is a step; the commands of this *)
(* program exclude each other by the root's exclusive Lease, while people   *)
(* and Agents commit, edit and switch branches in the worktrees between any *)
(* two steps.  A commit is the set of commits it descends from, itself      *)
(* included, so a is an ancestor of b iff a \subseteq b.                    *)
(***************************************************************************)
EXTENDS Integers, FiniteSets

CONSTANTS
    Branches,       \* branch names
    RootPath,       \* the repository's own worktree
    Paths,          \* paths of linked worktrees, outside the root
    Main,           \* the branch first checked out in the root
    Conflicts,      \* pairs of commits whose changes cannot be merged
    MaxCommits      \* bound: commits ever made

\* "none" and "detached" stand for no branch.
ASSUME GitAssumption ==
    /\ MaxCommits \in Nat /\ Main \in Branches /\ RootPath \notin Paths
    /\ {"none", "detached"} \cap Branches = {}

VARIABLES
    refs,       \* branch -> its commit, or {} if there is none
    worktrees,  \* path -> its registration, or NoWorktree
    merging,    \* the commit a merge begun in the root will join, or {}
    made,       \* commits ever made
    job,        \* the command holding the Lease, and how far it is
    report      \* the last command's result

git_vars == <<refs, worktrees, merging, made, job, report>>

NoWorktree == [branch |-> "none", dirty |-> FALSE, locked |-> FALSE, gone |-> FALSE]
Registered(branch) == [NoWorktree EXCEPT !.branch = branch]
NoJob == [step |-> "idle"]
HeadOf(path) == refs[worktrees[path].branch]
ListedBranch(path) == worktrees[path].branch
Listed(path) == worktrees[path] # NoWorktree
CheckedOut(branch) == \E p \in DOMAIN worktrees : ListedBranch(p) = branch

New == made + 1
CanCommit == made < MaxCommits
Mergeable(a, b) == \A x \in a \ b, y \in b \ a : {x, y} \notin Conflicts

\* A command ends: its result is reported and the Lease dropped.
End(status) == job' = NoJob /\ report' = [status |-> status]
Step(j) == job' = j /\ UNCHANGED report

\* validate_ref, WorkspaceRoot::open, verify_repository and the Lease: one
\* command at a time, the others fail at once.
Begin(j) ==
    /\ job = NoJob /\ job' = j /\ report' = [status |-> "running"]
    /\ UNCHANGED <<refs, worktrees, merging, made>>

-----------------------------------------------------------------------------
(* allocate_worktree.                                                       *)

Allocate(path, branch, base) ==
    Begin([step |-> "probe", path |-> path, branch |-> branch, base |-> base])
\* The path, the base commit and the branch: a taken one ends the command.
validate_new_worktree_path(path) == ~Listed(path)
AllocateProbe ==
    /\ job.step = "probe"
    /\ IF ~validate_new_worktree_path(job.path) \/ refs[job.base] = {} \/ refs[job.branch] # {} THEN End("refused")
       ELSE Step([job EXCEPT !.step = "add", !.base = refs[job.base]])
    /\ UNCHANGED <<refs, worktrees, merging, made>>
\* git worktree add -b: refused again if the branch or the path appeared.
AllocateAdd ==
    /\ job.step = "add"
    /\ IF Listed(job.path) \/ refs[job.branch] # {} THEN End("failed") /\ UNCHANGED <<refs, worktrees>>
       ELSE /\ refs' = [refs EXCEPT ![job.branch] = job.base]
            /\ worktrees' = [worktrees EXCEPT ![job.path] = Registered(job.branch)]
            /\ Step([job EXCEPT !.step = "verify"])
    /\ UNCHANGED <<merging, made>>
\* The new worktree is read back; a failure of any of the reads rolls back.
AllocateVerify ==
    /\ job.step = "verify"
    /\ \/ End("created")
       \/ Step([job EXCEPT !.step = "unadd"])
    /\ UNCHANGED <<refs, worktrees, merging, made>>
\* rollback_allocation: both commands are tried, their results ignored.
RollbackWorktree ==
    /\ job.step = "unadd"
    /\ worktrees' = [worktrees EXCEPT ![job.path] = NoWorktree]
    /\ Step([job EXCEPT !.step = "unbranch"])
    /\ UNCHANGED <<refs, merging, made>>
RollbackBranch ==
    /\ job.step = "unbranch"
    /\ refs' = [refs EXCEPT ![job.branch] = IF CheckedOut(job.branch) THEN @ ELSE {}]
    /\ End("failed")
    /\ UNCHANGED <<worktrees, merging, made>>

-----------------------------------------------------------------------------
(* remove_worktree.                                                         *)

remove_worktree(path, delete) == Begin([step |-> "list", path |-> path, delete |-> delete])
\* The registration: unknown, prunable, locked and detached ones are refused.
RemoveList ==
    LET w == worktrees[job.path] IN
    /\ job.step = "list"
    /\ IF ~Listed(job.path) \/ w.gone \/ w.locked \/ w.branch = "detached" THEN End("refused")
       ELSE Step([step |-> "status", path |-> job.path, delete |-> job.delete, branch |-> w.branch])
    /\ UNCHANGED <<refs, worktrees, merging, made>>
RemoveStatus ==
    /\ job.step = "status"
    /\ IF worktrees[job.path].dirty \/ ~Listed(job.path) THEN End("refused")
       ELSE Step([job EXCEPT !.step = IF job.delete THEN "merged" ELSE "remove"])
    /\ UNCHANGED <<refs, worktrees, merging, made>>
\* The branch to delete is not the root's, and is merged into its HEAD.
RemoveMerged ==
    /\ job.step = "merged"
    /\ IF ListedBranch(RootPath) \in {"detached", job.branch} \/ ~(refs[job.branch] \subseteq HeadOf(RootPath))
       THEN End("refused")
       ELSE Step([job EXCEPT !.step = "remove"])
    /\ UNCHANGED <<refs, worktrees, merging, made>>
\* git worktree remove: git itself refuses dirty and locked ones.
Removable(path) == ~worktrees[path].dirty /\ ~worktrees[path].locked
RemoveWorktree ==
    /\ job.step = "remove"
    /\ IF Listed(job.path) /\ Removable(job.path)
       THEN /\ worktrees' = [worktrees EXCEPT ![job.path] = NoWorktree]
            /\ Step([job EXCEPT !.step = IF job.delete THEN "delete" ELSE "probe_kept"])
       ELSE End("failed") /\ UNCHANGED worktrees
    /\ UNCHANGED <<refs, merging, made>>
\* git branch -d: a branch that is checked out, or not merged into HEAD, stays.
Deletable_Forced(branch) == ~CheckedOut(branch)
Deletable(branch) == ~CheckedOut(branch) /\ refs[branch] \subseteq HeadOf(RootPath)
RemoveBranch ==
    /\ job.step = "delete"
    /\ IF refs[job.branch] # {} /\ Deletable(job.branch)
       THEN refs' = [refs EXCEPT ![job.branch] = {}] /\ End("removed")
       ELSE End("branch_kept") /\ UNCHANGED refs
    /\ UNCHANGED <<worktrees, merging, made>>
RemoveKept ==
    /\ job.step = "probe_kept"
    /\ End(IF refs[job.branch] # {} THEN "removed" ELSE "failed")
    /\ UNCHANGED <<refs, worktrees, merging, made>>

-----------------------------------------------------------------------------
(* check_merge and merge_worktree share their preflight.                    *)

Check(target, source) ==
    Begin([step |-> "resolve", kind |-> "check", target |-> target, source |-> source])
Merge(target, source) ==
    /\ target # source
    /\ Begin([step |-> "checkout", kind |-> "merge", target |-> target, source |-> source])

\* The target is checked out in the root, and clean.
MergeCheckout ==
    /\ job.step = "checkout"
    /\ IF ListedBranch(RootPath) # job.target THEN End("refused")
       ELSE Step([job EXCEPT !.step = "clean"])
    /\ UNCHANGED <<refs, worktrees, merging, made>>
MergeStatus ==
    /\ job.step = "clean"
    /\ IF worktrees[RootPath].dirty \/ merging # {} THEN End("refused")
       ELSE Step([job EXCEPT !.step = "resolve"])
    /\ UNCHANGED <<refs, worktrees, merging, made>>
\* resolve_commit of both names: what everything after it is held against.
Resolve ==
    /\ job.step = "resolve"
    /\ IF refs[job.target] = {} \/ refs[job.source] = {} THEN End("refused")
       ELSE Step([step |-> "preflight", kind |-> job.kind, target |-> job.target, source |-> job.source,
                  previous |-> refs[job.target], joined |-> refs[job.source]])
    /\ UNCHANGED <<refs, worktrees, merging, made>>
\* git merge-tree of the two commits.
Preflight ==
    /\ job.step = "preflight"
    /\ IF job.kind = "merge" /\ ~Mergeable(job.previous, job.joined) THEN End("conflict")
       ELSE Step([job EXCEPT !.step = "recheck"])
    /\ UNCHANGED <<refs, worktrees, merging, made>>
Unmoved_Source == refs[job.source] = job.joined
Unmoved == refs[job.target] = job.previous /\ refs[job.source] = job.joined
Recheck ==
    /\ job.step = "recheck"
    /\ IF ~Unmoved THEN End("stale")
       ELSE IF job.kind = "check"
            THEN End(IF Mergeable(job.previous, job.joined) THEN "mergeable" ELSE "conflict")
            ELSE Step([job EXCEPT !.step = "merge"])
    /\ UNCHANGED <<refs, worktrees, merging, made>>
\* git merge --no-commit onto whatever the root has checked out by now; one
\* that is up to date succeeds and begins nothing.
BeginMerge ==
    /\ job.step = "merge"
    /\ IF worktrees[RootPath].dirty \/ merging # {} \/ ~Mergeable(HeadOf(RootPath), job.joined)
       THEN End("failed") /\ UNCHANGED merging
       ELSE /\ merging' = IF job.joined \subseteq HeadOf(RootPath) THEN {} ELSE job.joined
            /\ Step([job EXCEPT !.step = "again"])
    /\ UNCHANGED <<refs, worktrees, made>>
\* The references again: a moved one aborts the merge, if it still is there.
RecheckMerge ==
    /\ job.step = "again"
    /\ IF Unmoved THEN Step([job EXCEPT !.step = "commit"]) /\ UNCHANGED merging
       ELSE End("stale") /\ merging' = {}
    /\ UNCHANGED <<refs, worktrees, made>>
\* git commit: with nothing begun there is nothing to commit.
CommitMerge ==
    /\ job.step = "commit"
    /\ IF merging = {} THEN End("failed") /\ UNCHANGED <<refs, made>>
       ELSE /\ CanCommit /\ made' = New
            /\ refs' = [refs EXCEPT ![ListedBranch(RootPath)] = @ \cup merging \cup {New}]
            /\ Step([job EXCEPT !.step = "preserved"])
    /\ merging' = {}
    /\ UNCHANGED worktrees
\* The merge is made; a source that has moved on is reported as stale.
Preserved ==
    /\ job.step = "preserved"
    /\ IF refs[job.source] # job.joined THEN End("stale")
       ELSE job' = NoJob /\ report' = [status |-> "merged", target |-> job.target, commit |-> refs[job.target],
                                      previous |-> job.previous, joined |-> job.joined]
    /\ UNCHANGED <<refs, worktrees, merging, made>>

-----------------------------------------------------------------------------
(* People and Agents at work in worktrees and on branches they know of: not *)
(* on what is still being allocated, which a rollback deletes by force.     *)

Allocating == job.step \in {"verify", "unadd", "unbranch"}
Known(branch) == ~(Allocating /\ branch = job.branch)
Workplaces == {p \in DOMAIN worktrees : Listed(p) /\ ~worktrees[p].gone /\ ~(Allocating /\ p = job.path)}

\* git commit; in the root it concludes a merge that was begun there.
Commit(p) ==
    /\ p \in Workplaces /\ ListedBranch(p) # "detached" /\ CanCommit
    /\ made' = New
    /\ refs' = [refs EXCEPT ![ListedBranch(p)] = @ \cup {New} \cup IF p = RootPath THEN merging ELSE {}]
    /\ merging' = IF p = RootPath THEN {} ELSE merging
    /\ worktrees' = [worktrees EXCEPT ![p].dirty = FALSE]
    /\ UNCHANGED <<job, report>>
EditFiles(p) ==
    /\ p \in Workplaces /\ ~worktrees[p].dirty
    /\ worktrees' = [worktrees EXCEPT ![p].dirty = TRUE]
    /\ UNCHANGED <<refs, merging, made, job, report>>
\* git switch: not while merging, and not to a branch checked out elsewhere.
Switch(p, branch) ==
    /\ p \in Workplaces /\ (p = RootPath => merging = {})
    /\ refs[branch] # {} /\ Known(branch) /\ ~CheckedOut(branch) /\ ~worktrees[p].dirty
    /\ ListedBranch(p) # "detached"
    /\ worktrees' = [worktrees EXCEPT ![p].branch = branch]
    /\ UNCHANGED <<refs, merging, made, job, report>>
Lock(p) ==
    /\ p \in Workplaces \ {RootPath}
    /\ worktrees' = [worktrees EXCEPT ![p].locked = ~@]
    /\ UNCHANGED <<refs, merging, made, job, report>>
\* A linked worktree is left at a detached HEAD, or its directory deleted, both
\* with nothing uncommitted in it.
Leave(p) ==
    /\ p \in Workplaces \ {RootPath} /\ ~worktrees[p].dirty /\ ListedBranch(p) # "detached"
    /\ \/ worktrees' = [worktrees EXCEPT ![p].branch = "detached"]
       \/ worktrees' = [worktrees EXCEPT ![p].gone = TRUE]
    /\ UNCHANGED <<refs, merging, made, job, report>>

-----------------------------------------------------------------------------
GitInit ==
    /\ refs = [b \in Branches |-> IF b = Main THEN {1} ELSE {}]
    /\ worktrees = [p \in Paths \cup {RootPath} |-> IF p = RootPath THEN Registered(Main) ELSE NoWorktree]
    /\ merging = {} /\ made = 1 /\ job = NoJob /\ report = [status |-> "none"]

GitCommand ==
    \/ \E p \in Paths, b, c \in Branches : Allocate(p, b, c)
    \/ AllocateProbe \/ AllocateAdd \/ AllocateVerify \/ RollbackWorktree \/ RollbackBranch
    \/ \E p \in Paths, d \in BOOLEAN : remove_worktree(p, d)
    \/ RemoveList \/ RemoveStatus \/ RemoveMerged \/ RemoveWorktree \/ RemoveBranch \/ RemoveKept
    \/ \E a, b \in Branches : Check(a, b) \/ Merge(a, b)
    \/ MergeCheckout \/ MergeStatus \/ Resolve \/ Preflight \/ Recheck
    \/ BeginMerge \/ RecheckMerge \/ CommitMerge \/ Preserved

GitUser ==
    \E p \in Paths \cup {RootPath} :
        Commit(p) \/ EditFiles(p) \/ Lock(p) \/ Leave(p) \/ \E b \in Branches : Switch(p, b)

GitNext == GitCommand \/ GitUser

-----------------------------------------------------------------------------
\* Work is kept: every commit ever made is on some branch, whatever worktrees
\* and branches the commands removed or rolled back meanwhile, and no command
\* removes a worktree with uncommitted work in it.
WorkIsKept ==
    [][/\ \A n \in 1..made : \E b \in Branches : n \in refs'[b]
       /\ \A p \in Paths : worktrees[p].dirty => worktrees'[p] # NoWorktree]_git_vars

\* The branch a merge command names moves, by that command, only from the
\* commit that was preflighted and only to its merge with the source commit
\* that was preflighted, however the references moved between the steps.
MergeIsThePreflighted ==
    [][job.step = "commit" /\ refs'[job.target] # refs[job.target] /\ job' # job =>
           /\ refs[job.target] = job.previous
           /\ refs'[job.target] = job.previous \cup job.joined \cup {made'}
           /\ Mergeable(job.previous, job.joined)]_git_vars

\* A merge that is reported has landed: its commit descends from both.
ReportedMergeLanded ==
    report.status = "merged" => report.joined \subseteq report.commit
=============================================================================
