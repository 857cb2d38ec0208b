---------------------------- MODULE ConfigRuntime ----------------------------
(* The Config Runtime of config/runtime.rs: processes that share a user and *)
(* a project layer file, edit one layer through a revision-bound draft and  *)
(* commit it under file locks, restore a layer from its backup, reload, and *)
(* crash; and a user who edits the files by hand and takes no lock.         *)
(*                                                                          *)
(* A file's content is its document and how its bytes came about: "toml" is *)
(* what to_toml writes, "hand" other text of the same document, "bad" text  *)
(* that does not parse, "none" no file.  The revision is a hash of the      *)
(* bytes, so two contents have one revision exactly when they are equal.    *)
(* Each read, lock and atomic write is a step of its own.                   *)
EXTENDS ConfigFallback

CONSTANTS
    Process,        \* the processes that hold a Config Runtime
    UserFile,       \* the user layer's path, the same for all
    ProjectFile,    \* the project layer's path of each process
    FileRank,       \* the order of the paths of the lock files
    HandDocument,   \* the documents a hand edit may write
    EditablePath,   \* bound: the paths drafts set and reset
    EditableObject, \* bound: the objects drafts create and delete
    Value,          \* the values a path may be set to
    InitialDocument, \* the document of each file at the start
    InitialBackup,  \* and what an earlier commit left in its backup
    MaxDraftEdits,  \* bound: edits of one draft
    MaxWrites,      \* bound: completed commits and restores
    MaxReloads,     \* bound: reloads that are not part of another call
    MaxFaults       \* bound: hand edits, crashes and failed writes

File == {UserFile} \cup {ProjectFile[p] : p \in Process}

ASSUME ConfigAssumption ==
    /\ FileRank \in [File -> Nat]
    /\ \A f, g \in File : FileRank[f] = FileRank[g] => f = g
    /\ EditablePath \subseteq Path
    /\ EditableObject \subseteq Object
    /\ DOMAIN InitialDocument = File
    /\ DOMAIN InitialBackup = File
    /\ {MaxDraftEdits, MaxWrites, MaxReloads, MaxFaults} \subseteq Nat

(* What the type of a layer document guarantees of every document. *)
ASSUME DocumentAssumption ==
    /\ \A document \in HandDocument \cup {InitialDocument[f] : f \in File}
                          \cup {InitialBackup[f].document : f \in File} : IsDocument(document)
    /\ \A m \in Preset : <<"model_presets", m, "fallback">> \in EditablePath
                            => Value[<<"model_presets", m, "fallback">>] \subseteq Seq(Preset)

VARIABLES
    file,       \* what each layer file holds
    backup,     \* what its .bak file holds
    holder,     \* the process that holds its .lock file, if any
    rt,         \* per process: the loaded layers, their issues, last_valid
    draft,      \* per process: the ConfigDraft it works on, if any
    op,         \* per process: the call it is in and what the call has read
    undo,       \* ghost, per file: what the last completed commit replaced
    staged,     \* ghost: files whose backup is newer than their last commit
    count       \* the bounds

vars == <<file, backup, holder, rt, draft, op, undo, staged, count>>

Scope == {"user", "project"}
Missing == [document |-> Empty, bytes |-> "none"]
Bad == [document |-> Empty, bytes |-> "bad"]
exists(content) == content.bytes # "none"
parses(content) == content.bytes # "bad"

for_scope(p, scope) == IF scope = "user" THEN UserFile ELSE ProjectFile[p]

(* Fault: only the file that is written is locked. *)
FilesOf_TargetOnly(p) == {for_scope(p, op[p].scope)}

FilesOf(p) == {UserFile, ProjectFile[p]}

Idle == [name |-> "idle", pc |-> "idle", scope |-> "user",
         user |-> Missing, project |-> Missing, raced |-> FALSE]
Call(name, pc, scope) == [Idle EXCEPT !.name = name, !.pc = pc, !.scope = scope]

(* ConfigRuntime::open starts with no resolved configuration and then loads *)
(* both layers, as reload does.                                             *)
Unopened == [user |-> Missing, project |-> Missing, issues |-> {}, last |-> {}]

status_ready(r) == r.issues = {} /\ r.last # {}

Init ==
    /\ file = [f \in File |-> [document |-> InitialDocument[f], bytes |-> "toml"]]
    /\ backup = InitialBackup
    /\ holder = [f \in File |-> {}]
    /\ rt = [p \in Process |-> Unopened]
    /\ draft = [p \in Process |-> {}]
    /\ op = [p \in Process |-> Call("reload", "load_user", "user")]
    /\ undo = InitialBackup
    /\ staged = {}
    /\ count = [writes |-> 0, reloads |-> 0, faults |-> 0]

At(p, pc) == op[p].pc = pc

(* Return from the call: the locks are dropped with the ConfigLocks value.  *)
Unlocked(p) == [f \in File |-> holder[f] \ {p}]

Return(p) ==
    /\ op' = [op EXCEPT ![p] = Idle]
    /\ holder' = Unlocked(p)

-----------------------------------------------------------------------------
(* Drafts.  begin_draft needs a layer that parsed, not one that resolved.   *)
Loaded(p, scope) == IF scope = "user" THEN rt[p].user ELSE rt[p].project

NewDraft(p, scope, document) ==
    [scope |-> scope, base |-> Loaded(p, scope), document |-> document, edits |-> 0]

begin_draft(p, scope) ==
    /\ At(p, "idle")
    /\ draft[p] = {}
    /\ parses(Loaded(p, scope))
    /\ draft' = [draft EXCEPT ![p] = {NewDraft(p, scope, Loaded(p, scope).document)}]
    /\ UNCHANGED <<file, backup, holder, rt, op, undo, staged, count>>

(* resolve_draft: the draft against the other layer as this process last    *)
(* loaded it.                                                               *)
resolve_draft(p, d) ==
    /\ parses(rt[p].user) /\ parses(rt[p].project)
    /\ Loaded(p, d.scope) = d.base
    /\ IF d.scope = "user"
       THEN resolve_documents(d.document, rt[p].project.document)
       ELSE resolve_documents(rt[p].user.document, d.document)

(* A new preset, accepted from a starter or a discovered model: refused     *)
(* when the last valid configuration has it or lacks the profile.           *)
begin_model_preset(p, scope, m, provider) ==
    LET document == set(set(Loaded(p, scope).document,
                            <<"model_presets", m, "provider">>, provider),
                        <<"model_presets", m, "identity">>, "given")
        d == NewDraft(p, scope, document)
    IN  /\ At(p, "idle")
        /\ draft[p] = {}
        /\ parses(Loaded(p, scope))
        /\ \E pair \in rt[p].last :
              /\ m \notin Ids(Effective(pair.user, pair.project), "model_presets")
              /\ provider \in Ids(Effective(pair.user, pair.project), "providers")
        /\ resolve_draft(p, d)
        /\ draft' = [draft EXCEPT ![p] = {d}]
        /\ UNCHANGED <<file, backup, holder, rt, op, undo, staged, count>>

(* An edit of the draft d that leaves it with this document. *)
Edit(p, d, document) ==
    /\ At(p, "idle")
    /\ d.edits < MaxDraftEdits
    /\ document # d.document
    /\ draft' = [draft EXCEPT ![p] = {[d EXCEPT !.document = document, !.edits = @ + 1]}]
    /\ UNCHANGED <<file, backup, holder, rt, op, undo, staged, count>>

Set(p, path, value) == \E d \in draft[p] : Edit(p, d, set(d.document, path, value))

Reset(p, path) == \E d \in draft[p] : Edit(p, d, reset(d.document, path))

DeleteObject(p, object) ==
    \E d \in draft[p] :
        /\ contains_object(d.document, object)
        /\ Edit(p, d, delete_object(d.document, object))

Discard(p) ==
    /\ At(p, "idle")
    /\ draft[p] # {}
    /\ draft' = [draft EXCEPT ![p] = {}]
    /\ UNCHANGED <<file, backup, holder, rt, op, undo, staged, count>>

-----------------------------------------------------------------------------
(* commit and restore_backup lock both layers' files in path order, with    *)
(* try_lock: a file that is taken ends the call.  A dry run only reads.     *)
Start(p, name, pc, scope) ==
    /\ At(p, "idle")
    /\ count.writes < MaxWrites
    /\ op' = [op EXCEPT ![p] = Call(name, pc, scope)]
    /\ UNCHANGED <<file, backup, holder, rt, draft, undo, staged, count>>

StartCommit(p) == \E d \in draft[p] : Start(p, "commit", "lock_first", d.scope)

StartRestore(p, scope) == Start(p, "restore", "lock_first", scope)

First(p) == CHOOSE f \in FilesOf(p) : \A g \in FilesOf(p) : FileRank[f] <= FileRank[g]
Second(p) == CHOOSE f \in FilesOf(p) : \A g \in FilesOf(p) : FileRank[g] <= FileRank[f]

LockOne(p, f, next) ==
    /\ IF holder[f] \subseteq {p}
       THEN /\ holder' = [holder EXCEPT ![f] = @ \cup {p}]
            /\ op' = [op EXCEPT ![p].pc = next]
       ELSE Return(p)
    /\ UNCHANGED <<file, backup, rt, draft, undo, staged, count>>

LockFirst(p) == At(p, "lock_first") /\ LockOne(p, First(p), "lock_second")

LockSecond(p) == At(p, "lock_second") /\ LockOne(p, Second(p), "user")

(* read_layer of one layer; a restore reads the backup for its own scope.   *)
Source(p, scope) ==
    IF op[p].name = "restore" /\ op[p].scope = scope
    THEN backup[for_scope(p, scope)]
    ELSE file[for_scope(p, scope)]

ReadUser(p) ==
    /\ At(p, "user")
    /\ IF parses(Source(p, "user"))
       THEN /\ op' = [op EXCEPT ![p].pc = "project", ![p].user = Source(p, "user")]
            /\ UNCHANGED holder
       ELSE Return(p)
    /\ UNCHANGED <<file, backup, rt, draft, undo, staged, count>>

(* The layer the call writes, and what it read for that layer.              *)
Target(p) == for_scope(p, op[p].scope)
Current(p) == IF op[p].scope = "user" THEN op[p].user ELSE op[p].project
LastRead(p) == IF op[p].scope = "user" THEN op[p].user ELSE Source(p, "project")

(* The pair a call wants to leave on disk. *)
Resulting(p, document) ==
    IF op[p].scope = "user"
    THEN resolve_documents(document, Source(p, "project").document)
    ELSE resolve_documents(op[p].user.document, document)

(* commit after its second read: the revision, then the pair with the draft *)
(* in place.  An unchanged document is a commit that writes nothing.        *)
CommitIsAdmitted(p, d) ==
    /\ parses(Source(p, "project"))
    /\ LastRead(p) = d.base
    /\ Resulting(p, d.document)

CheckCommit(p) ==
    /\ At(p, "project")
    /\ op[p].name = "commit"
    /\ \E d \in draft[p] :
          IF CommitIsAdmitted(p, d) /\ d.document # LastRead(p).document
          THEN /\ op' = [op EXCEPT ![p].project = Source(p, "project"),
                                   ![p].pc = IF exists(LastRead(p)) THEN "backup" ELSE "write"]
               /\ UNCHANGED <<holder, draft>>
          ELSE /\ Return(p)
               /\ draft' = [draft EXCEPT ![p] = IF CommitIsAdmitted(p, d) THEN {} ELSE @]
    /\ UNCHANGED <<file, backup, rt, undo, staged, count>>

(* restore_backup after its second read: a backup that exists, parses and   *)
(* resolves with the other layer.                                           *)
CheckRestore(p) ==
    /\ At(p, "project")
    /\ op[p].name = "restore"
    /\ IF /\ parses(Source(p, "project"))
          /\ exists(LastRead(p))
          /\ Resulting(p, LastRead(p).document)
       THEN /\ op' = [op EXCEPT ![p].project = Source(p, "project"), ![p].pc = "write"]
            /\ UNCHANGED holder
       ELSE Return(p)
    /\ UNCHANGED <<file, backup, rt, draft, undo, staged, count>>

(* Fault: an existing backup is kept. *)
WriteBackup_KeepsOld(p) ==
    /\ At(p, "backup")
    /\ backup' = [backup EXCEPT ![Target(p)] = IF exists(@) THEN @ ELSE Current(p)]
    /\ staged' = staged \cup {Target(p)}
    /\ op' = [op EXCEPT ![p].pc = "write"]
    /\ UNCHANGED <<file, holder, rt, draft, undo, count>>

WriteBackup(p) ==
    /\ At(p, "backup")
    /\ backup' = [backup EXCEPT ![Target(p)] = Current(p)]
    /\ staged' = staged \cup {Target(p)}
    /\ op' = [op EXCEPT ![p].pc = "write"]
    /\ UNCHANGED <<file, holder, rt, draft, undo, count>>

WriteFile(p) ==
    /\ At(p, "write")
    /\ IF op[p].name = "commit"
       THEN /\ file' = [file EXCEPT ![Target(p)] =
                  [document |-> (CHOOSE d \in draft[p] : TRUE).document, bytes |-> "toml"]]
            /\ undo' = [undo EXCEPT ![Target(p)] = IF exists(Current(p)) THEN Current(p) ELSE @]
            /\ staged' = IF exists(Current(p)) THEN staged \ {Target(p)} ELSE staged
       ELSE /\ file' = [file EXCEPT ![Target(p)] = Current(p)]
            /\ UNCHANGED <<undo, staged>>
    /\ op' = [op EXCEPT ![p] = [Call(@.name, "load_user", @.scope) EXCEPT !.raced = op[p].raced]]
    /\ count' = [count EXCEPT !.writes = @ + 1]
    /\ UNCHANGED <<backup, holder, rt, draft>>

(* A full disk or a path that is not a regular file: the call fails.        *)
WriteFails(p) ==
    /\ op[p].pc \in {"backup", "write"}
    /\ count.faults < MaxFaults
    /\ Return(p)
    /\ count' = [count EXCEPT !.faults = @ + 1]
    /\ UNCHANGED <<file, backup, rt, draft, undo, staged>>

-----------------------------------------------------------------------------
(* reload: on its own without a lock, or as the end of commit and restore.  *)
StartReload(p) ==
    /\ At(p, "idle")
    /\ count.reloads < MaxReloads
    /\ op' = [op EXCEPT ![p] = Call("reload", "load_user", "user")]
    /\ count' = [count EXCEPT !.reloads = @ + 1]
    /\ UNCHANGED <<file, backup, holder, rt, draft, undo, staged>>

LoadUser(p) ==
    /\ At(p, "load_user")
    /\ op' = [op EXCEPT ![p].pc = "load_project", ![p].user = file[UserFile]]
    /\ UNCHANGED <<file, backup, holder, rt, draft, undo, staged, count>>

(* resolve_if_valid: the scopes with an issue.  A layer that does not parse *)
(* has one; a pair that does not resolve blames the user layer when that    *)
(* layer does not resolve by itself, and the project layer otherwise.       *)
Issues(user, project) ==
    IF parses(user) /\ parses(project)
    THEN IF resolve_documents(user.document, project.document) THEN {}
         ELSE IF resolve_documents(user.document, Empty) THEN {"project"} ELSE {"user"}
    ELSE {scope \in Scope : ~parses(IF scope = "user" THEN user ELSE project)}

reload(r, user, project) ==
    [user |-> user, project |-> project, issues |-> Issues(user, project),
     last |-> IF Issues(user, project) = {}
              THEN {[user |-> user.document, project |-> project.document]}
              ELSE r.last]

LoadProject(p) ==
    /\ At(p, "load_project")
    /\ rt' = [rt EXCEPT ![p] = reload(@, op[p].user, file[ProjectFile[p]])]
    /\ draft' = [draft EXCEPT ![p] = IF op[p].name = "commit" THEN {} ELSE @]
    /\ Return(p)
    /\ UNCHANGED <<file, backup, undo, staged, count>>

-----------------------------------------------------------------------------
(* The process dies: the system drops its locks; it starts again with open. *)
Crash(p) ==
    /\ count.faults < MaxFaults
    /\ op' = [op EXCEPT ![p] = Call("reload", "load_user", "user")]
    /\ holder' = Unlocked(p)
    /\ rt' = [rt EXCEPT ![p] = Unopened]
    /\ draft' = [draft EXCEPT ![p] = {}]
    /\ count' = [count EXCEPT !.faults = @ + 1]
    /\ UNCHANGED <<file, backup, undo, staged>>

(* A text editor replaces a layer file, or somebody removes it.  Calls that *)
(* are under way are marked: no lock protects them from this.               *)
HandEdit(f) ==
    /\ count.faults < MaxFaults
    /\ \E content \in {Missing, Bad} \cup [document : HandDocument, bytes : {"hand"}] :
          /\ content # file[f]
          /\ file' = [file EXCEPT ![f] = content]
    /\ op' = [p \in Process |-> [op[p] EXCEPT !.raced = op[p].pc # "idle"]]
    /\ count' = [count EXCEPT !.faults = @ + 1]
    /\ UNCHANGED <<backup, holder, rt, draft, undo, staged>>

Next ==
    \/ \E p \in Process, scope \in Scope :
          \/ begin_draft(p, scope)
          \/ \E m \in Preset, provider \in Profile :
                <<"model_presets", m>> \in EditableObject /\ begin_model_preset(p, scope, m, provider)
          \/ StartRestore(p, scope)
    \/ \E p \in Process :
          \/ \E path \in EditablePath : Reset(p, path) \/ \E v \in Value[path] : Set(p, path, v)
          \/ \E object \in EditableObject : DeleteObject(p, object)
          \/ Discard(p) \/ StartCommit(p) \/ StartReload(p)
          \/ LockFirst(p) \/ LockSecond(p) \/ ReadUser(p)
          \/ CheckCommit(p) \/ CheckRestore(p)
          \/ WriteBackup(p) \/ WriteFile(p) \/ WriteFails(p)
          \/ LoadUser(p) \/ LoadProject(p) \/ Crash(p)
    \/ \E f \in File : HandEdit(f)

Spec == Init /\ [][Next]_vars

-----------------------------------------------------------------------------
(* What the variables hold.  A lock file has at most one holder, and only a *)
(* call that has passed lock_config_paths and not returned holds both.      *)
IsContent(c) == c.bytes \in {"toml", "hand", "bad", "none"} /\ DOMAIN c.document \subseteq Path

Locking == {"user", "project", "backup", "write"}
Loading == {"load_user", "load_project"}

TypeOK ==
    /\ \A f \in File :
          /\ IsContent(file[f]) /\ IsContent(backup[f]) /\ IsContent(undo[f])
          /\ holder[f] \subseteq Process /\ Cardinality(holder[f]) <= 1
    /\ \A p \in Process :
          /\ IsContent(rt[p].user) /\ IsContent(rt[p].project) /\ rt[p].issues \subseteq Scope
          /\ \A d \in draft[p] : d.scope \in Scope /\ IsContent(d.base) /\ d.edits <= MaxDraftEdits
          /\ op[p].name \in {"idle", "reload", "commit", "restore"}
          /\ op[p].pc \in {"idle", "lock_first", "lock_second"} \cup Locking \cup Loading
          /\ op[p].pc \in Locking \/ (op[p].name \in {"commit", "restore"} /\ op[p].pc \in Loading)
                => \A f \in FilesOf(p) : holder[f] = {p}
    /\ staged \subseteq File

(* A commit overwrites nothing but the content its draft was made from      *)
(* (commit: the revision check under both locks), so no process loses what  *)
(* another one committed.  A hand edit made during the call is outside the  *)
(* locks.                                                                   *)
CommitOverwritesItsBase ==
    \A p \in Process : \A d \in draft[p] :
        op[p].name = "commit" /\ op[p].pc \in {"backup", "write"} /\ ~op[p].raced
            => file[Target(p)] = d.base

(* When commit or restore_backup returns having written, the process runs   *)
(* on exactly what is on disk, resolved and without an issue: the pair it   *)
(* checked is the pair it left, because both layers stayed locked.          *)
CommitIsEffective ==
    [][\A p \in Process :
          op[p].name \in {"commit", "restore"} /\ op[p].pc = "load_project"
          /\ ~op[p].raced /\ op'[p].name = "idle"
            => /\ status_ready(rt'[p])
               /\ rt'[p].user = file'[UserFile] /\ rt'[p].project = file'[ProjectFile[p]]]_vars

(* last_valid is always a pair of layers that resolves, whatever a hand     *)
(* edit does to the files, and a runtime that reports ready runs on the     *)
(* layers it loaded last, not on an older pair (reload, status).            *)
ReadyIsCurrent(p) ==
    /\ \A pair \in rt[p].last : resolve_documents(pair.user, pair.project)
    /\ status_ready(rt[p]) =>
          rt[p].last = {[user |-> rt[p].user.document, project |-> rt[p].project.document]}

(* A commit replaces exactly the file its draft was made from, the process  *)
(* runs on what it wrote once it returns, and what a runtime calls ready is *)
(* always its latest load and resolves.                                     *)
CommitsAreExact ==
    /\ []CommitOverwritesItsBase
    /\ [][\A p \in Process : rt'[p] # rt[p] => ReadyIsCurrent(p)']_vars
    /\ CommitIsEffective

(* The backup of a layer is what the last completed commit replaced, across *)
(* crashes, failed writes and restores; only a commit that got as far as    *)
(* its backup and no further leaves a newer one (commit: backup first).     *)
BackupUndoesLastCommit == \A f \in File \ staged : backup[f] = undo[f]

(* The searches do what resolution relies on: whatever a draft makes of the *)
(* fallback lists, a cycle is found exactly when there is one, and over a   *)
(* configuration that resolved the chain of a preset lists each of its      *)
(* candidates once, every one a preset with a Provider to call              *)
(* (validate_fallback_cycles, model_preset_chain).                          *)
FallbackChainsAreExecutable ==
    \A p \in {q \in Process : At(q, "idle")} :
        /\ \A d \in draft[p] :
              FindsWhatIsThere(IF d.scope = "user"
                               THEN Effective(d.document, rt[p].project.document)
                               ELSE Effective(rt[p].user.document, d.document))
        /\ \A pair \in rt[p].last : ListsCandidates(Effective(pair.user, pair.project))

=============================================================================
