------------------------ MODULE ConfigRuntimeProofs ------------------------
(***************************************************************************)
(* Theorems about ConfigRuntime for any number of processes and projects:   *)
(* whatever other processes commit, restore and reload, and wherever one of *)
(* them crashes or fails, a commit overwrites what its draft was made from, *)
(* leaves its process on what it wrote, and leaves a backup of what it      *)
(* replaced.  None of that depends on what documents hold.  The last part   *)
(* does: over any documents, of any number of presets, the searches of the  *)
(* fallback lists find every cycle and list every candidate.                *)
(***************************************************************************)
EXTENDS ConfigRuntime, FoldSums, SequenceTheorems, TLAPS

Writing(p) == op[p].name \in {"commit", "restore"}
Checked == {"backup", "write"}

\* Where a call holds the locks of both layers.
Holding(p) == op[p].pc \in Locking \/ (Writing(p) /\ op[p].pc \in Loading)

IsCall(c) ==
    /\ DOMAIN c = {"name", "pc", "scope", "user", "project", "raced"}
    /\ c.scope \in Scope /\ c.raced \in BOOLEAN
    /\ \/ c.name = "idle" /\ c.pc = "idle"
       \/ c.name = "reload" /\ c.pc \in Loading
       \/ c.name = "commit" /\ c.pc \in {"lock_first", "lock_second"} \cup Locking \cup Loading
       \/ /\ c.name = "restore" /\ c.pc # "backup"
          /\ c.pc \in {"lock_first", "lock_second"} \cup Locking \cup Loading

IsDraft(d) ==
    /\ DOMAIN d = {"scope", "base", "document", "edits"}
    /\ d.scope \in Scope

\* A process has one draft at most, and a commit is of its draft.
CallOK(p) ==
    /\ IsCall(op[p])
    /\ \A d \in draft[p] : IsDraft(d)
    /\ \A d, e \in draft[p] : d = e
    /\ op[p].name = "commit" => draft[p] # {} /\ \A d \in draft[p] : d.scope = op[p].scope

LocksOK(p) ==
    /\ Holding(p) => \A f \in FilesOf(p) : p \in holder[f]
    /\ At(p, "lock_second") => p \in holder[First(p)]

\* The pair with this document in place of the layer to be written.
WouldResolve(p, document) ==
    IF op[p].scope = "user" THEN resolve_documents(document, op[p].project.document)
    ELSE resolve_documents(op[p].user.document, document)

\* What a call has read still is there, unless somebody edited by hand, and it
\* passed the checks.
ReadsOK(p) ==
    /\ op[p].pc \in {"project"} \cup Checked =>
          parses(op[p].user) /\ (~op[p].raced => op[p].user = Source(p, "user"))
    /\ op[p].pc \in Checked =>
          parses(op[p].project) /\ (~op[p].raced => op[p].project = Source(p, "project"))
    /\ op[p].pc \in Checked /\ op[p].name = "commit" =>
          \A d \in draft[p] : Current(p) = d.base /\ WouldResolve(p, d.document)
    /\ op[p].pc \in Checked /\ op[p].name = "restore" => WouldResolve(p, Current(p).document)

\* The backup a commit is about to make good.
BackupOK(p) ==
    op[p].name = "commit" /\ At(p, "write") /\ exists(Current(p)) =>
        backup[Target(p)] = Current(p)

\* The two layers are files of their own: nothing in the code makes them so.
DistinctLayers == \A p \in Process : ProjectFile[p] # UserFile

\* What a commit or a restore is about to load is what it checked.
DiskResolves(p) ==
    /\ parses(file[UserFile]) /\ parses(file[ProjectFile[p]])
    /\ resolve_documents(file[UserFile].document, file[ProjectFile[p]].document)

LoadsOK(p) ==
    Writing(p) /\ op[p].pc \in Loading /\ ~op[p].raced /\ DistinctLayers =>
        DiskResolves(p) /\ (At(p, "load_project") => op[p].user = file[UserFile])

LastOK(p) == \A pair \in rt[p].last : resolve_documents(pair.user, pair.project)

ProcessOK(p) ==
    CallOK(p) /\ LocksOK(p) /\ ReadsOK(p) /\ BackupOK(p) /\ LoadsOK(p) /\ LastOK(p)

Domains ==
    /\ DOMAIN file = File /\ DOMAIN backup = File /\ DOMAIN undo = File
    /\ holder \in [File -> SUBSET Process]
    /\ op = [p \in Process |-> op[p]] /\ draft = [p \in Process |-> draft[p]]
    /\ rt = [p \in Process |-> rt[p]]

LocksExclude == \A f \in File : \A p, q \in holder[f] : p = q

ConfigInv ==
    /\ Domains /\ LocksExclude
    /\ \A p \in Process : ProcessOK(p)
    /\ BackupUndoesLastCommit

-----------------------------------------------------------------------------
(* The locks.                                                                *)

\* lock_config_paths takes the lock files of both layers, in path order.
LEMMA LockOrder ==
    ASSUME NEW p \in Process
    PROVE  /\ First(p) \in FilesOf(p) /\ Second(p) \in FilesOf(p)
           /\ FilesOf(p) \subseteq File /\ FilesOf(p) = {First(p), Second(p)}
  <1> DEFINE u == UserFile
             v == ProjectFile[p]
  <1>1. u \in File /\ v \in File /\ FilesOf(p) = {u, v}
    BY DEF File, FilesOf
  <1>2. FileRank[u] \in Nat /\ FileRank[v] \in Nat /\ (FileRank[u] = FileRank[v] => u = v)
    BY <1>1, ConfigAssumption
  <1> HIDE DEF u, v
  <1>3. /\ \E f \in FilesOf(p) : \A g \in FilesOf(p) : FileRank[f] <= FileRank[g]
        /\ \E f \in FilesOf(p) : \A g \in FilesOf(p) : FileRank[g] <= FileRank[f]
    <2>1. CASE FileRank[u] <= FileRank[v]
      BY <1>1, <1>2, <2>1
    <2>2. CASE FileRank[v] <= FileRank[u]
      BY <1>1, <1>2, <2>2
    <2>3. QED
      BY <1>2, <2>1, <2>2
  <1>4. First(p) \in FilesOf(p) /\ \A g \in FilesOf(p) : FileRank[First(p)] <= FileRank[g]
    BY <1>3 DEF First
  <1>5. Second(p) \in FilesOf(p) /\ \A g \in FilesOf(p) : FileRank[g] <= FileRank[Second(p)]
    BY <1>3 DEF Second
  <1>6. First(p) = Second(p) => u = v
    BY <1>1, <1>2, <1>4, <1>5
  <1>7. QED
    BY <1>1, <1>4, <1>5, <1>6

LEMMA TargetFile ==
    ASSUME NEW p \in Process, NEW scope \in Scope
    PROVE  for_scope(p, scope) \in FilesOf(p) /\ for_scope(p, scope) \in File
  BY DEF for_scope, FilesOf, File

-----------------------------------------------------------------------------
(* Frames.                                                                   *)

\* Nothing a process relies on has changed.
LEMMA Undisturbed ==
    ASSUME NEW p \in Process, ProcessOK(p),
           op'[p] = op[p], draft'[p] = draft[p], rt'[p] = rt[p],
           Holding(p) => \A f \in FilesOf(p) : /\ file'[f] = file[f] /\ backup'[f] = backup[f]
                                               /\ p \in holder'[f],
           At(p, "lock_second") => p \in holder'[First(p)]
    PROVE  ProcessOK(p)'
  <1>1. CallOK(p)'
    BY DEF ProcessOK, CallOK
  <1>2. LocksOK(p)'
    BY DEF ProcessOK, LocksOK, Holding, Writing, At
  <1>3. op[p].scope \in Scope
    BY DEF ProcessOK, CallOK, IsCall
  <1>4. Target(p) \in FilesOf(p) /\ UserFile \in FilesOf(p) /\ ProjectFile[p] \in FilesOf(p)
    BY <1>3, TargetFile DEF Target, FilesOf
  <1>5. op[p].pc \in {"project"} \cup Checked => Holding(p)
    BY DEF Holding, Locking, Checked
  <1>6. Holding(p) => Source(p, "user")' = Source(p, "user")
                      /\ Source(p, "project")' = Source(p, "project")
    BY <1>4 DEF Source, for_scope
  <1>7. Current(p)' = Current(p) /\ Target(p)' = Target(p)
    BY DEF Current, Target
  <1>8. ReadsOK(p)'
    <2>1. \A document : WouldResolve(p, document)' = WouldResolve(p, document)
      BY DEF WouldResolve
    <2>2. ReadsOK(p)
      BY DEF ProcessOK
    <2>3. QED
      BY <1>5, <1>6, <1>7, <2>1, <2>2 DEF ReadsOK, Checked
  <1>9. BackupOK(p)'
    <2>1. At(p, "write") => Holding(p)
      BY DEF At, Holding, Locking
    <2>2. QED
      BY <1>4, <1>7, <2>1 DEF ProcessOK, BackupOK, At
  <1>10. LoadsOK(p)'
    <2>1. Writing(p) /\ op[p].pc \in Loading => Holding(p)
      BY DEF Holding
    <2>2. Writing(p) /\ op[p].pc \in Loading => /\ file'[UserFile] = file[UserFile]
                                                /\ file'[ProjectFile[p]] = file[ProjectFile[p]]
      BY <1>4, <2>1
    <2>3. QED
      BY <2>2 DEF ProcessOK, LoadsOK, DiskResolves, Writing, At
  <1>11. LastOK(p)'
    BY DEF ProcessOK, LastOK
  <1>12. QED
    BY <1>1, <1>2, <1>8, <1>9, <1>10, <1>11 DEF ProcessOK

\* A step changes the call, the draft and the runtime of p only.
OnlyProcess(p) ==
    /\ op' = [q \in Process |-> op'[q]] /\ draft' = [q \in Process |-> draft'[q]]
    /\ rt' = [q \in Process |-> rt'[q]]
    /\ \A q \in Process : q # p => op'[q] = op[q] /\ draft'[q] = draft[q] /\ rt'[q] = rt[q]

LEMMA Except ==
    ASSUME NEW g, g = [q \in Process |-> g[q]], NEW p \in Process, NEW c,
           NEW h, h = [g EXCEPT ![p] = c]
    PROVE  /\ h = [q \in Process |-> h[q]] /\ h[p] = c
           /\ \A q \in Process : q # p => h[q] = g[q]
  <1>1. DOMAIN g = Process
    BY Zenon
  <1>2. h = [q \in Process |-> IF q = p THEN c ELSE g[q]]
    BY <1>1
  <1>3. QED
    BY <1>2

\* Other processes: p gives up no lock of theirs, and changes files and backups
\* only where it holds the lock.
LEMMA OthersOK ==
    ASSUME ConfigInv, NEW p \in Process, OnlyProcess(p),
           \A f \in File : \A q \in holder[f] : q # p => q \in holder'[f],
           \A f \in File : p \notin holder[f] => file'[f] = file[f] /\ backup'[f] = backup[f]
    PROVE  \A q \in Process : q # p => ProcessOK(q)'
  <1> SUFFICES ASSUME NEW q \in Process, q # p PROVE ProcessOK(q)'
    OBVIOUS
  <1>1. ProcessOK(q) /\ LocksOK(q)
    BY DEF ConfigInv, ProcessOK
  <1>2. op'[q] = op[q] /\ draft'[q] = draft[q] /\ rt'[q] = rt[q]
    BY DEF OnlyProcess
  <1>3. ASSUME Holding(q), NEW f \in FilesOf(q)
        PROVE  file'[f] = file[f] /\ backup'[f] = backup[f] /\ q \in holder'[f]
    <2>1. f \in File /\ q \in holder[f]
      BY <1>1, <1>3, LockOrder DEF LocksOK
    <2>2. p \notin holder[f]
      BY <2>1 DEF ConfigInv, LocksExclude
    <2>3. QED
      BY <2>1, <2>2
  <1>4. At(q, "lock_second") => q \in holder'[First(q)]
    BY <1>1, LockOrder DEF LocksOK
  <1>5. QED
    BY <1>1, <1>2, <1>3, <1>4, Undisturbed

\* A step that writes no file: it keeps its locks, or drops them.
LEMMA QuietStep ==
    ASSUME ConfigInv, NEW p \in Process, OnlyProcess(p),
           UNCHANGED <<file, backup, undo, staged>>,
           holder' = holder \/ holder' = Unlocked(p), ProcessOK(p)'
    PROVE  ConfigInv'
  <1>1. holder \in [File -> SUBSET Process] /\ LocksExclude
    BY DEF ConfigInv, Domains
  <1>2. /\ holder' \in [File -> SUBSET Process]
        /\ \A f \in File : holder'[f] \subseteq holder[f]
        /\ \A f \in File : \A q \in holder[f] : q # p => q \in holder'[f]
    BY <1>1 DEF Unlocked
  <1>3. LocksExclude'
    BY <1>1, <1>2 DEF LocksExclude
  <1>4. \A q \in Process : q # p => ProcessOK(q)'
    BY <1>2, OthersOK
  <1>5. Domains'
    BY <1>2 DEF ConfigInv, Domains, OnlyProcess
  <1>6. BackupUndoesLastCommit'
    BY DEF ConfigInv, BackupUndoesLastCommit
  <1>7. QED
    BY <1>3, <1>4, <1>5, <1>6 DEF ConfigInv

\* A process that is in no call, or in one that has read nothing and holds nothing.
LEMMA OutsideOK ==
    ASSUME NEW p \in Process, CallOK(p)', LastOK(p)',
           op'[p].pc \in {"idle", "lock_first"} \/ op'[p].name = "reload"
    PROVE  ProcessOK(p)'
  <1>1. /\ op'[p].pc \notin Locking /\ op'[p].pc # "lock_second"
        /\ ~(op'[p].name \in {"commit", "restore"} /\ op'[p].pc \in Loading)
    BY DEF CallOK, IsCall, Locking, Loading
  <1>2. LocksOK(p)'
    BY <1>1 DEF LocksOK, Holding, Writing, At
  <1>3. ReadsOK(p)'
    BY <1>1 DEF ReadsOK, Checked, Locking
  <1>4. BackupOK(p)'
    BY <1>1 DEF BackupOK, At, Locking
  <1>5. LoadsOK(p)'
    BY <1>1 DEF LoadsOK, Writing
  <1>6. QED
    BY <1>2, <1>3, <1>4, <1>5 DEF ProcessOK

-----------------------------------------------------------------------------
(* Drafts and the calls' beginnings.                                         *)

LEMMA ProcessFacts ==
    ASSUME ConfigInv, NEW p \in Process
    PROVE  /\ ProcessOK(p) /\ CallOK(p) /\ IsCall(op[p]) /\ LastOK(p) /\ LocksOK(p)
           /\ ReadsOK(p) /\ BackupOK(p) /\ LoadsOK(p)
           /\ op = [q \in Process |-> op[q]] /\ draft = [q \in Process |-> draft[q]]
           /\ rt = [q \in Process |-> rt[q]] /\ Domains /\ LocksExclude
  BY DEF ConfigInv, Domains, ProcessOK, CallOK

LEMMA OnlyIntro ==
    ASSUME ConfigInv, NEW p \in Process, NEW c, NEW D, NEW r,
           op' = [op EXCEPT ![p] = c], draft' = [draft EXCEPT ![p] = D],
           rt' = [rt EXCEPT ![p] = r]
    PROVE  OnlyProcess(p) /\ op'[p] = c /\ draft'[p] = D /\ rt'[p] = r
  <1>1. /\ op = [q \in Process |-> op[q]] /\ draft = [q \in Process |-> draft[q]]
        /\ rt = [q \in Process |-> rt[q]]
    BY ProcessFacts
  <1>2. op' = [q \in Process |-> op'[q]] /\ op'[p] = c /\ \A q \in Process : q # p => op'[q] = op[q]
    BY <1>1, Except
  <1>3. /\ draft' = [q \in Process |-> draft'[q]] /\ draft'[p] = D
        /\ \A q \in Process : q # p => draft'[q] = draft[q]
    BY <1>1, Except
  <1>4. rt' = [q \in Process |-> rt'[q]] /\ rt'[p] = r /\ \A q \in Process : q # p => rt'[q] = rt[q]
    BY <1>1, Except
  <1>5. QED
    BY <1>2, <1>3, <1>4 DEF OnlyProcess

\* The same when some of the three are left alone altogether.
LEMMA Unchanged ==
    ASSUME NEW g, g = [q \in Process |-> g[q]], NEW p \in Process
    PROVE  g = [g EXCEPT ![p] = g[p]]
  <1>1. DOMAIN g = Process
    BY Zenon
  <1>2. [g EXCEPT ![p] = g[p]] = [q \in Process |-> g[q]]
    BY <1>1
  <1>3. QED
    BY <1>2

LEMMA CallOnly ==
    ASSUME ConfigInv, NEW p \in Process, NEW c, op' = [op EXCEPT ![p] = c],
           draft' = draft, rt' = rt
    PROVE  OnlyProcess(p) /\ op'[p] = c /\ draft'[p] = draft[p] /\ rt'[p] = rt[p]
  <1>1. draft' = [draft EXCEPT ![p] = draft[p]] /\ rt' = [rt EXCEPT ![p] = rt[p]]
    BY ProcessFacts, Unchanged
  <1>2. QED
    BY <1>1, OnlyIntro

LEMMA IdleCall ==
    IsCall(Idle) /\ Idle.name = "idle" /\ Idle.pc = "idle"
  BY DEF Idle, IsCall, Scope

\* begin_draft, begin_model_preset, the edits and discard.
LEMMA DraftStep ==
    ASSUME ConfigInv, NEW p \in Process, At(p, "idle"), NEW D, \A d \in D : IsDraft(d),
           \A d, e \in D : d = e, draft' = [draft EXCEPT ![p] = D],
           UNCHANGED <<file, backup, holder, rt, op, undo, staged>>
    PROVE  ConfigInv'
  <1>1. op' = [op EXCEPT ![p] = op[p]] /\ rt' = [rt EXCEPT ![p] = rt[p]]
    BY ProcessFacts, Unchanged
  <1>2. OnlyProcess(p) /\ op'[p] = op[p] /\ draft'[p] = D /\ rt'[p] = rt[p]
    BY <1>1, OnlyIntro
  <1>3. op[p].pc = "idle" /\ op[p].name = "idle" /\ IsCall(op[p])
    BY ProcessFacts DEF At, IsCall, Locking, Loading
  <1>4. CallOK(p)'
    BY <1>2, <1>3 DEF CallOK
  <1>5. LastOK(p)'
    BY <1>2, ProcessFacts DEF LastOK
  <1>6. ProcessOK(p)'
    BY <1>2, <1>3, <1>4, <1>5, OutsideOK
  <1>7. QED
    BY <1>2, <1>6, QuietStep

LEMMA NewDraftOK ==
    ASSUME NEW p, NEW scope \in Scope, NEW document
    PROVE  \A d \in {NewDraft(p, scope, document)} : IsDraft(d)
  BY DEF NewDraft, IsDraft

LEMMA BeginDraftStep ==
    ASSUME ConfigInv, NEW p \in Process, NEW scope \in Scope, begin_draft(p, scope)
    PROVE  ConfigInv'
  <1> DEFINE document == Loaded(p, scope).document
             D == {NewDraft(p, scope, document)}
  <1>1. /\ At(p, "idle") /\ draft' = [draft EXCEPT ![p] = D]
        /\ UNCHANGED <<file, backup, holder, rt, op, undo, staged>>
    BY DEF begin_draft
  <1>2. (\A d \in D : IsDraft(d)) /\ (\A d, e \in D : d = e)
    BY NewDraftOK
  <1> HIDE DEF D
  <1>3. QED
    BY <1>1, <1>2, DraftStep

LEMMA BeginModelPresetStep ==
    ASSUME ConfigInv, NEW p \in Process, NEW scope \in Scope, NEW m, NEW provider,
           begin_model_preset(p, scope, m, provider)
    PROVE  ConfigInv'
  <1> DEFINE document == set(set(Loaded(p, scope).document,
                                 <<"model_presets", m, "provider">>, provider),
                             <<"model_presets", m, "identity">>, "given")
             D == {NewDraft(p, scope, document)}
  <1>1. /\ At(p, "idle") /\ draft' = [draft EXCEPT ![p] = D]
        /\ UNCHANGED <<file, backup, holder, rt, op, undo, staged>>
    BY DEF begin_model_preset
  <1> HIDE DEF document
  <1>2. (\A d \in D : IsDraft(d)) /\ (\A d, e \in D : d = e)
    BY NewDraftOK
  <1> HIDE DEF D
  <1>3. QED
    BY <1>1, <1>2, DraftStep

LEMMA EditStep ==
    ASSUME ConfigInv, NEW p \in Process, NEW d \in draft[p], NEW document, Edit(p, d, document)
    PROVE  ConfigInv'
  <1> DEFINE e == [d EXCEPT !.document = document, !.edits = @ + 1]
             D == {e}
  <1>1. /\ At(p, "idle") /\ draft' = [draft EXCEPT ![p] = D]
        /\ UNCHANGED <<file, backup, holder, rt, op, undo, staged>>
    BY DEF Edit
  <1>2. IsDraft(d)
    BY ProcessFacts DEF CallOK
  <1>3. IsDraft(e)
    <2> DEFINE k == d.edits + 1
    <2>1. e = [d EXCEPT !.document = document, !.edits = k]
      BY Zenon
    <2> HIDE DEF k, e
    <2>2. QED
      BY <1>2, <2>1 DEF IsDraft
  <1> HIDE DEF e
  <1>4. (\A x \in D : IsDraft(x)) /\ (\A x, y \in D : x = y)
    BY <1>3
  <1> HIDE DEF D
  <1>5. QED
    BY <1>1, <1>4, DraftStep

LEMMA EditsStep ==
    ASSUME ConfigInv, NEW p \in Process,
           \/ \E path \in EditablePath : Reset(p, path) \/ \E v \in Value[path] : Set(p, path, v)
           \/ \E object \in EditableObject : DeleteObject(p, object)
    PROVE  ConfigInv'
  BY EditStep DEF Reset, Set, DeleteObject

LEMMA DiscardStep ==
    ASSUME ConfigInv, NEW p \in Process, Discard(p)
    PROVE  ConfigInv'
  BY DraftStep DEF Discard

CallFields == {"name", "pc", "scope", "user", "project", "raced"}

LEMMA CallIs ==
    ASSUME NEW n, NEW at, NEW s, NEW c, c = Call(n, at, s)
    PROVE  /\ c.name = n /\ c.pc = at /\ c.scope = s /\ c.raced \in BOOLEAN
           /\ DOMAIN c = CallFields
  BY DEF Call, Idle, CallFields

\* A call that has not read anything yet.
LEMMA StartStep ==
    ASSUME ConfigInv, NEW p \in Process, NEW name, NEW pc, NEW scope \in Scope,
           \/ name \in {"commit", "restore"} /\ pc = "lock_first"
           \/ name = "reload" /\ pc = "load_user",
           name = "commit" => draft[p] # {} /\ \A d \in draft[p] : d.scope = scope,
           op' = [op EXCEPT ![p] = Call(name, pc, scope)],
           UNCHANGED <<file, backup, holder, rt, draft, undo, staged>>
    PROVE  ConfigInv'
  <1>0. PICK c : c = Call(name, pc, scope)
    OBVIOUS
  <1>1. IsCall(c) /\ c.name = name /\ c.pc = pc /\ c.scope = scope
    <2>1. /\ c.name = name /\ c.pc = pc /\ c.scope = scope
          /\ DOMAIN c = CallFields
      BY <1>0, CallIs
    <2>2. c.raced \in BOOLEAN
      BY <1>0, CallIs
    <2>3. QED
      BY <2>1, <2>2 DEF IsCall, CallFields, Locking, Loading
  <1>2. OnlyProcess(p) /\ op'[p] = c /\ draft'[p] = draft[p] /\ rt'[p] = rt[p]
    BY <1>0, CallOnly
  <1>3. CallOK(p)'
    BY <1>1, <1>2, ProcessFacts DEF CallOK
  <1>4. LastOK(p)'
    BY <1>2, ProcessFacts DEF LastOK
  <1>5. ProcessOK(p)'
    BY <1>1, <1>2, <1>3, <1>4, OutsideOK
  <1>6. QED
    BY <1>2, <1>5, QuietStep

LEMMA StartCommitStep ==
    ASSUME ConfigInv, NEW p \in Process, StartCommit(p)
    PROVE  ConfigInv'
  <1>1. PICK d \in draft[p] : Start(p, "commit", "lock_first", d.scope)
    BY DEF StartCommit
  <1>2. d.scope \in Scope /\ \A e \in draft[p] : e.scope = d.scope
    BY ProcessFacts DEF CallOK, IsDraft
  <1>3. QED
    BY <1>1, <1>2, StartStep DEF Start

LEMMA StartRestoreStep ==
    ASSUME ConfigInv, NEW p \in Process, NEW scope \in Scope, StartRestore(p, scope)
    PROVE  ConfigInv'
  BY StartStep DEF StartRestore, Start

LEMMA StartReloadStep ==
    ASSUME ConfigInv, NEW p \in Process, StartReload(p)
    PROVE  ConfigInv'
  <1>1. "user" \in Scope
    BY DEF Scope
  <1>2. QED
    BY <1>1, StartStep DEF StartReload

\* Every way out of a call drops its locks and forgets what it read.
LEMMA ReturnStep ==
    ASSUME ConfigInv, NEW p \in Process, Return(p), NEW D, NEW r,
           D = {} \/ D = draft[p], \A pair \in r.last : resolve_documents(pair.user, pair.project),
           draft' = [draft EXCEPT ![p] = D], rt' = [rt EXCEPT ![p] = r],
           UNCHANGED <<file, backup, undo, staged>>
    PROVE  ConfigInv'
  <1>1. op' = [op EXCEPT ![p] = Idle] /\ holder' = Unlocked(p)
    BY DEF Return
  <1>2. OnlyProcess(p) /\ op'[p] = Idle /\ draft'[p] = D /\ rt'[p] = r
    BY <1>1, OnlyIntro
  <1>3. CallOK(p)'
    BY <1>2, IdleCall, ProcessFacts DEF CallOK
  <1>4. LastOK(p)'
    BY <1>2 DEF LastOK
  <1>5. ProcessOK(p)'
    BY <1>2, <1>3, <1>4, IdleCall, OutsideOK
  <1>6. QED
    BY <1>1, <1>2, <1>5, QuietStep

LEMMA PlainReturn ==
    ASSUME ConfigInv, NEW p \in Process, Return(p),
           UNCHANGED <<file, backup, undo, staged, draft, rt>>
    PROVE  ConfigInv'
  <1>1. draft' = [draft EXCEPT ![p] = draft[p]] /\ rt' = [rt EXCEPT ![p] = rt[p]]
    BY ProcessFacts, Unchanged
  <1>2. \A pair \in rt[p].last : resolve_documents(pair.user, pair.project)
    BY ProcessFacts DEF LastOK
  <1>3. QED
    BY <1>1, <1>2, ReturnStep

-----------------------------------------------------------------------------
(* Inside a call.                                                            *)

\* A call goes on to another place: it keeps its fields.
LEMMA MoveOn ==
    ASSUME ConfigInv, NEW p \in Process, NEW next, op' = [op EXCEPT ![p].pc = next],
           draft' = draft, rt' = rt
    PROVE  /\ OnlyProcess(p) /\ draft'[p] = draft[p] /\ rt'[p] = rt[p]
           /\ DOMAIN op'[p] = CallFields
           /\ op'[p].name = op[p].name /\ op'[p].scope = op[p].scope
           /\ op'[p].user = op[p].user /\ op'[p].project = op[p].project
           /\ op'[p].raced = op[p].raced /\ op'[p].pc = next
  <1>1. PICK c : c = [op[p] EXCEPT !.pc = next]
    OBVIOUS
  <1>2. op' = [op EXCEPT ![p] = c]
    BY <1>1
  <1>3. OnlyProcess(p) /\ op'[p] = c /\ draft'[p] = draft[p] /\ rt'[p] = rt[p]
    BY <1>2, CallOnly
  <1>4. DOMAIN op[p] = CallFields
    BY ProcessFacts DEF IsCall, CallFields
  <1>5. QED
    BY <1>1, <1>3, <1>4 DEF CallFields

ReadInto(p, next, content) == [op EXCEPT ![p].pc = next, ![p].user = content]
CheckedInto(p, next, content) == [op EXCEPT ![p].project = content, ![p].pc = next]

LEMMA ReadOn ==
    ASSUME ConfigInv, NEW p \in Process, NEW next, NEW content,
           op' = ReadInto(p, next, content),
           draft' = draft, rt' = rt
    PROVE  /\ OnlyProcess(p) /\ draft'[p] = draft[p] /\ rt'[p] = rt[p]
           /\ DOMAIN op'[p] = CallFields
           /\ op'[p].name = op[p].name /\ op'[p].scope = op[p].scope
           /\ op'[p].user = content /\ op'[p].project = op[p].project
           /\ op'[p].raced = op[p].raced /\ op'[p].pc = next
  <1>1. PICK c : c = [op[p] EXCEPT !.pc = next, !.user = content]
    OBVIOUS
  <1>0. op = [q \in Process |-> op[q]] /\ DOMAIN op = Process
    BY ProcessFacts, Zenon
  <1>2. op' = [op EXCEPT ![p] = c]
    BY <1>0, <1>1 DEF ReadInto
  <1>3. OnlyProcess(p) /\ op'[p] = c /\ draft'[p] = draft[p] /\ rt'[p] = rt[p]
    BY <1>2, CallOnly
  <1>4. DOMAIN op[p] = CallFields
    BY ProcessFacts DEF IsCall, CallFields
  <1>5. QED
    BY <1>1, <1>3, <1>4 DEF CallFields

LEMMA CheckOn ==
    ASSUME ConfigInv, NEW p \in Process, NEW next, NEW content,
           op' = CheckedInto(p, next, content),
           draft' = draft, rt' = rt
    PROVE  /\ OnlyProcess(p) /\ draft'[p] = draft[p] /\ rt'[p] = rt[p]
           /\ DOMAIN op'[p] = CallFields
           /\ op'[p].name = op[p].name /\ op'[p].scope = op[p].scope
           /\ op'[p].user = op[p].user /\ op'[p].project = content
           /\ op'[p].raced = op[p].raced /\ op'[p].pc = next
  <1>1. PICK c : c = [op[p] EXCEPT !.project = content, !.pc = next]
    OBVIOUS
  <1>0. op = [q \in Process |-> op[q]] /\ DOMAIN op = Process
    BY ProcessFacts, Zenon
  <1>2. op' = [op EXCEPT ![p] = c]
    BY <1>0, <1>1 DEF CheckedInto
  <1>3. OnlyProcess(p) /\ op'[p] = c /\ draft'[p] = draft[p] /\ rt'[p] = rt[p]
    BY <1>2, CallOnly
  <1>4. DOMAIN op[p] = CallFields
    BY ProcessFacts DEF IsCall, CallFields
  <1>5. QED
    BY <1>1, <1>3, <1>4 DEF CallFields

\* What follows for the invariant: the call is where it can be.
LEMMA MovedCall ==
    ASSUME ConfigInv, NEW p \in Process, DOMAIN op'[p] = CallFields,
           op'[p].name = op[p].name, op'[p].scope = op[p].scope, op'[p].raced = op[p].raced,
           draft'[p] = draft[p], rt'[p] = rt[p],
           \/ op[p].name = "commit" /\ op'[p].pc \in {"lock_second"} \cup Locking \cup Loading
           \/ /\ op[p].name = "restore" /\ op'[p].pc # "backup"
              /\ op'[p].pc \in {"lock_second"} \cup Locking \cup Loading
           \/ op[p].name = "reload" /\ op'[p].pc \in Loading
    PROVE  CallOK(p)' /\ LastOK(p)'
  <1>1. IsCall(op[p]) /\ CallOK(p) /\ LastOK(p)
    BY ProcessFacts
  <1>2. IsCall(op'[p])
    BY <1>1 DEF IsCall, CallFields
  <1>3. CallOK(p)'
    BY <1>1, <1>2 DEF CallOK
  <1>4. LastOK(p)'
    BY <1>1 DEF LastOK
  <1>5. QED
    BY <1>3, <1>4

LEMMA PlaceFacts ==
    ASSUME ConfigInv, NEW p \in Process
    PROVE  /\ op[p].pc \in {"lock_first", "lock_second"} \cup Locking => Writing(p)
           /\ op[p].pc = "backup" => op[p].name = "commit"
           /\ op[p].pc \in Locking => \A f \in FilesOf(p) : p \in holder[f]
           /\ op[p].scope \in Scope
  <1>1. IsCall(op[p]) /\ LocksOK(p)
    BY ProcessFacts
  <1>2. QED
    BY <1>1 DEF IsCall, LocksOK, Holding, Writing, Locking, Loading

\* lock_config_paths takes one lock file.
LEMMA LockOneStep ==
    ASSUME ConfigInv, NEW p \in Process, NEW f \in FilesOf(p), NEW next, LockOne(p, f, next),
           \/ At(p, "lock_first") /\ f = First(p) /\ next = "lock_second"
           \/ At(p, "lock_second") /\ f = Second(p) /\ next = "user"
    PROVE  ConfigInv'
  <1>1. CASE ~(holder[f] \subseteq {p})
    BY <1>1, PlainReturn DEF LockOne
  <1>2. CASE holder[f] \subseteq {p}
    <2>1. /\ holder' = [holder EXCEPT ![f] = @ \cup {p}] /\ op' = [op EXCEPT ![p].pc = next]
          /\ UNCHANGED <<file, backup, rt, draft, undo, staged>>
      BY <1>2 DEF LockOne
    <2>2. /\ OnlyProcess(p) /\ draft'[p] = draft[p] /\ rt'[p] = rt[p]
          /\ DOMAIN op'[p] = CallFields
          /\ op'[p].name = op[p].name /\ op'[p].scope = op[p].scope
          /\ op'[p].raced = op[p].raced /\ op'[p].pc = next
      BY <2>1, MoveOn
    <2>3. holder \in [File -> SUBSET Process] /\ LocksExclude /\ f \in File
      BY ProcessFacts, LockOrder DEF Domains
    <2>4. /\ holder' \in [File -> SUBSET Process] /\ p \in holder'[f] /\ holder'[f] = {p}
          /\ \A g \in File : g # f => holder'[g] = holder[g]
      BY <1>2, <2>1, <2>3
    <2>5. LocksExclude'
      BY <2>3, <2>4 DEF LocksExclude
    <2>6. \A g \in File : \A q \in holder[g] : q # p => q \in holder'[g]
      BY <1>2, <2>4
    <2>7. \A q \in Process : q # p => ProcessOK(q)'
      BY <2>1, <2>2, <2>6, OthersOK
    <2>8. CallOK(p)' /\ LastOK(p)'
      <3>1. Writing(p)
        BY PlaceFacts DEF At
      <3>2. QED
        BY <2>2, <3>1, MovedCall DEF Writing, Locking
    <2>9. LocksOK(p)'
      <3>1. CASE next = "lock_second"
        BY <2>2, <2>4, <3>1 DEF LocksOK, Holding, Locking, Loading, At
      <3>2. CASE next = "user"
        <4>1. p \in holder[First(p)] /\ f = Second(p) /\ First(p) \in File
          BY <3>2, ProcessFacts, LockOrder DEF LocksOK, At
        <4>2. \A g \in FilesOf(p) : p \in holder'[g]
          BY <2>4, <4>1, LockOrder
        <4>3. QED
          BY <2>2, <3>2, <4>2 DEF LocksOK, At
      <3>3. QED
        BY <3>1, <3>2
    <2>10. ReadsOK(p)'
      BY <2>2 DEF ReadsOK, Checked
    <2>11. BackupOK(p)' /\ LoadsOK(p)'
      BY <2>2 DEF BackupOK, LoadsOK, At, Loading
    <2>12. Domains'
      BY <2>1, <2>2, <2>4 DEF ConfigInv, Domains, OnlyProcess
    <2>13. BackupUndoesLastCommit'
      BY <2>1 DEF ConfigInv, BackupUndoesLastCommit
    <2>14. ProcessOK(p)'
      BY <2>8, <2>9, <2>10, <2>11 DEF ProcessOK
    <2>15. QED
      BY <2>5, <2>7, <2>12, <2>13, <2>14 DEF ConfigInv
  <1>3. QED
    BY <1>1, <1>2

LEMMA LockSteps ==
    ASSUME ConfigInv, NEW p \in Process, LockFirst(p) \/ LockSecond(p)
    PROVE  ConfigInv'
  BY LockOrder, LockOneStep DEF LockFirst, LockSecond

\* A call that holds its locks goes on to a place where it holds them still.
LEMMA HeldOn ==
    ASSUME ConfigInv, NEW p \in Process, op[p].pc \in Locking, UNCHANGED holder
    PROVE  At(p, "lock_second")' \/ LocksOK(p)'
  <1>1. \A f \in FilesOf(p) : p \in holder'[f]
    BY PlaceFacts
  <1>2. QED
    BY <1>1 DEF LocksOK, At

LEMMA ReadUserStep ==
    ASSUME ConfigInv, NEW p \in Process, ReadUser(p)
    PROVE  ConfigInv'
  <1>1. CASE ~parses(Source(p, "user"))
    BY <1>1, PlainReturn DEF ReadUser
  <1>2. CASE parses(Source(p, "user"))
    <2>s. PICK content : content = Source(p, "user")
      OBVIOUS
    <2>1. /\ op' = ReadInto(p, "project", content)
          /\ UNCHANGED <<file, backup, holder, rt, draft, undo, staged>> /\ op[p].pc = "user"
      BY <1>2, <2>s DEF ReadUser, At, ReadInto
    <2>0. parses(content)
      BY <1>2, <2>s
    <2>2. /\ OnlyProcess(p) /\ draft'[p] = draft[p] /\ rt'[p] = rt[p]
          /\ DOMAIN op'[p] = CallFields
          /\ op'[p].name = op[p].name /\ op'[p].scope = op[p].scope
          /\ op'[p].user = content /\ op'[p].raced = op[p].raced /\ op'[p].pc = "project"
      BY <2>1, ReadOn
    <2>3. CallOK(p)' /\ LastOK(p)'
      <3>1. Writing(p)
        BY <2>1, PlaceFacts DEF Locking
      <3>2. QED
        BY <2>2, <3>1, MovedCall DEF Writing, Locking
    <2>4. LocksOK(p)'
      BY <2>1, <2>2, HeldOn DEF At, Locking
    <2>5. Source(p, "user")' = content
      BY <2>1, <2>2, <2>s DEF Source
    <2>6. ReadsOK(p)'
      BY <2>0, <2>2, <2>5 DEF ReadsOK, Checked
    <2>7. BackupOK(p)' /\ LoadsOK(p)'
      BY <2>2 DEF BackupOK, LoadsOK, At, Loading
    <2>8. ProcessOK(p)'
      BY <2>3, <2>4, <2>6, <2>7 DEF ProcessOK
    <2>9. QED
      BY <2>1, <2>2, <2>8, QuietStep
  <1>3. QED
    BY <1>1, <1>2

\* The end of both checks: what was read last is kept, and the pair it will
\* leave resolves.
LEMMA CheckedStep ==
    ASSUME ConfigInv, NEW p \in Process, At(p, "project"), NEW next \in Checked,
           op' = CheckedInto(p, next, Source(p, "project")),
           UNCHANGED <<file, backup, holder, rt, draft, undo, staged>>,
           parses(Source(p, "project")),
           \/ /\ op[p].name = "commit" /\ (next = "write" => ~exists(LastRead(p)))
              /\ \A d \in draft[p] : LastRead(p) = d.base /\ Resulting(p, d.document)
           \/ /\ op[p].name = "restore" /\ next = "write" /\ Resulting(p, LastRead(p).document)
    PROVE  ConfigInv'
  <1>1. PICK content : content = Source(p, "project")
    OBVIOUS
  <1>2. op' = CheckedInto(p, next, content)
    BY <1>1
  <1>3. /\ OnlyProcess(p) /\ draft'[p] = draft[p] /\ rt'[p] = rt[p]
        /\ DOMAIN op'[p] = CallFields
        /\ op'[p].name = op[p].name /\ op'[p].scope = op[p].scope
        /\ op'[p].user = op[p].user /\ op'[p].project = content
        /\ op'[p].raced = op[p].raced /\ op'[p].pc = next
    BY <1>2, CheckOn
  <1>4. CallOK(p)' /\ LastOK(p)'
    BY <1>3, MovedCall DEF Checked, Locking
  <1>5. LocksOK(p)'
    BY <1>3, HeldOn DEF At, Locking, Checked
  <1>6. Source(p, "user")' = Source(p, "user") /\ Source(p, "project")' = content
    BY <1>1, <1>3 DEF Source
  <1>7. Current(p)' = LastRead(p) /\ \A document : Resulting(p, document) = WouldResolve(p, document)'
    <2>1. Current(p)' = LastRead(p)
      BY <1>1, <1>3 DEF Current, LastRead
    <2>2. \A document : Resulting(p, document) = WouldResolve(p, document)'
      BY <1>1, <1>3 DEF Resulting, WouldResolve
    <2>3. QED
      BY <2>1, <2>2
  <1>8. ReadsOK(p)'
    <2>1. parses(op[p].user) /\ (~op[p].raced => op[p].user = Source(p, "user"))
      BY ProcessFacts DEF ReadsOK, At
    <2>2. parses(op'[p].user) /\ (~op'[p].raced => op'[p].user = Source(p, "user")')
      BY <1>3, <1>6, <2>1
    <2>3. parses(op'[p].project) /\ op'[p].project = Source(p, "project")'
      BY <1>1, <1>3, <1>6
    <2>4. op'[p].name = "commit" => \A d \in draft'[p] : Current(p)' = d.base /\ WouldResolve(p, d.document)'
      BY <1>3, <1>7
    <2>5. op'[p].name = "restore" => WouldResolve(p, Current(p).document)'
      BY <1>3, <1>7
    <2>6. QED
      BY <2>2, <2>3, <2>4, <2>5 DEF ReadsOK
  <1>9. BackupOK(p)'
    BY <1>3, <1>7 DEF BackupOK, At
  <1>10. LoadsOK(p)'
    BY <1>3 DEF LoadsOK, Checked, Loading
  <1>11. ProcessOK(p)'
    BY <1>4, <1>5, <1>8, <1>9, <1>10 DEF ProcessOK
  <1>12. QED
    BY <1>3, <1>11, QuietStep

LEMMA CheckCommitStep ==
    ASSUME ConfigInv, NEW p \in Process, CheckCommit(p)
    PROVE  ConfigInv'
  <1>1. /\ At(p, "project") /\ op[p].name = "commit"
        /\ UNCHANGED <<file, backup, rt, undo, staged>>
    BY DEF CheckCommit
  <1>2. PICK d \in draft[p] :
          IF CommitIsAdmitted(p, d) /\ d.document # LastRead(p).document
          THEN /\ op' = [op EXCEPT ![p].project = Source(p, "project"),
                                   ![p].pc = IF exists(LastRead(p)) THEN "backup" ELSE "write"]
               /\ UNCHANGED <<holder, draft>>
          ELSE /\ Return(p)
               /\ draft' = [draft EXCEPT ![p] = IF CommitIsAdmitted(p, d) THEN {} ELSE @]
    BY DEF CheckCommit
  <1>3. CASE CommitIsAdmitted(p, d) /\ d.document # LastRead(p).document
    <2>1. PICK next : next = IF exists(LastRead(p)) THEN "backup" ELSE "write"
      OBVIOUS
    <2>2. op' = CheckedInto(p, next, Source(p, "project")) /\ UNCHANGED <<holder, draft>>
      BY <1>2, <1>3, <2>1 DEF CheckedInto
    <2>3. next \in Checked /\ (next = "write" => ~exists(LastRead(p)))
      BY <2>1 DEF Checked
    <2>4. parses(Source(p, "project")) /\ LastRead(p) = d.base /\ Resulting(p, d.document)
      BY <1>3 DEF CommitIsAdmitted
    <2>5. \A e \in draft[p] : e = d
      BY ProcessFacts DEF CallOK
    <2>6. QED
      BY <1>1, <2>2, <2>3, <2>4, <2>5, CheckedStep
  <1>4. CASE ~(CommitIsAdmitted(p, d) /\ d.document # LastRead(p).document)
    <2>1. PICK D : D = IF CommitIsAdmitted(p, d) THEN {} ELSE draft[p]
      OBVIOUS
    <2>2. Return(p) /\ draft' = [draft EXCEPT ![p] = D] /\ (D = {} \/ D = draft[p])
      BY <1>2, <1>4, <2>1
    <2>3. rt' = [rt EXCEPT ![p] = rt[p]]
      BY <1>1, ProcessFacts, Unchanged
    <2>4. \A pair \in rt[p].last : resolve_documents(pair.user, pair.project)
      BY ProcessFacts DEF LastOK
    <2>5. QED
      BY <1>1, <2>2, <2>3, <2>4, ReturnStep
  <1>5. QED
    BY <1>3, <1>4

LEMMA CheckRestoreStep ==
    ASSUME ConfigInv, NEW p \in Process, CheckRestore(p)
    PROVE  ConfigInv'
  <1> DEFINE Passes == /\ parses(Source(p, "project")) /\ exists(LastRead(p))
                       /\ Resulting(p, LastRead(p).document)
  <1>1. /\ At(p, "project") /\ op[p].name = "restore"
        /\ UNCHANGED <<file, backup, rt, draft, undo, staged>>
    BY DEF CheckRestore
  <1>2. CASE ~Passes
    <2>1. Return(p)
      BY <1>2 DEF CheckRestore
    <2>2. QED
      BY <1>1, <2>1, PlainReturn
  <1>3. CASE Passes
    <2>1. op' = CheckedInto(p, "write", Source(p, "project")) /\ UNCHANGED holder
      BY <1>3 DEF CheckRestore, CheckedInto
    <2>2. "write" \in Checked
      BY DEF Checked
    <2>3. QED
      BY <1>1, <1>3, <2>1, <2>2, CheckedStep
  <1>4. QED
    BY <1>2, <1>3

\* The backup of a layer is written before the layer, under the layer's lock.
LEMMA WriteBackupStep ==
    ASSUME ConfigInv, NEW p \in Process, WriteBackup(p)
    PROVE  ConfigInv'
  <1>1. /\ op[p].pc = "backup" /\ op[p].name = "commit" /\ op' = [op EXCEPT ![p].pc = "write"]
        /\ backup' = [backup EXCEPT ![Target(p)] = Current(p)] /\ staged' = staged \cup {Target(p)}
        /\ UNCHANGED <<file, holder, rt, draft, undo>>
    BY PlaceFacts DEF WriteBackup, At
  <1>2. /\ OnlyProcess(p) /\ draft'[p] = draft[p] /\ rt'[p] = rt[p]
        /\ DOMAIN op'[p] = CallFields
        /\ op'[p].name = op[p].name /\ op'[p].scope = op[p].scope
        /\ op'[p].user = op[p].user /\ op'[p].project = op[p].project
        /\ op'[p].raced = op[p].raced /\ op'[p].pc = "write"
    BY <1>1, MoveOn
  <1>3. Target(p) \in FilesOf(p) /\ Target(p) \in File
    BY PlaceFacts, TargetFile DEF Target
  <1>4. p \in holder[Target(p)]
    BY <1>1, <1>3, PlaceFacts DEF Locking
  <1>5. /\ DOMAIN backup' = File /\ backup'[Target(p)] = Current(p)
        /\ \A f \in File : f # Target(p) => backup'[f] = backup[f]
    BY <1>1, <1>3, ProcessFacts DEF Domains
  <1>6. \A q \in Process : q # p => ProcessOK(q)'
    BY <1>1, <1>2, <1>4, <1>5, OthersOK
  <1>7. Current(p)' = Current(p) /\ Target(p)' = Target(p)
    BY <1>2 DEF Current, Target
  <1>8. CallOK(p)' /\ LastOK(p)'
    BY <1>1, <1>2, MovedCall DEF Locking
  <1>9. LocksOK(p)'
    BY <1>1, <1>2, HeldOn DEF At, Locking
  <1>10. ReadsOK(p)'
    <2>1. ReadsOK(p)
      BY ProcessFacts
    <2>2. Source(p, "user")' = Source(p, "user") /\ Source(p, "project")' = Source(p, "project")
      BY <1>1, <1>2 DEF Source
    <2>3. \A document : WouldResolve(p, document)' = WouldResolve(p, document)
      BY <1>2 DEF WouldResolve
    <2>4. QED
      BY <1>1, <1>2, <1>7, <2>1, <2>2, <2>3 DEF ReadsOK, Checked
  <1>11. BackupOK(p)'
    BY <1>5, <1>7 DEF BackupOK
  <1>12. LoadsOK(p)'
    BY <1>2 DEF LoadsOK, Loading
  <1>13. ProcessOK(p)'
    BY <1>8, <1>9, <1>10, <1>11, <1>12 DEF ProcessOK
  <1>14. BackupUndoesLastCommit'
    BY <1>1, <1>5 DEF ConfigInv, BackupUndoesLastCommit
  <1>15. Domains' /\ LocksExclude'
    BY <1>1, <1>2, <1>5, ProcessFacts DEF Domains, OnlyProcess, LocksExclude
  <1>16. QED
    BY <1>6, <1>13, <1>14, <1>15 DEF ConfigInv

\* After the write: the call keeps its name, its layer and its mark.
LEMMA WrittenOn ==
    ASSUME ConfigInv, NEW p \in Process, WriteFile(p)
    PROVE  /\ OnlyProcess(p) /\ draft'[p] = draft[p] /\ rt'[p] = rt[p]
           /\ DOMAIN op'[p] = CallFields
           /\ op'[p].name = op[p].name /\ op'[p].scope = op[p].scope
           /\ op'[p].raced = op[p].raced /\ op'[p].pc = "load_user"
  <1>1. PICK b : b = Call(op[p].name, "load_user", op[p].scope)
    OBVIOUS
  <1>2. PICK c : c = [b EXCEPT !.raced = op[p].raced]
    OBVIOUS
  <1>3. op' = [op EXCEPT ![p] = c] /\ draft' = draft /\ rt' = rt
    BY <1>1, <1>2 DEF WriteFile
  <1>4. OnlyProcess(p) /\ op'[p] = c /\ draft'[p] = draft[p] /\ rt'[p] = rt[p]
    BY <1>3, CallOnly
  <1>5. b.name = op[p].name /\ b.pc = "load_user" /\ b.scope = op[p].scope /\ DOMAIN b = CallFields
    BY <1>1, CallIs
  <1>6. c.name = b.name /\ c.pc = b.pc /\ c.scope = b.scope /\ DOMAIN c = CallFields
    BY <1>2, <1>5 DEF CallFields
  <1>7. c.raced = op[p].raced
    BY <1>2, <1>5 DEF CallFields
  <1>8. QED
    BY <1>4, <1>5, <1>6, <1>7

\* Where the two layers differ, the pair on disk is the one that was checked.
LEMMA WrittenResolves ==
    ASSUME ConfigInv, NEW p \in Process, At(p, "write"), ~op[p].raced, DistinctLayers,
           NEW content, file' = [file EXCEPT ![Target(p)] = content], parses(content),
           WouldResolve(p, content.document)
    PROVE  DiskResolves(p)'
  <1>1. op[p].scope \in Scope /\ UserFile \in File /\ ProjectFile[p] \in File /\ DOMAIN file = File
    BY PlaceFacts, ProcessFacts DEF File, Domains
  <1>2. /\ parses(op[p].user) /\ op[p].user = Source(p, "user")
        /\ parses(op[p].project) /\ op[p].project = Source(p, "project")
    BY ProcessFacts DEF ReadsOK, Checked, At
  <1>3. ProjectFile[p] # UserFile
    BY DEF DistinctLayers
  <1>4. CASE op[p].scope = "user"
    <2>1. Target(p) = UserFile /\ op[p].project = file[ProjectFile[p]]
      BY <1>2, <1>4 DEF Target, for_scope, Source
    <2>2. file'[UserFile] = content /\ file'[ProjectFile[p]] = op[p].project
      BY <1>1, <1>3, <2>1
    <2>3. QED
      BY <1>2, <1>4, <2>2 DEF DiskResolves, WouldResolve
  <1>5. CASE op[p].scope = "project"
    <2>1. Target(p) = ProjectFile[p] /\ op[p].user = file[UserFile]
      BY <1>2, <1>5 DEF Target, for_scope, Source
    <2>2. file'[ProjectFile[p]] = content /\ file'[UserFile] = op[p].user
      BY <1>1, <1>3, <2>1
    <2>3. QED
      BY <1>2, <1>5, <2>2 DEF DiskResolves, WouldResolve
  <1>6. QED
    BY <1>1, <1>4, <1>5 DEF Scope

\* The write of either call: only the written file changes, and its backup
\* undoes it.
LEMMA WriteStep ==
    ASSUME ConfigInv, NEW p \in Process, WriteFile(p), NEW content,
           file' = [file EXCEPT ![Target(p)] = content],
           ~op[p].raced => parses(content) /\ WouldResolve(p, content.document),
           DOMAIN undo' = File, BackupUndoesLastCommit'
    PROVE  ConfigInv'
  <1>1. op[p].pc = "write" /\ UNCHANGED <<backup, holder, rt, draft>>
    BY DEF WriteFile, At
  <1>2. /\ OnlyProcess(p) /\ draft'[p] = draft[p] /\ rt'[p] = rt[p]
        /\ DOMAIN op'[p] = CallFields
        /\ op'[p].name = op[p].name /\ op'[p].scope = op[p].scope
        /\ op'[p].raced = op[p].raced /\ op'[p].pc = "load_user"
    BY WrittenOn
  <1>3. Target(p) \in FilesOf(p) /\ Target(p) \in File
    BY PlaceFacts, TargetFile DEF Target
  <1>4. p \in holder[Target(p)] /\ Writing(p)
    BY <1>1, <1>3, PlaceFacts DEF Locking
  <1>5. DOMAIN file' = File /\ \A f \in File : f # Target(p) => file'[f] = file[f]
    BY <1>3, ProcessFacts DEF Domains
  <1>6. \A q \in Process : q # p => ProcessOK(q)'
    BY <1>1, <1>2, <1>4, <1>5, OthersOK
  <1>7. CallOK(p)' /\ LastOK(p)'
    BY <1>2, <1>4, MovedCall DEF Writing, Loading
  <1>8. LocksOK(p)'
    BY <1>1, <1>2, HeldOn DEF At, Locking
  <1>9. ReadsOK(p)' /\ BackupOK(p)'
    BY <1>2 DEF ReadsOK, BackupOK, Checked, At
  <1>10. LoadsOK(p)'
    <2>1. ~op[p].raced /\ DistinctLayers => DiskResolves(p)'
      BY <1>1, WrittenResolves DEF At
    <2>2. QED
      BY <1>2, <2>1 DEF LoadsOK, At, DistinctLayers
  <1>11. ProcessOK(p)'
    BY <1>7, <1>8, <1>9, <1>10 DEF ProcessOK
  <1>12. Domains' /\ LocksExclude'
    BY <1>1, <1>2, <1>5, ProcessFacts DEF Domains, OnlyProcess, LocksExclude
  <1>13. QED
    BY <1>6, <1>11, <1>12 DEF ConfigInv

LEMMA WriteFileStep ==
    ASSUME ConfigInv, NEW p \in Process, WriteFile(p)
    PROVE  ConfigInv'
  <1>1. op[p].pc = "write" /\ UNCHANGED <<backup, holder, rt, draft>> /\ Writing(p)
    BY PlaceFacts DEF WriteFile, At, Locking
  <1>2. ReadsOK(p) /\ BackupOK(p) /\ BackupUndoesLastCommit /\ DOMAIN undo = File
    BY ProcessFacts DEF ConfigInv, Domains
  <1>3. Target(p) \in File
    BY PlaceFacts, TargetFile DEF Target
  <1>4. CASE op[p].name = "commit"
    <2>1. PICK d : d = CHOOSE e \in draft[p] : TRUE
      OBVIOUS
    <2>2. d \in draft[p]
      BY <1>4, <2>1, ProcessFacts DEF CallOK
    <2>3. PICK content : content = [document |-> d.document, bytes |-> "toml"]
      OBVIOUS
    <2>4. /\ file' = [file EXCEPT ![Target(p)] = content]
          /\ undo' = [undo EXCEPT ![Target(p)] = IF exists(Current(p)) THEN Current(p) ELSE @]
          /\ staged' = IF exists(Current(p)) THEN staged \ {Target(p)} ELSE staged
      BY <1>4, <2>1, <2>3 DEF WriteFile
    <2>5. parses(content) /\ WouldResolve(p, content.document)
      <3>1. content.document = d.document /\ content.bytes = "toml"
        BY <2>3
      <3>2. WouldResolve(p, d.document)
        BY <1>1, <1>2, <1>4, <2>2 DEF ReadsOK, Checked
      <3>3. QED
        BY <3>1, <3>2 DEF parses
    <2>6. DOMAIN undo' = File
      BY <1>2, <2>4
    <2>7. BackupUndoesLastCommit'
      <3>1. CASE exists(Current(p))
        <4>1. backup[Target(p)] = Current(p)
          BY <1>1, <1>2, <1>4, <3>1 DEF BackupOK, At
        <4>2. /\ undo'[Target(p)] = Current(p) /\ staged' = staged \ {Target(p)}
              /\ \A f \in File : f # Target(p) => undo'[f] = undo[f]
          BY <1>2, <1>3, <2>4, <3>1
        <4>3. QED
          BY <1>1, <1>2, <4>1, <4>2 DEF BackupUndoesLastCommit
      <3>2. CASE ~exists(Current(p))
        <4>1. staged' = staged /\ \A f \in File : undo'[f] = undo[f]
          BY <1>2, <1>3, <2>4, <3>2
        <4>2. QED
          BY <1>1, <1>2, <4>1 DEF BackupUndoesLastCommit
      <3>3. QED
        BY <3>1, <3>2
    <2>8. QED
      BY <2>4, <2>5, <2>6, <2>7, WriteStep
  <1>5. CASE op[p].name = "restore"
    <2>1. PICK content : content = Current(p)
      OBVIOUS
    <2>2. file' = [file EXCEPT ![Target(p)] = content] /\ UNCHANGED <<undo, staged>>
      BY <1>5, <2>1 DEF WriteFile
    <2>3. parses(content) /\ WouldResolve(p, content.document)
      BY <1>1, <1>2, <1>5, <2>1 DEF ReadsOK, Checked, Current
    <2>4. BackupUndoesLastCommit' /\ DOMAIN undo' = File
      BY <1>1, <1>2, <2>2 DEF BackupUndoesLastCommit
    <2>5. QED
      BY <2>2, <2>3, <2>4, WriteStep
  <1>6. QED
    BY <1>1, <1>4, <1>5 DEF Writing

LEMMA WriteFailsStep ==
    ASSUME ConfigInv, NEW p \in Process, WriteFails(p)
    PROVE  ConfigInv'
  BY PlainReturn DEF WriteFails

-----------------------------------------------------------------------------
(* Loading, crashes and hand edits.                                          *)

LEMMA LoadUserStep ==
    ASSUME ConfigInv, NEW p \in Process, LoadUser(p)
    PROVE  ConfigInv'
  <1>1. PICK content : content = file[UserFile]
    OBVIOUS
  <1>2. /\ op' = ReadInto(p, "load_project", content) /\ op[p].pc = "load_user"
        /\ UNCHANGED <<file, backup, holder, rt, draft, undo, staged>>
    BY <1>1 DEF LoadUser, ReadInto, At
  <1>3. /\ OnlyProcess(p) /\ draft'[p] = draft[p] /\ rt'[p] = rt[p]
        /\ DOMAIN op'[p] = CallFields
        /\ op'[p].name = op[p].name /\ op'[p].scope = op[p].scope
        /\ op'[p].user = content /\ op'[p].raced = op[p].raced /\ op'[p].pc = "load_project"
    BY <1>2, ReadOn
  <1>4. op[p].name \in {"reload", "commit", "restore"}
    BY <1>2, ProcessFacts DEF IsCall
  <1>5. CallOK(p)' /\ LastOK(p)'
    BY <1>3, <1>4, MovedCall DEF Loading
  <1>6. CASE op[p].name = "reload"
    <2>1. ProcessOK(p)'
      BY <1>3, <1>5, <1>6, OutsideOK
    <2>2. QED
      BY <1>2, <1>3, <2>1, QuietStep
  <1>7. CASE Writing(p)
    <2>1. LocksOK(p)'
      <3>1. \A f \in FilesOf(p) : p \in holder'[f]
        BY <1>2, <1>7, ProcessFacts DEF LocksOK, Holding, Loading
      <3>2. QED
        BY <1>3, <3>1 DEF LocksOK, At
    <2>2. ReadsOK(p)' /\ BackupOK(p)'
      BY <1>3 DEF ReadsOK, BackupOK, Checked, At
    <2>3. LoadsOK(p)'
      <3>1. LoadsOK(p)
        BY ProcessFacts
      <3>2. ~op[p].raced /\ DistinctLayers => DiskResolves(p)
        BY <1>2, <1>7, <3>1 DEF LoadsOK, Loading
      <3>3. DiskResolves(p) => DiskResolves(p)'
        BY <1>2 DEF DiskResolves
      <3>4. op'[p].user = file'[UserFile]
        BY <1>1, <1>2, <1>3
      <3>5. QED
        BY <1>3, <3>2, <3>3, <3>4 DEF LoadsOK, DistinctLayers
    <2>4. ProcessOK(p)'
      BY <1>5, <2>1, <2>2, <2>3 DEF ProcessOK
    <2>5. QED
      BY <1>2, <1>3, <2>4, QuietStep
  <1>8. QED
    BY <1>4, <1>6, <1>7 DEF Writing

\* What reload keeps: last_valid is a pair that resolves.
LEMMA ReloadKeeps ==
    ASSUME NEW r, NEW user, NEW project, NEW n, n = reload(r, user, project),
           \A pair \in r.last : resolve_documents(pair.user, pair.project)
    PROVE  /\ \A pair \in n.last : resolve_documents(pair.user, pair.project)
           /\ n.issues = {} => n.last = {[user |-> user.document, project |-> project.document]}
           /\ n.user = user /\ n.project = project /\ n.issues = Issues(user, project)
  <1>1. /\ n.user = user /\ n.project = project /\ n.issues = Issues(user, project)
        /\ n.last = IF Issues(user, project) = {}
                    THEN {[user |-> user.document, project |-> project.document]}
                    ELSE r.last
    BY DEF reload
  <1>2. CASE Issues(user, project) = {}
    <2>1. resolve_documents(user.document, project.document)
      <3>1. CASE parses(user) /\ parses(project)
        BY <1>2, <3>1 DEF Issues
      <3>2. CASE ~parses(user)
        <4>1. "user" \in Issues(user, project)
          BY <3>2 DEF Issues, Scope
        <4>2. QED
          BY <1>2, <4>1
      <3>3. CASE ~parses(project)
        <4>1. "project" \in Issues(user, project)
          BY <3>3 DEF Issues, Scope
        <4>2. QED
          BY <1>2, <4>1
      <3>4. QED
        BY <3>1, <3>2, <3>3
    <2>2. QED
      BY <1>1, <1>2, <2>1
  <1>3. CASE Issues(user, project) # {}
    BY <1>1, <1>3
  <1>4. QED
    BY <1>2, <1>3, <1>1

LEMMA LoadProjectStep ==
    ASSUME ConfigInv, NEW p \in Process, LoadProject(p)
    PROVE  ConfigInv'
  <1>1. PICK r : r = reload(rt[p], op[p].user, file[ProjectFile[p]])
    OBVIOUS
  <1>2. PICK D : D = IF op[p].name = "commit" THEN {} ELSE draft[p]
    OBVIOUS
  <1>3. /\ rt' = [rt EXCEPT ![p] = r] /\ draft' = [draft EXCEPT ![p] = D] /\ Return(p)
        /\ UNCHANGED <<file, backup, undo, staged>> /\ (D = {} \/ D = draft[p])
    BY <1>1, <1>2 DEF LoadProject
  <1>4. \A pair \in r.last : resolve_documents(pair.user, pair.project)
    <2>1. \A pair \in rt[p].last : resolve_documents(pair.user, pair.project)
      BY ProcessFacts DEF LastOK
    <2>2. QED
      BY <1>1, <2>1, ReloadKeeps
  <1>5. QED
    BY <1>3, <1>4, ReturnStep

LEMMA CrashStep ==
    ASSUME ConfigInv, NEW p \in Process, Crash(p)
    PROVE  ConfigInv'
  <1>1. PICK c : c = Call("reload", "load_user", "user")
    OBVIOUS
  <1>2. /\ op' = [op EXCEPT ![p] = c] /\ holder' = Unlocked(p) /\ rt' = [rt EXCEPT ![p] = Unopened]
        /\ draft' = [draft EXCEPT ![p] = {}] /\ UNCHANGED <<file, backup, undo, staged>>
    BY <1>1 DEF Crash
  <1>3. OnlyProcess(p) /\ op'[p] = c /\ draft'[p] = {} /\ rt'[p] = Unopened
    BY <1>2, OnlyIntro
  <1>4. c.name = "reload" /\ IsCall(c)
    <2>1. c.name = "reload" /\ c.pc = "load_user" /\ c.scope = "user" /\ DOMAIN c = CallFields
      BY <1>1, CallIs
    <2>2. c.raced \in BOOLEAN
      BY <1>1, CallIs
    <2>3. QED
      BY <2>1, <2>2 DEF IsCall, CallFields, Loading, Scope
  <1>5. CallOK(p)'
    BY <1>3, <1>4 DEF CallOK
  <1>6. LastOK(p)'
    BY <1>3 DEF LastOK, Unopened
  <1>7. ProcessOK(p)'
    BY <1>3, <1>4, <1>5, <1>6, OutsideOK
  <1>8. QED
    BY <1>2, <1>3, <1>7, QuietStep

\* A hand edit takes no lock: it marks the calls that are under way.
LEMMA HandEditStep ==
    ASSUME ConfigInv, NEW f \in File, HandEdit(f)
    PROVE  ConfigInv'
  <1>1. PICK content : file' = [file EXCEPT ![f] = content]
    BY DEF HandEdit
  <1>2. /\ op' = [p \in Process |-> [op[p] EXCEPT !.raced = op[p].pc # "idle"]]
        /\ UNCHANGED <<backup, holder, rt, draft, undo, staged>>
    BY DEF HandEdit
  <1>3. ASSUME NEW p \in Process PROVE ProcessOK(p)'
    <2>1. PICK b : b = (op[p].pc # "idle")
      OBVIOUS
    <2>2. op'[p] = [op[p] EXCEPT !.raced = b]
      BY <1>2, <2>1
    <2>3. DOMAIN op[p] = CallFields /\ IsCall(op[p]) /\ CallOK(p)
      BY ProcessFacts DEF IsCall, CallFields
    <2>4. /\ DOMAIN op'[p] = CallFields /\ op'[p].name = op[p].name /\ op'[p].pc = op[p].pc
          /\ op'[p].scope = op[p].scope /\ op'[p].user = op[p].user
          /\ op'[p].project = op[p].project /\ op'[p].raced = b
      BY <2>2, <2>3 DEF CallFields
    <2>5. IsCall(op'[p])
      <3>1. op'[p].raced \in BOOLEAN
        BY <2>1, <2>4
      <3>2. QED
        BY <2>3, <2>4, <3>1 DEF IsCall, CallFields
    <2>6. CallOK(p)'
      BY <1>2, <2>3, <2>4, <2>5 DEF CallOK
    <2>7. LocksOK(p)'
      BY <1>2, <2>4, ProcessFacts DEF LocksOK, Holding, Writing, At
    <2>8. op[p].pc # "idle" => op'[p].raced
      BY <2>1, <2>4
    <2>9. /\ Current(p)' = Current(p) /\ Target(p)' = Target(p)
          /\ \A document : WouldResolve(p, document)' = WouldResolve(p, document)
      BY <2>4 DEF Current, Target, WouldResolve
    <2>10. ReadsOK(p)'
      BY <1>2, <2>4, <2>8, <2>9, ProcessFacts DEF ReadsOK, Checked
    <2>11. BackupOK(p)'
      BY <1>2, <2>4, <2>9, ProcessFacts DEF BackupOK, At
    <2>12. LoadsOK(p)'
      BY <2>4, <2>8 DEF LoadsOK, Loading
    <2>13. LastOK(p)'
      BY <1>2, ProcessFacts DEF LastOK
    <2>14. QED
      BY <2>6, <2>7, <2>10, <2>11, <2>12, <2>13 DEF ProcessOK
  <1>4. Domains'
    <2>1. DOMAIN file' = File /\ op' = [p \in Process |-> op'[p]]
      BY <1>1, <1>2 DEF ConfigInv, Domains
    <2>2. QED
      BY <1>2, <2>1 DEF ConfigInv, Domains
  <1>5. LocksExclude' /\ BackupUndoesLastCommit'
    BY <1>2 DEF ConfigInv, LocksExclude, BackupUndoesLastCommit
  <1>6. QED
    BY <1>3, <1>4, <1>5 DEF ConfigInv

-----------------------------------------------------------------------------
(* The invariant.                                                            *)

LEMMA ConfigInit == Init => ConfigInv
  <1> SUFFICES ASSUME Init PROVE ConfigInv
    OBVIOUS
  <1>1. Domains
    <2>1. DOMAIN file = File /\ DOMAIN backup = File /\ DOMAIN undo = File
      BY ConfigAssumption DEF Init
    <2>2. holder \in [File -> SUBSET Process]
      BY DEF Init
    <2>3. op = [p \in Process |-> op[p]]
      BY DEF Init
    <2>4. draft = [p \in Process |-> draft[p]]
      BY DEF Init
    <2>5. rt = [p \in Process |-> rt[p]]
      BY DEF Init
    <2>6. QED
      BY <2>1, <2>2, <2>3, <2>4, <2>5 DEF Domains
  <1>2. LocksExclude /\ BackupUndoesLastCommit
    BY DEF Init, LocksExclude, BackupUndoesLastCommit
  <1>3. ASSUME NEW p \in Process PROVE ProcessOK(p)
    <2>1. op[p] = Call("reload", "load_user", "user") /\ draft[p] = {} /\ rt[p] = Unopened
      BY DEF Init
    <2>2. PICK c : c = op[p]
      OBVIOUS
    <2>3. c.name = "reload" /\ c.pc = "load_user" /\ c.scope = "user" /\ DOMAIN c = CallFields
      BY <2>1, <2>2, CallIs
    <2>4. c.raced \in BOOLEAN
      BY <2>1, <2>2, CallIs
    <2>5. IsCall(c)
      BY <2>3, <2>4 DEF IsCall, CallFields, Loading, Scope
    <2>6. CallOK(p)
      BY <2>1, <2>2, <2>3, <2>5 DEF CallOK
    <2>7. LocksOK(p)
      BY <2>2, <2>3 DEF LocksOK, Holding, Writing, At, Locking
    <2>8. ReadsOK(p) /\ BackupOK(p)
      BY <2>2, <2>3 DEF ReadsOK, BackupOK, Checked, At
    <2>9. LoadsOK(p)
      BY <2>2, <2>3 DEF LoadsOK, Writing
    <2>10. LastOK(p)
      BY <2>1 DEF LastOK, Unopened
    <2>11. QED
      BY <2>6, <2>7, <2>8, <2>9, <2>10 DEF ProcessOK
  <1>4. QED
    BY <1>1, <1>2, <1>3 DEF ConfigInv

LEMMA ConfigStutter ==
    ASSUME ConfigInv, UNCHANGED vars PROVE ConfigInv'
  <1>1. UNCHANGED <<file, backup, holder, rt, draft, op, undo, staged>>
    BY DEF vars
  <1>2. ASSUME NEW p \in Process PROVE ProcessOK(p)'
    <2>1. ProcessOK(p) /\ LocksOK(p)
      BY ProcessFacts
    <2>2. QED
      BY <1>1, <2>1, Undisturbed DEF LocksOK
  <1>3. Domains' /\ LocksExclude' /\ BackupUndoesLastCommit'
    BY <1>1 DEF ConfigInv, Domains, LocksExclude, BackupUndoesLastCommit
  <1>4. QED
    BY <1>2, <1>3 DEF ConfigInv

LEMMA ConfigStep ==
    ASSUME ConfigInv, [Next]_vars
    PROVE  ConfigInv'
  <1>1. CASE UNCHANGED vars
    BY <1>1, ConfigStutter
  <1>2. CASE \E p \in Process, scope \in Scope :
                \/ begin_draft(p, scope)
                \/ \E m \in Preset, provider \in Profile :
                      /\ <<"model_presets", m>> \in EditableObject
                      /\ begin_model_preset(p, scope, m, provider)
                \/ StartRestore(p, scope)
    BY <1>2, BeginDraftStep, BeginModelPresetStep, StartRestoreStep
  <1>3. CASE \E p \in Process :
                \/ \E path \in EditablePath : Reset(p, path) \/ \E v \in Value[path] : Set(p, path, v)
                \/ \E object \in EditableObject : DeleteObject(p, object)
    BY <1>3, EditsStep
  <1>4. CASE \E p \in Process : Discard(p) \/ StartCommit(p) \/ StartReload(p)
                \/ LockFirst(p) \/ LockSecond(p) \/ ReadUser(p)
    BY <1>4, DiscardStep, StartCommitStep, StartReloadStep, LockSteps, ReadUserStep
  <1>5. CASE \E p \in Process : CheckCommit(p) \/ CheckRestore(p)
                \/ WriteBackup(p) \/ WriteFile(p) \/ WriteFails(p)
    BY <1>5, CheckCommitStep, CheckRestoreStep, WriteBackupStep, WriteFileStep, WriteFailsStep
  <1>6. CASE \E p \in Process : LoadUser(p) \/ LoadProject(p) \/ Crash(p)
    BY <1>6, LoadUserStep, LoadProjectStep, CrashStep
  <1>7. CASE \E f \in File : HandEdit(f)
    BY <1>7, HandEditStep
  <1>8. QED
    BY <1>1, <1>2, <1>3, <1>4, <1>5, <1>6, <1>7, Zenon DEF Next

\* The Config Runtime's state stays consistent: a lock file has one holder, a
\* call between its locks and its return holds the locks of both layers, what it
\* read under them is still there unless the user edited by hand, and the pair
\* it is about to write or load is one that resolved (lock_config_paths, commit,
\* restore_backup, reload).
THEOREM ConfigInvariant == Spec => []ConfigInv
  <1>1. ConfigInv /\ [Next]_vars => ConfigInv'
    BY ConfigStep
  <1>2. QED
    BY ConfigInit, <1>1, PTL DEF Spec

\* The .bak file of a layer is what the last completed commit of that layer
\* replaced, whatever crashes, failed writes, restores and other processes'
\* commits lie between; only a commit stopped between its backup and its write
\* leaves a newer one.
THEOREM BackupsUndoLastCommit == Spec => []BackupUndoesLastCommit
  <1>1. ConfigInv => BackupUndoesLastCommit
    BY DEF ConfigInv
  <1>2. QED
    BY <1>1, ConfigInvariant, PTL

LEMMA InvOverwritesBase == ConfigInv => CommitOverwritesItsBase
  <1> SUFFICES ASSUME ConfigInv, NEW p \in Process, NEW d \in draft[p],
                      op[p].name = "commit", op[p].pc \in Checked, ~op[p].raced
               PROVE  file[Target(p)] = d.base
    BY DEF CommitOverwritesItsBase, Checked
  <1>1. /\ op[p].user = Source(p, "user") /\ op[p].project = Source(p, "project")
        /\ Current(p) = d.base
    BY ProcessFacts DEF ReadsOK
  <1>2. op[p].scope \in Scope
    BY PlaceFacts
  <1>3. QED
    BY <1>1, <1>2 DEF Source, Current, Target, for_scope, Scope

\* Between its revision check and its write a commit finds in the layer file
\* what its draft was made from, whatever other processes do meanwhile: no
\* commit overwrites another one it has not seen (commit, lock_config_paths).
\* This holds also where both layers are the same file.
THEOREM CommitsOverwriteTheirBase == Spec => []CommitOverwritesItsBase
  BY InvOverwritesBase, ConfigInvariant, PTL

-----------------------------------------------------------------------------
(* What a returning commit leaves, and what a runtime calls ready.           *)

\* A step that neither loads a layer pair into p nor ends a load of p.
Stays(p) == rt'[p] = rt[p] /\ (At(p, "load_project") => op'[p].name # "idle")

LEMMA ElsewhereStays ==
    ASSUME ConfigInv, NEW p \in Process, NEW q \in Process, ~At(q, "load_project"), rt' = rt,
           NEW c, op' = [op EXCEPT ![q] = c]
    PROVE  Stays(p)
  <1>1. op = [r \in Process |-> op[r]]
    BY ProcessFacts
  <1>2. q # p => op'[p] = op[p]
    BY <1>1, Except
  <1>3. At(p, "load_project") => op[p].name # "idle"
    BY ProcessFacts DEF At, IsCall
  <1>4. QED
    BY <1>2, <1>3 DEF Stays

LEMMA QuietStays ==
    ASSUME ConfigInv, NEW p \in Process, rt' = rt, op' = op
    PROVE  Stays(p)
  <1>1. At(p, "load_project") => op[p].name # "idle"
    BY ProcessFacts DEF At, IsCall
  <1>2. QED
    BY <1>1 DEF Stays

\* Every call before its load: its call is replaced by another one.
LEMMA CallsStay ==
    ASSUME ConfigInv, NEW p \in Process, NEW q \in Process,
           \/ StartCommit(q) \/ (\E scope \in Scope : StartRestore(q, scope)) \/ StartReload(q)
           \/ LockFirst(q) \/ LockSecond(q) \/ ReadUser(q) \/ CheckCommit(q) \/ CheckRestore(q)
           \/ WriteBackup(q) \/ WriteFile(q) \/ WriteFails(q) \/ LoadUser(q)
    PROVE  Stays(p)
  <1>0. DOMAIN op = Process
    <2>1. op = [r \in Process |-> op[r]]
      BY ProcessFacts
    <2>2. QED
      BY <2>1, Zenon
  <1>1. /\ ~At(q, "load_project") /\ rt' = rt
        /\ \E c : op' = [op EXCEPT ![q] = c]
    <2>1. CASE StartCommit(q) \/ (\E scope \in Scope : StartRestore(q, scope)) \/ StartReload(q)
      BY <2>1 DEF StartCommit, StartRestore, StartReload, Start, At
    <2>2. CASE LockFirst(q)
      <3>1. PICK c : c = [op[q] EXCEPT !.pc = "lock_second"]
        OBVIOUS
      <3>2. op' = [op EXCEPT ![q] = c] \/ op' = [op EXCEPT ![q] = Idle]
        BY <1>0, <2>2, <3>1 DEF LockFirst, LockOne, Return
      <3>3. QED
        BY <2>2, <3>2 DEF LockFirst, LockOne, At
    <2>3. CASE LockSecond(q)
      <3>1. PICK c : c = [op[q] EXCEPT !.pc = "user"]
        OBVIOUS
      <3>2. op' = [op EXCEPT ![q] = c] \/ op' = [op EXCEPT ![q] = Idle]
        BY <1>0, <2>3, <3>1 DEF LockSecond, LockOne, Return
      <3>3. QED
        BY <2>3, <3>2 DEF LockSecond, LockOne, At
    <2>4. CASE ReadUser(q)
      <3>1. PICK c : c = [op[q] EXCEPT !.pc = "project", !.user = Source(q, "user")]
        OBVIOUS
      <3>2. op' = [op EXCEPT ![q] = c] \/ op' = [op EXCEPT ![q] = Idle]
        BY <1>0, <2>4, <3>1 DEF ReadUser, Return
      <3>3. QED
        BY <2>4, <3>2 DEF ReadUser, At
    <2>5. CASE CheckCommit(q)
      <3>1. PICK next : next = IF exists(LastRead(q)) THEN "backup" ELSE "write"
        OBVIOUS
      <3>2. PICK c : c = [op[q] EXCEPT !.project = Source(q, "project"), !.pc = next]
        OBVIOUS
      <3>3. \/ op' = [op EXCEPT ![q].project = Source(q, "project"), ![q].pc = next]
            \/ op' = [op EXCEPT ![q] = Idle]
        BY <2>5, <3>1 DEF CheckCommit, Return
      <3>4. op' = [op EXCEPT ![q] = c] \/ op' = [op EXCEPT ![q] = Idle]
        BY <1>0, <3>2, <3>3
      <3>5. QED
        BY <2>5, <3>4 DEF CheckCommit, At
    <2>6. CASE CheckRestore(q)
      <3>1. PICK c : c = [op[q] EXCEPT !.project = Source(q, "project"), !.pc = "write"]
        OBVIOUS
      <3>2. \/ op' = [op EXCEPT ![q].project = Source(q, "project"), ![q].pc = "write"]
            \/ op' = [op EXCEPT ![q] = Idle]
        BY <2>6 DEF CheckRestore, Return
      <3>3. op' = [op EXCEPT ![q] = c] \/ op' = [op EXCEPT ![q] = Idle]
        BY <1>0, <3>1, <3>2
      <3>4. QED
        BY <2>6, <3>3 DEF CheckRestore, At
    <2>7. CASE WriteBackup(q)
      <3>1. PICK c : c = [op[q] EXCEPT !.pc = "write"]
        OBVIOUS
      <3>2. op' = [op EXCEPT ![q] = c]
        BY <1>0, <2>7, <3>1 DEF WriteBackup
      <3>3. QED
        BY <2>7, <3>2 DEF WriteBackup, At
    <2>8. CASE WriteFile(q)
      <3>1. PICK c : c = [Call(op[q].name, "load_user", op[q].scope) EXCEPT !.raced = op[q].raced]
        OBVIOUS
      <3>2. op' = [op EXCEPT ![q] = c]
        BY <2>8, <3>1 DEF WriteFile
      <3>3. QED
        BY <2>8, <3>2 DEF WriteFile, At
    <2>9. CASE WriteFails(q)
      BY <2>9 DEF WriteFails, Return, At
    <2>10. CASE LoadUser(q)
      <3>1. PICK c : c = [op[q] EXCEPT !.pc = "load_project", !.user = file[UserFile]]
        OBVIOUS
      <3>2. op' = [op EXCEPT ![q] = c]
        BY <1>0, <2>10, <3>1 DEF LoadUser
      <3>3. QED
        BY <2>10, <3>2 DEF LoadUser, At
    <2>11. QED
      BY <2>1, <2>2, <2>3, <2>4, <2>5, <2>6, <2>7, <2>8, <2>9, <2>10
  <1>2. QED
    BY <1>1, ElsewhereStays

\* Only LoadProject and a crash change what a process runs on, and only
\* LoadProject ends a load.
LEMMA LoadsOnly ==
    ASSUME ConfigInv, [Next]_vars, NEW p \in Process
    PROVE  \/ Stays(p) \/ LoadProject(p)
           \/ rt'[p] = Unopened /\ op'[p].name = "reload"
  <1>1. CASE UNCHANGED vars
    BY <1>1, QuietStays DEF vars
  <1>2. CASE \E q \in Process, scope \in Scope :
                \/ begin_draft(q, scope)
                \/ \E m \in Preset, provider \in Profile :
                      /\ <<"model_presets", m>> \in EditableObject
                      /\ begin_model_preset(q, scope, m, provider)
                \/ StartRestore(q, scope)
    <2>1. PICK q \in Process, scope \in Scope :
             \/ begin_draft(q, scope)
             \/ \E m \in Preset, provider \in Profile : begin_model_preset(q, scope, m, provider)
             \/ StartRestore(q, scope)
      BY <1>2
    <2>2. CASE StartRestore(q, scope)
      BY <2>2, CallsStay
    <2>3. CASE \/ begin_draft(q, scope)
               \/ \E m \in Preset, provider \in Profile : begin_model_preset(q, scope, m, provider)
      <3>1. rt' = rt /\ op' = op
        BY <2>3 DEF begin_draft, begin_model_preset
      <3>2. QED
        BY <3>1, QuietStays
    <2>4. QED
      BY <2>1, <2>2, <2>3
  <1>3. CASE \E q \in Process :
                \/ \E path \in EditablePath : Reset(q, path) \/ \E v \in Value[path] : Set(q, path, v)
                \/ \E object \in EditableObject : DeleteObject(q, object)
    <2>1. rt' = rt /\ op' = op
      BY <1>3 DEF Reset, Set, DeleteObject, Edit
    <2>2. QED
      BY <2>1, QuietStays
  <1>4. CASE \E q \in Process : Discard(q)
    BY <1>4, QuietStays DEF Discard
  <1>5. CASE \E q \in Process : StartCommit(q) \/ StartReload(q)
                \/ LockFirst(q) \/ LockSecond(q) \/ ReadUser(q) \/ CheckCommit(q) \/ CheckRestore(q)
                \/ WriteBackup(q) \/ WriteFile(q) \/ WriteFails(q) \/ LoadUser(q)
    BY <1>5, CallsStay
  <1>6. ASSUME NEW q \in Process, LoadProject(q) \/ Crash(q)
        PROVE  \/ Stays(p) \/ LoadProject(p)
               \/ rt'[p] = Unopened /\ op'[p].name = "reload"
    <2>1. PICK c, r, D : /\ op' = [op EXCEPT ![q] = c] /\ rt' = [rt EXCEPT ![q] = r]
                         /\ draft' = [draft EXCEPT ![q] = D]
                         /\ LoadProject(q) \/ (r = Unopened /\ c = Call("reload", "load_user", "user"))
      <3>1. CASE LoadProject(q)
        BY <3>1 DEF LoadProject, Return
      <3>2. CASE Crash(q)
        BY <3>2 DEF Crash
      <3>3. QED
        BY <1>6, <3>1, <3>2
    <2>2. OnlyProcess(q) /\ op'[q] = c /\ rt'[q] = r
      BY <2>1, OnlyIntro
    <2>3. CASE q # p
      <3>1. op'[p] = op[p] /\ rt'[p] = rt[p]
        BY <2>2, <2>3 DEF OnlyProcess
      <3>2. At(p, "load_project") => op[p].name # "idle"
        BY ProcessFacts DEF At, IsCall
      <3>3. QED
        BY <3>1, <3>2 DEF Stays
    <2>4. CASE q = p
      <3>1. c = Call("reload", "load_user", "user") => c.name = "reload"
        BY CallIs
      <3>2. QED
        BY <2>1, <2>2, <2>4, <3>1
    <2>5. QED
      BY <2>3, <2>4
  <1>7. CASE \E f \in File : HandEdit(f)
    <2>1. PICK c : c = [op[p] EXCEPT !.raced = op[p].pc # "idle"]
      OBVIOUS
    <2>2. rt' = rt /\ op'[p] = c
      BY <1>7, <2>1 DEF HandEdit
    <2>3. DOMAIN op[p] = CallFields /\ (At(p, "load_project") => op[p].name # "idle")
      BY ProcessFacts DEF IsCall, CallFields, At
    <2>4. c.name = op[p].name
      BY <2>1, <2>3 DEF CallFields
    <2>5. QED
      BY <2>2, <2>3, <2>4 DEF Stays
  <1>8. QED
    BY <1>1, <1>2, <1>3, <1>4, <1>5, <1>6, <1>7, Zenon DEF Next

\* What LoadProject leaves.
LEMMA LoadedPair ==
    ASSUME ConfigInv, NEW p \in Process, LoadProject(p)
    PROVE  /\ ReadyIsCurrent(p)' /\ rt'[p].user = op[p].user
           /\ rt'[p].project = file[ProjectFile[p]] /\ file' = file
           /\ rt'[p].issues = Issues(op[p].user, file[ProjectFile[p]])
           /\ rt'[p].issues = {} => rt'[p].last # {}
  <1>1. PICK r : r = reload(rt[p], op[p].user, file[ProjectFile[p]])
    OBVIOUS
  <1>2. rt' = [rt EXCEPT ![p] = r] /\ file' = file
    BY <1>1 DEF LoadProject
  <1>3. rt = [q \in Process |-> rt[q]]
    BY ProcessFacts
  <1>4. rt'[p] = r
    BY <1>2, <1>3, Except
  <1>5. \A pair \in rt[p].last : resolve_documents(pair.user, pair.project)
    BY ProcessFacts DEF LastOK
  <1>6. /\ \A pair \in r.last : resolve_documents(pair.user, pair.project)
        /\ r.issues = {} => r.last = {[user |-> op[p].user.document,
                                      project |-> file[ProjectFile[p]].document]}
        /\ r.user = op[p].user /\ r.project = file[ProjectFile[p]]
        /\ r.issues = Issues(op[p].user, file[ProjectFile[p]])
    BY <1>1, <1>5, ReloadKeeps
  <1>7. ReadyIsCurrent(p)'
    BY <1>4, <1>6 DEF ReadyIsCurrent, status_ready
  <1>8. r.issues = {} => r.last # {}
    BY <1>6
  <1>9. QED
    BY <1>2, <1>4, <1>6, <1>7, <1>8

\* A commit replaces exactly what its draft was made from; when commit or
\* restore_backup returns having written, the process runs on what is on disk,
\* resolved and without an issue; and a runtime that reports ready runs on the
\* pair it loaded last.  The hypothesis says the user and the project layer are
\* different files: the code accepts overrides that name one file twice, and
\* then the pair a commit checked is not the pair it leaves.
THEOREM CommitsExact == Spec /\ DistinctLayers => CommitsAreExact
  <1> DEFINE ReadyStep == \A p \in Process : rt'[p] # rt[p] => ReadyIsCurrent(p)'
             EffectStep == \A p \in Process :
                 op[p].name \in {"commit", "restore"} /\ op[p].pc = "load_project"
                 /\ ~op[p].raced /\ op'[p].name = "idle"
                   => /\ status_ready(rt'[p])
                      /\ rt'[p].user = file'[UserFile] /\ rt'[p].project = file'[ProjectFile[p]]
  <1>1. ConfigInv /\ [Next]_vars => ReadyStep
    <2> SUFFICES ASSUME ConfigInv, [Next]_vars, NEW p \in Process, rt'[p] # rt[p]
                 PROVE  ReadyIsCurrent(p)'
      OBVIOUS
    <2>1. CASE LoadProject(p)
      BY <2>1, LoadedPair
    <2>2. CASE rt'[p] = Unopened
      <3>1. rt'[p].last = {}
        BY <2>2 DEF Unopened
      <3>2. QED
        BY <3>1 DEF ReadyIsCurrent, status_ready
    <2>3. QED
      BY <2>1, <2>2, LoadsOnly DEF Stays
  <1>2. ConfigInv /\ DistinctLayers /\ [Next]_vars => EffectStep
    <2> SUFFICES ASSUME ConfigInv, DistinctLayers, [Next]_vars, NEW p \in Process, Writing(p),
                        op[p].pc = "load_project", ~op[p].raced, op'[p].name = "idle"
                 PROVE  /\ status_ready(rt'[p])
                        /\ rt'[p].user = file'[UserFile] /\ rt'[p].project = file'[ProjectFile[p]]
      BY DEF Writing
    <2>1. LoadProject(p)
      BY LoadsOnly DEF Stays, At
    <2>2. DiskResolves(p) /\ op[p].user = file[UserFile]
      BY ProcessFacts DEF LoadsOK, Loading, At
    <2>3. Issues(op[p].user, file[ProjectFile[p]]) = {}
      BY <2>2 DEF Issues, DiskResolves
    <2>4. /\ rt'[p].user = op[p].user /\ rt'[p].project = file[ProjectFile[p]] /\ file' = file
          /\ rt'[p].issues = {} /\ rt'[p].last # {}
      BY <2>1, <2>3, LoadedPair
    <2>5. QED
      BY <2>2, <2>4 DEF status_ready
  <1>3. DistinctLayers => DistinctLayers'
    BY DEF DistinctLayers
  <1>4. Spec /\ DistinctLayers => [][ReadyStep]_vars /\ [][EffectStep]_vars
    <2> HIDE DEF ReadyStep, EffectStep
    <2>1. QED
      BY <1>1, <1>2, <1>3, ConfigInvariant, PTL DEF Spec
  <1>5. QED
    BY <1>4, CommitsOverwriteTheirBase, PTL DEF CommitsAreExact, CommitIsEffective

-----------------------------------------------------------------------------
(* The searches over the fallback lists.                                    *)

\* FoldLeft applies a function from left to right.
FoldedBy(it, g, base, q, n) ==
    it = [s \in SUBSET (1..n) |-> IF s = {} THEN base ELSE g[q[Max(s)]][it[s \ {Max(s)}]]]

LEMMA FoldedExists ==
    ASSUME NEW n \in Nat, NEW g, NEW base, NEW q
    PROVE  \E it : FoldedBy(it, g, base, q, n)
  <1> DEFINE One(i, x) == g[q[i]][x]
             T == {j \in 0..n : \E it : FoldedBy(it, g, base, q, j)}
  <1>0. \A it, j : FoldedBy(it, g, base, q, j) <=>
            it = [s \in SUBSET (1..j) |-> IF s = {} THEN base ELSE One(Max(s), it[s \ {Max(s)}])]
    BY Zenon DEF FoldedBy
  <1> HIDE DEF One
  <1>1. 0 \in T
    <2> DEFINE z == [s \in SUBSET (1..0) |-> base]
    <2>1. \A s \in SUBSET (1..0) : s = {}
      OBVIOUS
    <2>2. z = [s \in SUBSET (1..0) |-> IF s = {} THEN base ELSE One(Max(s), z[s \ {Max(s)}])]
      BY <2>1
    <2> HIDE DEF z
    <2>3. FoldedBy(z, g, base, q, 0)
      BY <1>0, <2>2
    <2> QED
      BY <2>3
  <1>2. ASSUME NEW j \in 1..n, j - 1 \in T PROVE j \in T
    <2>1. PICK f : FoldedBy(f, g, base, q, j - 1)
      BY <1>2
    <2>0. f = [s \in SUBSET (1..(j - 1)) |-> IF s = {} THEN base ELSE One(Max(s), f[s \ {Max(s)}])]
      BY <1>0, <2>1
    <2> DEFINE h == [s \in SUBSET (1..j) |-> IF j \in s THEN One(j, f[s \ {j}]) ELSE f[s]]
    <2>2. ASSUME NEW s \in SUBSET (1..j)
          PROVE  h[s] = IF s = {} THEN base ELSE One(Max(s), h[s \ {Max(s)}])
      <3>1. CASE j \in s
        <4>1. Max(s) = j /\ s # {}
          BY <3>1, MaxIsTop
        <4>2. s \ {j} \in SUBSET (1..j) /\ j \notin s \ {j}
          OBVIOUS
        <4>3. h[s \ {j}] = f[s \ {j}]
          BY <4>2
        <4>4. h[s] = One(j, f[s \ {j}])
          BY <3>1
        <4> QED
          BY <4>1, <4>3, <4>4
      <3>2. CASE j \notin s
        <4>1. s \in SUBSET (1..(j - 1))
          BY <3>2
        <4>2. h[s] = f[s]
          BY <3>2
        <4>3. f[s] = IF s = {} THEN base ELSE One(Max(s), f[s \ {Max(s)}])
          BY <2>0, <4>1
        <4>4. s \ {Max(s)} \in SUBSET (1..j) /\ j \notin s \ {Max(s)}
          BY <3>2
        <4>5. h[s \ {Max(s)}] = f[s \ {Max(s)}]
          BY <4>4
        <4> QED
          BY <4>2, <4>3, <4>5
      <3> QED
        BY <3>1, <3>2
    <2>3. h = [s \in SUBSET (1..j) |-> IF s = {} THEN base ELSE One(Max(s), h[s \ {Max(s)}])]
      BY <2>2
    <2> HIDE DEF h
    <2>4. FoldedBy(h, g, base, q, j)
      BY <1>0, <2>3
    <2> QED
      BY <2>4
  <1>3. n \in T
    <2> HIDE DEF T
    <2> QED
      BY <1>1, <1>2, IntervalInduction
  <1> QED
    BY <1>3

Folded(g, base, q) == FoldLeft(LAMBDA r, k : g[k][r], base, q)

Goes(h, g, base, q) ==
    h[0] = base /\ \A i \in 1..Len(q) : h[i] = g[q[i]][h[i - 1]]

LEMMA FoldGoes ==
    ASSUME NEW S, NEW q \in Seq(S), NEW g, NEW base
    PROVE  \E h : Goes(h, g, base, q) /\ Folded(g, base, q) = h[Len(q)]
  <1> DEFINE n == Len(q)
             it == CHOOSE x : FoldedBy(x, g, base, q, n)
             h == [i \in 0..n |-> it[1..i]]
  <1>1. n \in Nat /\ DOMAIN q = 1..n
    OBVIOUS
  <1>2. Folded(g, base, q) = it[1..n]
    BY <1>1, Zenon DEF Folded, FoldLeft, MapThenFoldSet, FoldedBy
  <1> HIDE DEF n
  <1>3. FoldedBy(it, g, base, q, n)
    BY <1>1, FoldedExists, Zenon
  <1> HIDE DEF it
  <1>4. it = [s \in SUBSET (1..n) |-> IF s = {} THEN base ELSE g[q[Max(s)]][it[s \ {Max(s)}]]]
    BY <1>3, Zenon DEF FoldedBy
  <1>5. h[0] = base
    <2>1. {} \in SUBSET (1..n) /\ 1..0 = {} /\ 0 \in 0..n
      BY <1>1
    <2> QED
      BY <1>4, <2>1
  <1>6. ASSUME NEW i \in 1..n PROVE h[i] = g[q[i]][h[i - 1]]
    <2>1. /\ i \in 0..n /\ i - 1 \in 0..n /\ 1..i \in SUBSET (1..n) /\ i \in 1..i /\ i \in Nat
          /\ (1..i) \ {i} = 1..(i - 1)
      BY <1>1
    <2>2. Max(1..i) = i
      BY <2>1, MaxIsTop
    <2>3. it[1..i] = g[q[i]][it[1..(i - 1)]]
      BY <1>4, <2>1, <2>2
    <2> QED
      BY <2>1, <2>3
  <1>7. h[n] = it[1..n]
    BY <1>1
  <1> QED
    BY <1>2, <1>5, <1>6, <1>7 DEF n, Goes

LEMMA FallbackList ==
    ASSUME NEW D, IsDocument(D), NEW m \in Preset
    PROVE  /\ Fallback(D, m) \in Seq(Preset)
           /\ FallbackSet(D, m) = {Fallback(D, m)[i] : i \in 1..Len(Fallback(D, m))}
           /\ FallbackSet(D, m) \subseteq Preset
           /\ FallbackSet(D, m) # {} => m \in Ids(D, "model_presets")
  <1> DEFINE q == Fallback(D, m)
             path == <<"model_presets", m, "fallback">>
  <1>1. q \in Seq(Preset)
    BY DEF IsDocument
  <1>2. q = IF path \in DOMAIN D THEN D[path] ELSE <<>>
    BY DEF Fallback, Has
  <1>3. path \in DOMAIN D => m \in Ids(D, "model_presets")
    <2>1. path[1] = "model_presets" /\ path[2] = m
      OBVIOUS
    <2> HIDE DEF path
    <2> QED
      BY <2>1 DEF Ids
  <1> HIDE DEF path
  <1>4. FallbackSet(D, m) = {q[i] : i \in DOMAIN q}
    BY DEF FallbackSet
  <1> HIDE DEF q
  <1>5. DOMAIN q = 1..Len(q) /\ \A i \in 1..Len(q) : q[i] \in Preset
    BY <1>1
  <1>6. q = <<>> => DOMAIN q = {}
    OBVIOUS
  <1>7. FallbackSet(D, m) # {} => m \in Ids(D, "model_presets")
    BY <1>2, <1>3, <1>4, <1>6
  <1> QED
    BY <1>1, <1>4, <1>5, <1>7 DEF q

\* Some presets that fall back into themselves.
Loops(D, S) == S # {} /\ \A m \in S : FallbackSet(D, m) \cap S # {}
HasLoop(D) == \E S \in SUBSET Ids(D, "model_presets") : Loops(D, S)

\* What a search that found no cycle knows: nothing it completed is on the
\* way, what it completed falls back only to what it completed, and without
\* a loop.
Knows(D, s) ==
    /\ s.active \cap s.complete = {}
    /\ \A m \in s.complete : FallbackSet(D, m) \subseteq s.complete
    /\ \A S \in SUBSET s.complete : ~Loops(D, S)

\* Every preset on the way falls back to another, or to the next.
OnTheWay(D, s, m) == \A k \in s.active : FallbackSet(D, k) \cap (s.active \cup {m}) # {}

\* What a visit of m makes of a search s.
Visited(D, m, s, r) ==
    /\ r \in Search
    /\ r.cycle => HasLoop(D)
    /\ ~r.cycle => /\ Knows(D, r) /\ r.active = s.active
                   /\ s.complete \subseteq r.complete /\ m \in r.complete

\* A call of visit that may go n deep.
VisitsWell(D, v, n) ==
    \A m \in Preset, s \in Search :
        /\ v[m][s] \in Search
        /\ s.cycle => v[m][s] = s
        /\ ~s.cycle /\ Knows(D, s) /\ OnTheWay(D, s, m) /\ Cardinality(s.active) + n > Cardinality(Preset)
              => Visited(D, m, s, v[m][s])

LEMMA SearchIs ==
    ASSUME NEW s \in Search
    PROVE  /\ s = [active |-> s.active, complete |-> s.complete, cycle |-> s.cycle]
           /\ s.active \subseteq Preset /\ s.complete \subseteq Preset /\ s.cycle \in BOOLEAN
  BY DEF Search

LEMMA ASearch ==
    ASSUME NEW A, A \subseteq Preset, NEW C, C \subseteq Preset, NEW c \in BOOLEAN
    PROVE  /\ [active |-> A, complete |-> C, cycle |-> c] \in Search
  BY DEF Search

LEMMA Presets ==
    /\ IsFiniteSet(Preset) /\ Cardinality(Preset) \in Nat
    /\ \A A \in SUBSET Preset : IsFiniteSet(A) /\ Cardinality(A) \in Nat /\ Cardinality(A) <= Cardinality(Preset)
    /\ \A A \in SUBSET Preset : \A m \in Preset \ A : Cardinality(A \cup {m}) = Cardinality(A) + 1
  <1>1. IsFiniteSet(Preset)
    BY CandidatesAssumption
  <1>2. Cardinality(Preset) \in Nat
    BY <1>1, FS_CardinalityType
  <1>3. ASSUME NEW A \in SUBSET Preset
        PROVE  IsFiniteSet(A) /\ Cardinality(A) \in Nat /\ Cardinality(A) <= Cardinality(Preset)
    <2>1. IsFiniteSet(A) /\ Cardinality(A) <= Cardinality(Preset)
      BY <1>1, FS_Subset
    <2> QED
      BY <2>1, FS_CardinalityType
  <1>4. ASSUME NEW A \in SUBSET Preset, NEW m \in Preset \ A
        PROVE  Cardinality(A \cup {m}) = Cardinality(A) + 1
    <2>1. IsFiniteSet(A)
      BY <1>3
    <2> QED
      BY <2>1, FS_AddElement
  <1> QED
    BY <1>1, <1>2, <1>3, <1>4

\* A preset whose fallbacks are complete, and which is on the way, is on no loop.
LEMMA NoLoopThrough ==
    ASSUME NEW D, NEW m, NEW C, m \notin C, FallbackSet(D, m) \subseteq C,
           \A k \in C : FallbackSet(D, k) \subseteq C,
           \A S \in SUBSET C : ~Loops(D, S)
    PROVE  /\ \A k \in C \cup {m} : FallbackSet(D, k) \subseteq C \cup {m}
           /\ \A S \in SUBSET (C \cup {m}) : ~Loops(D, S)
  <1>1. ASSUME NEW S \in SUBSET (C \cup {m}), Loops(D, S) PROVE FALSE
    <2> DEFINE R == S \cap C
    <2>1. S # {} /\ \A k \in S : FallbackSet(D, k) \cap S # {}
      BY <1>1 DEF Loops
    <2>2. CASE R = {}
      <3>1. m \in S /\ S = {m}
        BY <2>1, <2>2
      <3>2. m \in FallbackSet(D, m)
        BY <2>1, <3>1
      <3> QED
        BY <3>2
    <2>3. CASE R # {}
      <3>1. \A k \in R : FallbackSet(D, k) \cap R # {}
        BY <2>1
      <3>2. Loops(D, R) /\ R \in SUBSET C
        BY <2>3, <3>1 DEF Loops
      <3> QED
        BY <3>2
    <2> QED
      BY <2>2, <2>3
  <1> QED
    BY <1>1

\* The searches a visit makes of another.
LEMMA SearchEdits ==
    ASSUME NEW s \in Search, NEW m \in Preset
    PROVE  /\ [s EXCEPT !.active = @ \cup {m}]
                = [active |-> s.active \cup {m}, complete |-> s.complete, cycle |-> s.cycle]
           /\ [s EXCEPT !.cycle = TRUE] = [active |-> s.active, complete |-> s.complete, cycle |-> TRUE]
           /\ [s EXCEPT !.active = @ \ {m}, !.complete = @ \cup {m}]
                = [active |-> s.active \ {m}, complete |-> s.complete \cup {m}, cycle |-> s.cycle]
  <1>1. PICK A, C, c : s = [active |-> A, complete |-> C, cycle |-> c]
    BY DEF Search
  <1>2. s.active = A /\ s.complete = C /\ s.cycle = c
    BY <1>1
  <1>3. [s EXCEPT !.active = @ \cup {m}] = [active |-> A \cup {m}, complete |-> C, cycle |-> c]
    BY <1>1
  <1>4. [s EXCEPT !.cycle = TRUE] = [active |-> A, complete |-> C, cycle |-> TRUE]
    <2>1. ASSUME NEW x PROVE [s EXCEPT !.cycle = x] = [active |-> A, complete |-> C, cycle |-> x]
      BY <1>1
    <2> QED
      BY <2>1, Zenon
  <1>5. [s EXCEPT !.active = @ \ {m}, !.complete = @ \cup {m}]
                = [active |-> A \ {m}, complete |-> C \cup {m}, cycle |-> c]
    <2>1. ASSUME NEW x, NEW y
          PROVE  [s EXCEPT !.active = x, !.complete = y] = [active |-> x, complete |-> y, cycle |-> c]
      <3> DEFINE a == [s EXCEPT !.active = x]
      <3>1. a = [active |-> x, complete |-> C, cycle |-> c]
        BY <1>1
      <3> HIDE DEF a
      <3>2. [a EXCEPT !.complete = y] = [active |-> x, complete |-> y, cycle |-> c]
        BY <3>1
      <3> QED
        BY <3>2, Zenon DEF a
    <2>2. [s EXCEPT !.active = @ \ {m}, !.complete = @ \cup {m}]
            = [active |-> s.active \ {m}, complete |-> s.complete \cup {m}, cycle |-> c]
      BY <2>1, Zenon
    <2> QED
      BY <1>2, <2>2, Zenon
  <1> QED
    BY <1>2, <1>3, <1>4, <1>5

\* One call, when the calls it makes do well.
LEMMA VisitsOn ==
    ASSUME NEW D, IsDocument(D), NEW n \in Nat, NEW g, VisitsWell(D, g, n)
    PROVE  VisitsWell(D, [x \in Preset |-> [y \in Search |-> visit(D, g, x, y)]], n + 1)
  <1> DEFINE v == [x \in Preset |-> [y \in Search |-> visit(D, g, x, y)]]
  <1>v. \A x \in Preset, y \in Search : v[x][y] = visit(D, g, x, y)
    OBVIOUS
  <1> HIDE DEF v
  <1> SUFFICES ASSUME NEW m \in Preset, NEW s \in Search
               PROVE  LET r == visit(D, g, m, s)
                      IN  /\ r \in Search
                          /\ s.cycle => r = s
                          /\ ~s.cycle /\ Knows(D, s) /\ OnTheWay(D, s, m)
                             /\ Cardinality(s.active) + (n + 1) > Cardinality(Preset)
                                => Visited(D, m, s, r)
    BY <1>v, Zenon DEF VisitsWell
  <1> DEFINE q == Fallback(D, m)
             inside == [s EXCEPT !.active = @ \cup {m}]
             below == Folded(g, inside, q)
             found == [s EXCEPT !.cycle = TRUE]
             done == [below EXCEPT !.active = @ \ {m}, !.complete = @ \cup {m}]
             r == visit(D, g, m, s)
  <1>1. r = IF m \in s.complete \/ s.cycle THEN s ELSE IF m \in s.active THEN found ELSE done
    BY Zenon DEF visit, Folded
  <1>2. q \in Seq(Preset) /\ (\A i \in 1..Len(q) : q[i] \in Preset) /\ Len(q) \in Nat
    BY FallbackList
  <1>3. FallbackSet(D, m) = {q[i] : i \in 1..Len(q)}
    BY FallbackList
  <1>4. PICK h : /\ h[0] = inside
                 /\ \A i \in 1..Len(q) : h[i] = g[q[i]][h[i - 1]]
                 /\ below = h[Len(q)]
    <2> HIDE DEF q, inside
    <2>1. PICK h : Goes(h, g, inside, q) /\ below = h[Len(q)]
      BY <1>2, FoldGoes
    <2> QED
      BY <2>1 DEF Goes
  <1>s. /\ s = [active |-> s.active, complete |-> s.complete, cycle |-> s.cycle]
        /\ s.active \subseteq Preset /\ s.complete \subseteq Preset /\ s.cycle \in BOOLEAN
    BY SearchIs
  <1>5. /\ inside = [active |-> s.active \cup {m}, complete |-> s.complete, cycle |-> s.cycle]
        /\ inside.active = s.active \cup {m} /\ inside.complete = s.complete /\ inside.cycle = s.cycle
        /\ inside \in Search
    <2>1. inside = [active |-> s.active \cup {m}, complete |-> s.complete, cycle |-> s.cycle]
      BY SearchEdits
    <2> HIDE DEF inside
    <2> QED
      BY <1>s, <2>1, ASearch
  <1>6. found \in Search /\ found.cycle
    <2>1. found = [active |-> s.active, complete |-> s.complete, cycle |-> TRUE]
      BY SearchEdits
    <2> HIDE DEF found
    <2> QED
      BY <1>s, <2>1, ASearch
  <1> HIDE DEF r, q, inside, below, found
  <1>7. \A i \in 0..Len(q) : h[i] \in Search
    <2> DEFINE T == {i \in 0..Len(q) : h[i] \in Search}
    <2>1. 0 \in T
      <3>1. 0 \in 0..Len(q)
        BY <1>2
      <3> QED
        BY <1>4, <1>5, <3>1
    <2>2. ASSUME NEW i \in 1..Len(q), i - 1 \in T PROVE i \in T
      <3>1. i \in 0..Len(q)
        BY <1>2
      <3> QED
        BY <1>2, <1>4, <2>2, <3>1 DEF VisitsWell
    <2> HIDE DEF T
    <2>3. \A i \in 0..Len(q) : i \in T
      BY <1>2, <2>1, <2>2, IntervalInduction
    <2> QED
      BY <2>3 DEF T
  <1>8. below \in Search
    <2>1. Len(q) \in 0..Len(q)
      BY <1>2
    <2> QED
      BY <1>4, <1>7, <2>1
  <1>b. /\ below = [active |-> below.active, complete |-> below.complete, cycle |-> below.cycle]
        /\ below.active \subseteq Preset /\ below.complete \subseteq Preset /\ below.cycle \in BOOLEAN
    BY <1>8, SearchIs
  <1>9. /\ done = [active |-> below.active \ {m}, complete |-> below.complete \cup {m}, cycle |-> below.cycle]
        /\ done.active = below.active \ {m} /\ done.complete = below.complete \cup {m} /\ done.cycle = below.cycle
        /\ done \in Search
    <2>1. done = [active |-> below.active \ {m}, complete |-> below.complete \cup {m}, cycle |-> below.cycle]
      <3> HIDE DEF below
      <3> QED
        BY <1>8, SearchEdits
    <2> HIDE DEF done
    <2> QED
      BY <1>b, <2>1, ASearch
  <1> HIDE DEF done
  <1>10. r \in Search
    BY <1>1, <1>6, <1>9
  <1>11. s.cycle => r = s
    BY <1>1
  <1>12. ASSUME ~s.cycle, Knows(D, s), OnTheWay(D, s, m),
                Cardinality(s.active) + (n + 1) > Cardinality(Preset)
         PROVE  Visited(D, m, s, r)
    <2>k. /\ s.active \cap s.complete = {}
          /\ \A x \in s.complete : FallbackSet(D, x) \subseteq s.complete
          /\ \A S \in SUBSET s.complete : ~Loops(D, S)
      BY <1>12 DEF Knows
    <2>1. CASE m \in s.complete
      <3>1. r = s
        BY <1>1, <2>1
      <3> QED
        BY <1>12, <2>1, <3>1 DEF Visited
    <2>2. CASE m \notin s.complete /\ m \in s.active
      <3>1. r = found
        BY <1>1, <1>12, <2>2
      <3>2. \A k \in s.active : FallbackSet(D, k) \cap s.active # {}
        BY <1>12, <2>2 DEF OnTheWay
      <3>3. s.active \subseteq Ids(D, "model_presets")
        <4>1. ASSUME NEW k \in s.active PROVE k \in Ids(D, "model_presets")
          <5>1. k \in Preset /\ FallbackSet(D, k) # {}
            BY <1>s, <3>2
          <5> QED
            BY <5>1, FallbackList
        <4> QED
          BY <4>1
      <3>4. HasLoop(D)
        BY <2>2, <3>2, <3>3 DEF HasLoop, Loops
      <3> QED
        BY <1>6, <3>1, <3>4 DEF Visited
    <2>3. CASE m \notin s.complete /\ m \notin s.active
      <3>1. r = done
        BY <1>1, <1>12, <2>3
      <3> DEFINE Good(i) == /\ h[i].cycle => HasLoop(D)
                            /\ ~h[i].cycle => /\ Knows(D, h[i]) /\ h[i].active = s.active \cup {m}
                                              /\ s.complete \subseteq h[i].complete
                                              /\ \A j \in 1..i : q[j] \in h[i].complete
                 T == {i \in 0..Len(q) : Good(i)}
      <3>2. 0 \in T
        <4>1. Knows(D, inside)
          BY <1>5, <2>k, <2>3 DEF Knows
        <4>2. Good(0)
          <5>1. h[0] = inside /\ inside.cycle = s.cycle /\ ~s.cycle
            BY <1>4, <1>5, <1>12
          <5>2. ~inside.cycle /\ inside.active = s.active \cup {m} /\ s.complete \subseteq inside.complete
            BY <1>5, <5>1, Zenon
          <5>3. \A j \in 1..0 : q[j] \in inside.complete
            OBVIOUS
          <5> QED
            BY <4>1, <5>1, <5>2, <5>3, Zenon
        <4> HIDE DEF Good
        <4> QED
          BY <1>2, <4>2
      <3>3. ASSUME NEW i \in 1..Len(q), i - 1 \in T PROVE i \in T
        <4>1. i \in 0..Len(q) /\ i - 1 \in 0..Len(q)
          BY <1>2
        <4> DEFINE a == h[i - 1]
                   c == q[i]
        <4>2. Good(i - 1)
          BY <3>3
        <4>3. h[i] = g[c][a] /\ a \in Search /\ c \in Preset
          BY <1>2, <1>4, <1>7, <4>1
        <4>4. /\ a.cycle => HasLoop(D)
              /\ ~a.cycle => /\ Knows(D, a) /\ a.active = s.active \cup {m}
                             /\ s.complete \subseteq a.complete
                             /\ \A j \in 1..(i - 1) : q[j] \in a.complete
          BY <4>2
        <4> DEFINE b == h[i]
        <4> HIDE DEF a, c, b
        <4>5. CASE a.cycle
          <5>1. b = a
            BY <4>3, <4>5 DEF VisitsWell, b
          <5>2. b.cycle => HasLoop(D)
            BY <4>4, <5>1
          <5>3. Good(i)
            BY <4>5, <5>1, <5>2 DEF b
          <5> HIDE DEF Good
          <5> QED
            BY <4>1, <5>3
        <4>6. CASE ~a.cycle
          <5>1. Cardinality(a.active) + n > Cardinality(Preset)
            <6>1. Cardinality(s.active \cup {m}) = Cardinality(s.active) + 1 /\ Cardinality(s.active) \in Nat
              BY <1>s, <2>3, Presets
            <6>2. Cardinality(Preset) \in Nat
              BY Presets
            <6>3. a.active = s.active \cup {m}
              BY <4>4, <4>6
            <6>4. Cardinality(a.active) = Cardinality(s.active) + 1
              BY <6>1, <6>3
            <6>5. Cardinality(s.active) + (n + 1) > Cardinality(Preset)
              BY <1>12
            <6> DEFINE ca == Cardinality(a.active)
                       cs == Cardinality(s.active)
                       cp == Cardinality(Preset)
            <6>6. ca = cs + 1 /\ cs \in Nat /\ cp \in Nat /\ cs + (n + 1) > cp
              BY <6>1, <6>2, <6>4, <6>5
            <6> HIDE DEF ca, cs, cp
            <6>7. ca + n > cp
              BY <6>6
            <6> QED
              BY <6>7 DEF ca, cp
          <5>2. OnTheWay(D, a, c)
            <6>1. c \in FallbackSet(D, m)
              BY <1>3 DEF c
            <6>2. \A k \in s.active : FallbackSet(D, k) \cap (s.active \cup {m}) # {}
              BY <1>12 DEF OnTheWay
            <6> QED
              BY <4>4, <4>6, <6>1, <6>2 DEF OnTheWay
          <5>3. Visited(D, c, a, b)
            BY <4>3, <4>4, <4>6, <5>1, <5>2 DEF VisitsWell, b
          <5>4. /\ b.cycle => HasLoop(D)
                /\ ~b.cycle => /\ Knows(D, b) /\ b.active = a.active
                               /\ a.complete \subseteq b.complete /\ c \in b.complete
            BY <5>3 DEF Visited
          <5>5. ~b.cycle => \A j \in 1..i : q[j] \in b.complete
            <6>1. \A j \in 1..i : j \in 1..(i - 1) \/ j = i
              BY <1>2
            <6> QED
              BY <4>4, <4>6, <5>4, <6>1 DEF c
          <5>6. Good(i)
            BY <4>4, <4>6, <5>4, <5>5 DEF b
          <5> HIDE DEF Good
          <5> QED
            BY <4>1, <5>6
        <4> QED
          BY <4>5, <4>6
      <3>4. Good(Len(q))
        <4>1. Len(q) \in 0..Len(q)
          BY <1>2
        <4> HIDE DEF T
        <4>2. Len(q) \in T
          BY <1>2, <3>2, <3>3, <4>1, IntervalInduction
        <4> QED
          BY <4>2 DEF T
      <3>5. /\ below.cycle => HasLoop(D)
            /\ ~below.cycle => /\ Knows(D, below) /\ below.active = s.active \cup {m}
                               /\ s.complete \subseteq below.complete
                               /\ \A j \in 1..Len(q) : q[j] \in below.complete
        BY <1>4, <3>4
      <3> HIDE DEF T
      <3>6. ASSUME ~below.cycle PROVE Knows(D, done) /\ done.active = s.active
                                      /\ s.complete \subseteq done.complete /\ m \in done.complete
        <4> DEFINE C == below.complete
        <4>1. /\ below.active \cap C = {}
              /\ \A x \in C : FallbackSet(D, x) \subseteq C
              /\ \A S \in SUBSET C : ~Loops(D, S)
          BY <3>5, <3>6 DEF Knows
        <4>2. m \notin C /\ FallbackSet(D, m) \subseteq C
          BY <1>3, <3>5, <3>6, <4>1
        <4>3. /\ \A k \in C \cup {m} : FallbackSet(D, k) \subseteq C \cup {m}
              /\ \A S \in SUBSET (C \cup {m}) : ~Loops(D, S)
          <5> HIDE DEF C
          <5> QED
            BY <4>1, <4>2, NoLoopThrough
        <4>4. done.active = s.active
          BY <1>9, <2>3, <3>5, <3>6
        <4>5. s.active \cap (C \cup {m}) = {}
          BY <2>3, <3>5, <3>6, <4>1
        <4> QED
          BY <1>9, <3>5, <3>6, <4>3, <4>4, <4>5 DEF Knows
      <3> QED
        BY <1>9, <3>1, <3>5, <3>6 DEF Visited
    <2> QED
      BY <2>1, <2>2, <2>3
  <1> QED
    BY <1>10, <1>11, <1>12 DEF r

\* The calls nested in one another, by how deep they may go.
Bottom(w) == IF w = "visit" THEN [m \in Preset |-> [s \in Search |-> s]]
             ELSE [m \in Preset |-> [c \in Seq(Preset) |-> c]]
Onward(w, D, deeper) ==
    IF w = "visit" THEN [m \in Preset |-> [s \in Search |-> visit(D, deeper, m, s)]]
    ELSE [m \in Preset |-> [c \in Seq(Preset) |-> collect(D, deeper, m, c)]]

IsNested(f, w, D, n) == f = [i \in 0..n |-> IF i = 0 THEN Bottom(w) ELSE Onward(w, D, f[i - 1])]

LEMMA NestedExists ==
    ASSUME NEW w, NEW D, NEW n \in Nat
    PROVE  \E f : IsNested(f, w, D, n)
  <1> DEFINE T == {k \in 0..n : \E f : IsNested(f, w, D, k)}
  <1>1. 0 \in T
    <2> DEFINE f == [i \in 0..0 |-> Bottom(w)]
    <2>1. f = [i \in 0..0 |-> IF i = 0 THEN Bottom(w) ELSE Onward(w, D, f[i - 1])]
      OBVIOUS
    <2> HIDE DEF f
    <2>2. IsNested(f, w, D, 0)
      BY <2>1 DEF IsNested
    <2> QED
      BY <2>2
  <1>2. ASSUME NEW k \in 1..n, k - 1 \in T PROVE k \in T
    <2>1. PICK g : IsNested(g, w, D, k - 1)
      BY <1>2
    <2>2. g = [i \in 0..(k - 1) |-> IF i = 0 THEN Bottom(w) ELSE Onward(w, D, g[i - 1])]
      BY <2>1 DEF IsNested
    <2> DEFINE f == [i \in 0..k |-> IF i = k THEN Onward(w, D, g[k - 1]) ELSE g[i]]
    <2>3. /\ \A i \in 0..(k - 1) : f[i] = g[i]
          /\ f[k] = Onward(w, D, g[k - 1])
          /\ DOMAIN f = 0..k
      OBVIOUS
    <2>4. f = [i \in 0..k |-> f[i]]
      OBVIOUS
    <2> HIDE DEF f
    <2>5. \A i \in 0..k : f[i] = IF i = 0 THEN Bottom(w) ELSE Onward(w, D, f[i - 1])
      <3>1. ASSUME NEW i \in 0..(k - 1)
            PROVE  f[i] = IF i = 0 THEN Bottom(w) ELSE Onward(w, D, f[i - 1])
        <4>1. i # 0 => i - 1 \in 0..(k - 1)
          OBVIOUS
        <4>2. g[i] = IF i = 0 THEN Bottom(w) ELSE Onward(w, D, g[i - 1])
          BY <2>2
        <4> QED
          BY <2>3, <4>1, <4>2
      <3>2. f[k] = Onward(w, D, f[k - 1]) /\ k # 0
        <4>1. k - 1 \in 0..(k - 1)
          OBVIOUS
        <4> QED
          BY <2>3, <4>1
      <3>3. \A i \in 0..k : i \in 0..(k - 1) \/ i = k
        OBVIOUS
      <3> QED
        BY <3>1, <3>2, <3>3
    <2>6. f = [i \in 0..k |-> IF i = 0 THEN Bottom(w) ELSE Onward(w, D, f[i - 1])]
      BY <2>4, <2>5
    <2>7. IsNested(f, w, D, k)
      BY <2>6 DEF IsNested
    <2> QED
      BY <2>7
  <1>3. n \in T
    <2> HIDE DEF T
    <2> QED
      BY <1>1, <1>2, IntervalInduction
  <1> QED
    BY <1>3

\* No search goes deeper than there are presets.
LEMMA VisitsAreWell ==
    ASSUME NEW D, IsDocument(D)
    PROVE  VisitsWell(D, visits(D), Depth) /\ Depth \in Nat /\ Depth > Cardinality(Preset)
  <1>1. Depth \in Nat /\ Depth > Cardinality(Preset)
    <2>1. Cardinality(Preset) \in Nat
      BY Presets
    <2> DEFINE c == Cardinality(Preset)
    <2>2. c \in Nat /\ Depth = c + 1
      BY <2>1 DEF Depth
    <2> HIDE DEF c
    <2>3. Depth \in Nat /\ Depth > c
      BY <2>2
    <2> QED
      BY <2>3 DEF c
  <1> DEFINE deep == CHOOSE f : IsNested(f, "visit", D, Depth)
             Turn(d) == [m \in Preset |-> [s \in Search |-> visit(D, d, m, s)]]
             T == {i \in 0..Depth : VisitsWell(D, deep[i], i)}
  <1>2. visits(D) = deep[Depth]
    BY Zenon DEF visits, IsNested, Bottom, Onward
  <1>3. IsNested(deep, "visit", D, Depth)
    <2>1. \E f : IsNested(f, "visit", D, Depth)
      BY <1>1, NestedExists
    <2> QED
      BY <2>1, Zenon
  <1> HIDE DEF deep
  <1>4. deep = [i \in 0..Depth |-> IF i = 0 THEN Bottom("visit") ELSE Onward("visit", D, deep[i - 1])]
    BY <1>3, Zenon DEF IsNested
  <1>5. Bottom("visit") = [m \in Preset |-> [s \in Search |-> s]] /\ \A d : Onward("visit", D, d) = Turn(d)
    BY DEF Bottom, Onward
  <1> HIDE DEF Turn
  <1>6. 0 \in T
    <2>1. deep[0] = [m \in Preset |-> [s \in Search |-> s]] /\ 0 \in 0..Depth
      BY <1>1, <1>4, <1>5
    <2>2. ASSUME NEW s \in Search PROVE ~(Cardinality(s.active) + 0 > Cardinality(Preset))
      <3>1. s.active \in SUBSET Preset
        BY SearchIs
      <3>2. Cardinality(s.active) \in Nat /\ Cardinality(Preset) \in Nat
            /\ Cardinality(s.active) <= Cardinality(Preset)
        BY <3>1, Presets
      <3> DEFINE a == Cardinality(s.active)
                 c == Cardinality(Preset)
      <3>3. a \in Nat /\ c \in Nat /\ a <= c
        BY <3>2
      <3> HIDE DEF a, c
      <3>4. ~(a + 0 > c)
        BY <3>3
      <3> QED
        BY <3>4 DEF a, c
    <2>3. VisitsWell(D, deep[0], 0)
      BY <2>1, <2>2 DEF VisitsWell
    <2> QED
      BY <2>1, <2>3
  <1>7. ASSUME NEW i \in 1..Depth, i - 1 \in T PROVE i \in T
    <2>1. i - 1 \in Nat /\ (i - 1) + 1 = i /\ i \in 0..Depth /\ i # 0
      BY <1>1
    <2>2. deep[i] = Turn(deep[i - 1])
      BY <1>4, <1>5, <2>1
    <2>3. VisitsWell(D, deep[i - 1], i - 1)
      BY <1>7
    <2> DEFINE n == i - 1
               g == deep[i - 1]
    <2>4. n \in Nat /\ n + 1 = i /\ VisitsWell(D, g, n) /\ deep[i] = Turn(g)
      BY <2>1, <2>2, <2>3
    <2> HIDE DEF n, g
    <2>5. VisitsWell(D, Turn(g), n + 1)
      BY <2>4, VisitsOn DEF Turn
    <2>6. VisitsWell(D, deep[i], i)
      BY <2>4, <2>5
    <2> QED
      BY <2>1, <2>6
  <1>8. Depth \in T
    <2>1. Depth \in 0..Depth
      BY <1>1
    <2> HIDE DEF T
    <2> QED
      BY <1>1, <1>6, <1>7, <2>1, IntervalInduction
  <1> QED
    BY <1>1, <1>2, <1>8

LEMMA IdsArePresets ==
    ASSUME NEW D, IsDocument(D)
    PROVE  Ids(D, "model_presets") \in SUBSET Preset
  <1> SUFFICES ASSUME NEW path \in DOMAIN D, path[1] = "model_presets" PROVE path[2] \in Preset
    BY DEF Ids
  <1>1. path \in Path
    BY DEF IsDocument
  <1>2. path \notin {SelectedProfile, DefaultPreset, PrimaryWindow}
    BY DEF SelectedProfile, DefaultPreset, PrimaryWindow
  <1>3. \/ path \in {"providers"} \X Profile \X ProfileField
        \/ path \in {"model_presets"} \X Preset \X PresetField
        \/ path \in {"price_schedules"} \X Schedule \X ScheduleField
        \/ path \in {"windows"} \X Window \X WindowField
    BY <1>1, <1>2, Zenon DEF Path
  <1>4. path \in {"model_presets"} \X Preset \X PresetField
    BY <1>3
  <1> QED
    BY <1>4

\* The roots, each once.
LEMMA SetIsListed ==
    ASSUME NEW A \in SUBSET Preset
    PROVE  /\ SetToSeq(A) \in Seq(Preset)
           /\ \A m \in A : \E i \in 1..Len(SetToSeq(A)) : SetToSeq(A)[i] = m
  <1> DEFINE n == Cardinality(A)
             q == SetToSeq(A)
  <1>1. IsFiniteSet(A) /\ n \in Nat
    BY Presets
  <1>2. PICK b : b \in Bijection(1..n, A)
    BY <1>1, FS_CardinalityType DEF ExistsBijection
  <1>3. b \in [1..n -> A] /\ IsInjective(b)
    BY <1>2 DEF Bijection, Injection
  <1>4. q \in [1..n -> A] /\ IsInjective(q)
    BY <1>3, Zenon DEF SetToSeq
  <1> HIDE DEF q
  <1>5. q \in Injection(1..n, A)
    BY <1>4, Zenon DEF Injection
  <1>6. Cardinality(1..n) = n
    <2> HIDE DEF n
    <2>1. 1 \in Int /\ n \in Int
      BY <1>1
    <2>2. Cardinality(1..n) = IF 1 > n THEN 0 ELSE n - 1 + 1
      BY <2>1, FS_Interval
    <2> QED
      BY <1>1, <2>2
  <1>7. q \in Surjection(1..n, A)
    BY <1>1, <1>5, <1>6, FS_Injection
  <1>8. \A m \in A : \E i \in 1..n : q[i] = m
    BY <1>7, Zenon DEF Surjection
  <1> HIDE DEF n
  <1>9. q \in Seq(A) /\ Len(q) = n
    BY <1>1, <1>4
  <1>10. q \in Seq(Preset)
    BY <1>9
  <1> QED
    BY <1>8, <1>9, <1>10 DEF q

\* What has been found when the search begins with a root, or has ended.
Between(D, s) ==
    /\ s \in Search
    /\ s.cycle => HasLoop(D)
    /\ ~s.cycle => /\ \A m \in s.complete : FallbackSet(D, m) \subseteq s.complete
                   /\ \A S \in SUBSET s.complete : ~Loops(D, S)

LEMMA RootIsVisited ==
    ASSUME NEW D, IsDocument(D), NEW v, NEW n \in Nat, VisitsWell(D, v, n), n > Cardinality(Preset),
           NEW s, Between(D, s), NEW m \in Preset, NEW r, r = v[m][[s EXCEPT !.active = {}]]
    PROVE  /\ Between(D, r) /\ (s.cycle => r.cycle)
           /\ ~r.cycle => s.complete \subseteq r.complete /\ m \in r.complete
  <1> DEFINE t == [s EXCEPT !.active = {}]
  <1>1. s \in Search
    BY DEF Between
  <1>2. /\ s.active \subseteq Preset /\ s.complete \subseteq Preset /\ s.cycle \in BOOLEAN
        /\ s = [active |-> s.active, complete |-> s.complete, cycle |-> s.cycle]
    BY <1>1, SearchIs
  <1>3. t = [active |-> {}, complete |-> s.complete, cycle |-> s.cycle]
    <2>1. PICK A, C, c : s = [active |-> A, complete |-> C, cycle |-> c]
      BY <1>2
    <2>2. t = [active |-> {}, complete |-> C, cycle |-> c]
      BY <2>1
    <2>3. s.complete = C /\ s.cycle = c
      BY <2>1
    <2> HIDE DEF t
    <2> QED
      BY <2>2, <2>3
  <1> HIDE DEF t
  <1>4. t \in Search /\ t.active = {} /\ t.complete = s.complete /\ t.cycle = s.cycle
    BY <1>2, <1>3, ASearch
  <1>5. r = v[m][t]
    BY DEF t
  <1>6. CASE s.cycle
    <2>1. t.cycle
      BY <1>4, <1>6
    <2>2. r = t
      BY <1>4, <1>5, <2>1 DEF VisitsWell
    <2>3. HasLoop(D)
      BY <1>6 DEF Between
    <2> QED
      BY <1>4, <2>1, <2>2, <2>3 DEF Between
  <1>7. CASE ~s.cycle
    <2>1. ~t.cycle
      BY <1>4, <1>7
    <2>2. Knows(D, t)
      BY <1>4, <1>7 DEF Knows, Between
    <2>3. OnTheWay(D, t, m)
      BY <1>4 DEF OnTheWay
    <2>4. Cardinality(t.active) + n > Cardinality(Preset)
      <3>1. Cardinality(t.active) = 0 /\ Cardinality(Preset) \in Nat
        BY <1>4, Presets, FS_EmptySet
      <3> DEFINE a == Cardinality(t.active)
                 c == Cardinality(Preset)
      <3>2. a = 0 /\ c \in Nat /\ n > c
        BY <3>1
      <3> HIDE DEF a, c
      <3>3. a + n > c
        BY <3>2
      <3> QED
        BY <3>3 DEF a, c
    <2>5. Visited(D, m, t, r)
      BY <1>4, <1>5, <2>1, <2>2, <2>3, <2>4 DEF VisitsWell
    <2>6. /\ r \in Search /\ (r.cycle => HasLoop(D))
          /\ ~r.cycle => Knows(D, r) /\ s.complete \subseteq r.complete /\ m \in r.complete
      BY <1>4, <2>5 DEF Visited
    <2>7. Between(D, r)
      BY <2>6 DEF Between, Knows
    <2> QED
      BY <1>7, <2>6, <2>7
  <1> QED
    BY <1>6, <1>7

\* validate_fallback_cycles finds a cycle exactly when there is one.
LEMMA CycleIsFound ==
    ASSUME NEW D, IsDocument(D)
    PROVE  FindsCycle(D) <=> HasLoop(D)
  <1> DEFINE v == visits(D)
             g == [m \in Preset |-> [s \in Search |-> v[m][[s EXCEPT !.active = {}]]]]
             base == [active |-> {}, complete |-> {}, cycle |-> FALSE]
             roots == Ids(D, "model_presets")
             q == SetToSeq(roots)
             r == Folded(g, base, q)
  <1>1. FindsCycle(D) <=> r.cycle
    BY Zenon DEF FindsCycle, Folded
  <1>2. VisitsWell(D, v, Depth) /\ Depth \in Nat /\ Depth > Cardinality(Preset)
    BY VisitsAreWell
  <1>3. roots \in SUBSET Preset
    BY IdsArePresets
  <1>4. Between(D, base) /\ base.complete = {}
    <2>1. base = [active |-> {}, complete |-> {}, cycle |-> FALSE]
      OBVIOUS
    <2>2. base.active = {} /\ base.complete = {} /\ ~base.cycle
      BY <2>1
    <2>3. base \in Search
      BY ASearch
    <2> HIDE DEF base
    <2>4. \A S \in SUBSET base.complete : ~Loops(D, S)
      BY <2>2 DEF Loops
    <2> QED
      BY <2>2, <2>3, <2>4 DEF Between
  <1>5. \A m \in Preset, s \in Search : g[m][s] = v[m][[s EXCEPT !.active = {}]]
    <2> HIDE DEF v
    <2> QED
      OBVIOUS
  <1> HIDE DEF v, g, base, roots
  <1>6. q \in Seq(Preset) /\ \A m \in roots : \E i \in 1..Len(q) : q[i] = m
    BY <1>3, SetIsListed
  <1> HIDE DEF q
  <1>7. Len(q) \in Nat /\ \A i \in 1..Len(q) : q[i] \in Preset
    BY <1>6
  <1>8. PICK h : Goes(h, g, base, q) /\ r = h[Len(q)]
    BY <1>6, FoldGoes
  <1> HIDE DEF r
  <1>9. h[0] = base /\ \A i \in 1..Len(q) : h[i] = g[q[i]][h[i - 1]]
    BY <1>8 DEF Goes
  <1> DEFINE Good(i) == Between(D, h[i]) /\ (~h[i].cycle => \A j \in 1..i : q[j] \in h[i].complete)
             T == {i \in 0..Len(q) : Good(i)}
  <1>10. 0 \in T
    <2>1. 0 \in 0..Len(q) /\ 1..0 = {}
      BY <1>7
    <2>2. Good(0)
      BY <1>4, <1>9, <2>1
    <2> HIDE DEF Good
    <2> QED
      BY <2>1, <2>2
  <1>11. ASSUME NEW i \in 1..Len(q), i - 1 \in T PROVE i \in T
    <2> DEFINE a == h[i - 1]
               b == h[i]
               m == q[i]
    <2>1. Good(i - 1) /\ i \in 0..Len(q)
      BY <1>7, <1>11
    <2>2. Between(D, a) /\ (~a.cycle => \A j \in 1..(i - 1) : q[j] \in a.complete)
      BY <2>1
    <2>3. m \in Preset /\ a \in Search /\ b = g[m][a]
      BY <1>7, <1>9, <2>2 DEF Between
    <2>4. b = v[m][[a EXCEPT !.active = {}]]
      BY <1>5, <2>3
    <2> HIDE DEF a, b, m, Good
    <2>5. /\ Between(D, b) /\ (a.cycle => b.cycle)
          /\ ~b.cycle => a.complete \subseteq b.complete /\ m \in b.complete
      BY <1>2, <2>2, <2>3, <2>4, RootIsVisited
    <2>6. ASSUME ~b.cycle, NEW j \in 1..i PROVE q[j] \in b.complete
      <3>1. j \in 1..(i - 1) \/ j = i
        BY <1>7
      <3> QED
        BY <2>2, <2>5, <2>6, <3>1 DEF m
    <2>7. Good(i)
      BY <2>5, <2>6 DEF Good, b
    <2> QED
      BY <2>1, <2>7
  <1>12. Good(Len(q))
    <2>1. Len(q) \in 0..Len(q)
      BY <1>7
    <2> HIDE DEF T
    <2>2. Len(q) \in T
      BY <1>7, <1>10, <1>11, <2>1, IntervalInduction
    <2> QED
      BY <2>2 DEF T
  <1> HIDE DEF T
  <1>13. Between(D, r) /\ (~r.cycle => roots \subseteq r.complete)
    BY <1>6, <1>8, <1>12
  <1>14. HasLoop(D) => r.cycle
    <2> SUFFICES ASSUME NEW S \in SUBSET roots, Loops(D, S), ~r.cycle PROVE FALSE
      BY DEF HasLoop, roots
    <2> QED
      BY <1>13 DEF Between
  <1> QED
    BY <1>1, <1>13, <1>14 DEF Between

-----------------------------------------------------------------------------
(* model_preset_chain.                                                      *)

\* A chain without repetitions.
IsChain(c) == c \in Seq(Preset) /\ Cardinality(ToSet(c)) = Len(c)

\* All but the presets in G fall back within the chain.
ClosedBut(D, c, G) == \A k \in ToSet(c) \ G : FallbackSet(D, k) \subseteq ToSet(c)

Closed(D, S) == \A k \in S : FallbackSet(D, k) \subseteq S

\* What collecting m makes of a chain.
Collected(D, m, c, r) ==
    /\ IsChain(r) /\ Len(c) <= Len(r) /\ ToSet(c) \subseteq ToSet(r) /\ m \in ToSet(r)
    /\ \A G \in SUBSET Preset : ClosedBut(D, c, G) => ClosedBut(D, r, G)
    /\ \A S \in SUBSET Preset : Closed(D, S) /\ m \in S /\ ToSet(c) \subseteq S => ToSet(r) \subseteq S

CollectsWell(D, v, n) ==
    \A m \in Preset, c \in Seq(Preset) :
        IsChain(c) /\ Len(c) + n > Cardinality(Preset) => Collected(D, m, c, v[m][c])

LEMMA ChainFacts ==
    ASSUME NEW c \in Seq(Preset)
    PROVE  /\ Len(c) \in Nat /\ ToSet(c) = {c[i] : i \in 1..Len(c)} /\ ToSet(c) \in SUBSET Preset
           /\ Cardinality(ToSet(c)) \in Nat /\ Cardinality(ToSet(c)) <= Cardinality(Preset)
  <1>1. Len(c) \in Nat /\ ToSet(c) = {c[i] : i \in 1..Len(c)}
    BY DEF ToSet
  <1>2. ToSet(c) \in SUBSET Preset
    BY <1>1
  <1> QED
    BY <1>1, <1>2, Presets

LEMMA ChainGrows ==
    ASSUME NEW c, IsChain(c), NEW m \in Preset, m \notin ToSet(c), NEW d, d = Append(c, m)
    PROVE  IsChain(d) /\ Len(d) = Len(c) + 1 /\ ToSet(d) = ToSet(c) \cup {m}
  <1>1. c \in Seq(Preset) /\ Len(c) \in Nat
    BY DEF IsChain
  <1>2. /\ d \in Seq(Preset) /\ Len(d) = Len(c) + 1 /\ d[Len(c) + 1] = m
        /\ \A i \in 1..Len(c) : d[i] = c[i]
    BY <1>1
  <1>3. ToSet(d) = {d[i] : i \in 1..Len(d)} /\ ToSet(c) = {c[i] : i \in 1..Len(c)}
    BY <1>1, <1>2, ChainFacts
  <1>4. ToSet(d) = ToSet(c) \cup {m}
    <2>1. ASSUME NEW x \in ToSet(d) PROVE x \in ToSet(c) \cup {m}
      <3>1. PICK i \in 1..Len(d) : x = d[i]
        BY <1>3
      <3>2. i \in 1..Len(c) \/ i = Len(c) + 1
        BY <1>1, <1>2
      <3> QED
        BY <1>2, <1>3, <3>1, <3>2
    <2>2. ASSUME NEW x \in ToSet(c) PROVE x \in ToSet(d)
      <3>1. PICK i \in 1..Len(c) : x = c[i]
        BY <1>3
      <3>2. i \in 1..Len(d) /\ d[i] = x
        BY <1>1, <1>2, <3>1
      <3> QED
        BY <1>3, <3>2
    <2>3. m \in ToSet(d)
      <3>1. Len(c) + 1 \in 1..Len(d)
        BY <1>1, <1>2
      <3> QED
        BY <1>2, <1>3, <3>1
    <2> QED
      BY <2>1, <2>2, <2>3
  <1>5. Cardinality(ToSet(c) \cup {m}) = Cardinality(ToSet(c)) + 1
    <2>1. ToSet(c) \in SUBSET Preset /\ m \in Preset \ ToSet(c)
      BY <1>1, ChainFacts
    <2> QED
      BY <2>1, Presets
  <1>6. Cardinality(ToSet(d)) = Len(d)
    <2>1. Cardinality(ToSet(c)) = Len(c)
      BY DEF IsChain
    <2> QED
      BY <1>2, <1>4, <1>5, <2>1
  <1> QED
    BY <1>2, <1>4, <1>6 DEF IsChain

\* One call, when the calls it makes do well.
LEMMA CollectsOn ==
    ASSUME NEW D, IsDocument(D), NEW n \in Nat, NEW g, CollectsWell(D, g, n)
    PROVE  CollectsWell(D, [x \in Preset |-> [y \in Seq(Preset) |-> collect(D, g, x, y)]], n + 1)
  <1> DEFINE v == [x \in Preset |-> [y \in Seq(Preset) |-> collect(D, g, x, y)]]
  <1>v. \A x \in Preset, y \in Seq(Preset) : v[x][y] = collect(D, g, x, y)
    OBVIOUS
  <1> SUFFICES ASSUME NEW m \in Preset, NEW c \in Seq(Preset), IsChain(c),
                      Len(c) + (n + 1) > Cardinality(Preset)
               PROVE  Collected(D, m, c, collect(D, g, m, c))
    BY <1>v, Zenon DEF CollectsWell
  <1> DEFINE q == Fallback(D, m)
             base == Append(c, m)
             below == Folded(g, base, q)
             r == collect(D, g, m, c)
  <1>1. r = IF m \in ToSet(c) THEN c ELSE below
    BY Zenon DEF collect, Folded
  <1> HIDE DEF r
  <1>2. q \in Seq(Preset) /\ (\A i \in 1..Len(q) : q[i] \in Preset) /\ Len(q) \in Nat
    BY FallbackList
  <1>3. FallbackSet(D, m) = {q[i] : i \in 1..Len(q)}
    BY FallbackList
  <1>4. CASE m \in ToSet(c)
    <2>1. r = c
      BY <1>1, <1>4
    <2> QED
      BY <1>4, <2>1 DEF Collected, r
  <1>5. CASE m \notin ToSet(c)
    <2> HIDE DEF q, base, below
    <2>0. base = Append(c, m)
      BY DEF base
    <2>1. IsChain(base) /\ Len(base) = Len(c) + 1 /\ ToSet(base) = ToSet(c) \cup {m}
      BY <1>5, <2>0, ChainGrows
    <2>2. PICK h : Goes(h, g, base, q) /\ below = h[Len(q)]
      BY <1>2, FoldGoes DEF below
    <2>3. h[0] = base /\ \A i \in 1..Len(q) : h[i] = g[q[i]][h[i - 1]]
      BY <2>2 DEF Goes
    <2>4. Len(c) \in Nat /\ Len(base) \in Nat
      BY <2>1 DEF IsChain
    <2> DEFINE Good(i) ==
                 /\ IsChain(h[i]) /\ Len(base) <= Len(h[i]) /\ ToSet(base) \subseteq ToSet(h[i])
                 /\ \A j \in 1..i : q[j] \in ToSet(h[i])
                 /\ \A G \in SUBSET Preset : ClosedBut(D, base, G) => ClosedBut(D, h[i], G)
                 /\ \A S \in SUBSET Preset : Closed(D, S) /\ m \in S /\ ToSet(c) \subseteq S
                                               => ToSet(h[i]) \subseteq S
               T == {i \in 0..Len(q) : Good(i)}
    <2>5. 0 \in T
      <3>1. 0 \in 0..Len(q) /\ 1..0 = {}
        BY <1>2
      <3>2. \A S \in SUBSET Preset : m \in S /\ ToSet(c) \subseteq S => ToSet(base) \subseteq S
        BY <2>1
      <3>3. Len(base) <= Len(base)
        BY <2>4
      <3>4. Good(0)
        BY <2>1, <2>3, <3>1, <3>2, <3>3
      <3> HIDE DEF Good
      <3> QED
        BY <3>1, <3>4
    <2>6. ASSUME NEW i \in 1..Len(q), i - 1 \in T PROVE i \in T
      <3> DEFINE a == h[i - 1]
                 b == h[i]
                 k == q[i]
      <3>1. Good(i - 1) /\ i \in 0..Len(q)
        BY <1>2, <2>6
      <3>2. k \in Preset /\ k \in FallbackSet(D, m) /\ b = g[k][a]
        BY <1>2, <1>3, <2>3
      <3>3. /\ IsChain(a) /\ Len(base) <= Len(a) /\ ToSet(base) \subseteq ToSet(a)
            /\ \A j \in 1..(i - 1) : q[j] \in ToSet(a)
            /\ \A G \in SUBSET Preset : ClosedBut(D, base, G) => ClosedBut(D, a, G)
            /\ \A S \in SUBSET Preset : Closed(D, S) /\ m \in S /\ ToSet(c) \subseteq S
                                          => ToSet(a) \subseteq S
        BY <3>1
      <3> HIDE DEF a, b, k, Good
      <3>4. a \in Seq(Preset) /\ Len(a) \in Nat
        BY <3>3 DEF IsChain
      <3>5. Len(a) + n > Cardinality(Preset)
        <4>1. Cardinality(Preset) \in Nat
          BY Presets
        <4> DEFINE p == Cardinality(Preset)
        <4>2. p \in Nat /\ Len(c) + (n + 1) > p
          BY <4>1
        <4> HIDE DEF p
        <4>3. Len(a) + n > p
          BY <2>1, <2>4, <3>3, <3>4, <4>2
        <4> QED
          BY <4>3 DEF p
      <3>6. Collected(D, k, a, b)
        BY <3>2, <3>3, <3>4, <3>5 DEF CollectsWell
      <3>7. /\ IsChain(b) /\ Len(a) <= Len(b) /\ ToSet(a) \subseteq ToSet(b) /\ k \in ToSet(b)
            /\ \A G \in SUBSET Preset : ClosedBut(D, a, G) => ClosedBut(D, b, G)
            /\ \A S \in SUBSET Preset : Closed(D, S) /\ k \in S /\ ToSet(a) \subseteq S
                                          => ToSet(b) \subseteq S
        BY <3>6 DEF Collected
      <3>8. Len(base) <= Len(b)
        <4>1. Len(b) \in Nat
          BY <3>7 DEF IsChain
        <4> QED
          BY <2>4, <3>3, <3>4, <3>7, <4>1
      <3>9. \A j \in 1..i : q[j] \in ToSet(b)
        <4>1. \A j \in 1..i : j \in 1..(i - 1) \/ j = i
          BY <1>2
        <4> QED
          BY <3>3, <3>7, <4>1 DEF k
      <3>10. ASSUME NEW S \in SUBSET Preset, Closed(D, S), m \in S, ToSet(c) \subseteq S
             PROVE  ToSet(b) \subseteq S
        <4>1. k \in S
          BY <3>2, <3>10 DEF Closed
        <4> QED
          BY <3>3, <3>7, <3>10, <4>1
      <3>11. Good(i)
        BY <3>3, <3>7, <3>8, <3>9, <3>10 DEF Good, b
      <3> QED
        BY <3>1, <3>11
    <2>7. Good(Len(q))
      <3>1. Len(q) \in 0..Len(q)
        BY <1>2
      <3> HIDE DEF T
      <3>2. Len(q) \in T
        BY <1>2, <2>5, <2>6, <3>1, IntervalInduction
      <3> QED
        BY <3>2 DEF T
    <2> HIDE DEF T
    <2>8. /\ IsChain(below) /\ Len(base) <= Len(below) /\ ToSet(base) \subseteq ToSet(below)
          /\ FallbackSet(D, m) \subseteq ToSet(below)
          /\ \A G \in SUBSET Preset : ClosedBut(D, base, G) => ClosedBut(D, below, G)
          /\ \A S \in SUBSET Preset : Closed(D, S) /\ m \in S /\ ToSet(c) \subseteq S
                                        => ToSet(below) \subseteq S
      BY <1>3, <2>2, <2>7
    <2>9. Len(c) <= Len(below)
      <3>1. Len(below) \in Nat
        BY <2>8 DEF IsChain
      <3> QED
        BY <2>1, <2>4, <2>8, <3>1
    <2>10. ASSUME NEW G \in SUBSET Preset, ClosedBut(D, c, G) PROVE ClosedBut(D, below, G)
      <3>1. ClosedBut(D, base, G \cup {m})
        BY <2>1, <2>10 DEF ClosedBut
      <3>2. ClosedBut(D, below, G \cup {m})
        BY <2>8, <3>1
      <3> QED
        BY <2>8, <3>2 DEF ClosedBut
    <2>11. r = below /\ ToSet(c) \subseteq ToSet(below) /\ m \in ToSet(below)
      BY <1>1, <1>5, <2>1, <2>8
    <2>12. Collected(D, m, c, below)
      BY <2>8, <2>9, <2>10, <2>11 DEF Collected
    <2> QED
      BY <2>11, <2>12 DEF r
  <1> QED
    BY <1>4, <1>5

\* The calls of model_preset_chain, as deep as they go.
ChainCalls(D) == CHOOSE f : IsNested(f, "collect", D, Depth)

LEMMA ChainsAreWell ==
    ASSUME NEW D, IsDocument(D)
    PROVE  /\ CollectsWell(D, ChainCalls(D)[Depth], Depth)
           /\ \A m : model_preset_chain(D, m) = ChainCalls(D)[Depth][m][<<>>]
  <1>1. Depth \in Nat
    BY VisitsAreWell
  <1> DEFINE deep == ChainCalls(D)
             Turn(d) == [m \in Preset |-> [c \in Seq(Preset) |-> collect(D, d, m, c)]]
             T == {i \in 0..Depth : CollectsWell(D, deep[i], i)}
  <1>2. \A m : model_preset_chain(D, m) = deep[Depth][m][<<>>]
    BY Zenon DEF model_preset_chain, ChainCalls, IsNested, Bottom, Onward
  <1>3. IsNested(deep, "collect", D, Depth)
    <2>1. \E f : IsNested(f, "collect", D, Depth)
      BY <1>1, NestedExists
    <2> QED
      BY <2>1, Zenon DEF ChainCalls
  <1> HIDE DEF deep
  <1>4. deep = [i \in 0..Depth |-> IF i = 0 THEN Bottom("collect") ELSE Onward("collect", D, deep[i - 1])]
    BY <1>3, Zenon DEF IsNested
  <1>5. Bottom("collect") = [m \in Preset |-> [c \in Seq(Preset) |-> c]] /\ \A d : Onward("collect", D, d) = Turn(d)
    BY DEF Bottom, Onward
  <1> HIDE DEF Turn
  <1>6. 0 \in T
    <2>1. 0 \in 0..Depth
      BY <1>1
    <2>2. ASSUME NEW c \in Seq(Preset), IsChain(c) PROVE ~(Len(c) + 0 > Cardinality(Preset))
      <3>1. Len(c) \in Nat /\ Cardinality(Preset) \in Nat /\ Len(c) <= Cardinality(Preset)
        BY <2>2, ChainFacts, Presets DEF IsChain
      <3> DEFINE p == Cardinality(Preset)
      <3>2. Len(c) \in Nat /\ p \in Nat /\ Len(c) <= p
        BY <3>1
      <3> HIDE DEF p
      <3>3. ~(Len(c) + 0 > p)
        BY <3>2
      <3> QED
        BY <3>3 DEF p
    <2>3. CollectsWell(D, deep[0], 0)
      BY <2>2 DEF CollectsWell
    <2> QED
      BY <2>1, <2>3
  <1>7. ASSUME NEW i \in 1..Depth, i - 1 \in T PROVE i \in T
    <2>1. i - 1 \in Nat /\ (i - 1) + 1 = i /\ i \in 0..Depth /\ i # 0
      BY <1>1
    <2>2. deep[i] = Turn(deep[i - 1])
      BY <1>4, <1>5, <2>1
    <2>3. CollectsWell(D, deep[i - 1], i - 1)
      BY <1>7
    <2> DEFINE n == i - 1
               g == deep[i - 1]
    <2>4. n \in Nat /\ n + 1 = i /\ CollectsWell(D, g, n) /\ deep[i] = Turn(g)
      BY <2>1, <2>2, <2>3
    <2> HIDE DEF n, g
    <2>5. CollectsWell(D, Turn(g), n + 1)
      BY <2>4, CollectsOn DEF Turn
    <2>6. CollectsWell(D, deep[i], i)
      BY <2>4, <2>5
    <2> QED
      BY <2>1, <2>6
  <1>8. Depth \in T
    <2>1. Depth \in 0..Depth
      BY <1>1
    <2> HIDE DEF T
    <2> QED
      BY <1>1, <1>6, <1>7, <2>1, IntervalInduction
  <1> QED
    BY <1>2, <1>8 DEF deep

LEMMA ChainIsCandidates ==
    ASSUME NEW D, IsDocument(D), NEW m \in Preset
    PROVE  /\ IsChain(model_preset_chain(D, m))
           /\ ToSet(model_preset_chain(D, m)) = Candidates(D, m)
           /\ \A S \in SUBSET Preset : Closed(D, S) /\ m \in S => Candidates(D, m) \subseteq S
  <1> DEFINE r == model_preset_chain(D, m)
             v == ChainCalls(D)[Depth]
             c == <<>>
  <1>1. CollectsWell(D, v, Depth) /\ r = v[m][c]
    BY ChainsAreWell
  <1>2. Depth \in Nat /\ Depth > Cardinality(Preset)
    BY VisitsAreWell
  <1>3. c \in Seq(Preset) /\ Len(c) = 0 /\ ToSet(c) = {}
    BY DEF ToSet
  <1>4. IsChain(c)
    BY <1>3, FS_EmptySet DEF IsChain
  <1>5. Len(c) + Depth > Cardinality(Preset)
    <2>1. Cardinality(Preset) \in Nat
      BY Presets
    <2> DEFINE p == Cardinality(Preset)
    <2>2. p \in Nat /\ Depth > p
      BY <1>2, <2>1
    <2> HIDE DEF p
    <2>3. Len(c) + Depth > p
      BY <1>2, <1>3, <2>2
    <2> QED
      BY <2>3 DEF p
  <1> HIDE DEF r, v, c
  <1>6. Collected(D, m, c, r)
    BY <1>1, <1>3, <1>4, <1>5, Zenon DEF CollectsWell
  <1>7. IsChain(r) /\ m \in ToSet(r) /\ ToSet(r) \in SUBSET Preset
    BY <1>6, ChainFacts DEF Collected, IsChain
  <1>8. Closed(D, ToSet(r))
    <2>1. ClosedBut(D, c, {})
      BY <1>3 DEF ClosedBut
    <2>2. ClosedBut(D, r, {})
      BY <1>6, <2>1 DEF Collected
    <2> QED
      BY <2>2 DEF ClosedBut, Closed
  <1>9. ASSUME NEW S \in SUBSET Preset, Closed(D, S), m \in S PROVE ToSet(r) \subseteq S
    BY <1>3, <1>6, <1>9 DEF Collected
  <1>10. ToSet(r) = Candidates(D, m)
    <2>1. ASSUME NEW n \in ToSet(r) PROVE n \in Candidates(D, m)
      BY <1>7, <1>9 DEF Candidates, Closed
    <2>2. ASSUME NEW n \in Candidates(D, m) PROVE n \in ToSet(r)
      BY <1>7, <1>8, <2>2 DEF Candidates, Closed
    <2> QED
      BY <2>1, <2>2
  <1> QED
    BY <1>7, <1>9, <1>10 DEF r

LEMMA ListsWhenValid ==
    ASSUME NEW D, IsDocument(D), validate_effective(D)
    PROVE  ListsCandidates(D)
  <1> SUFFICES ASSUME NEW m \in Ids(D, "model_presets"), NEW chain, chain = model_preset_chain(D, m)
               PROVE  /\ Len(chain) <= MaxCandidates
                      /\ Cardinality(ToSet(chain)) = Len(chain)
                      /\ ToSet(chain) = Candidates(D, m)
                      /\ \A i \in DOMAIN chain :
                            /\ chain[i] \in Ids(D, "model_presets")
                            /\ D[<<"model_presets", chain[i], "provider">>]
                                  \in Ids(D, "providers") \cup {"simulator"}
    BY Zenon DEF ListsCandidates
  <1> DEFINE ids == Ids(D, "model_presets")
  <1>1. ids \in SUBSET Preset /\ m \in Preset
    BY IdsArePresets
  <1>2. /\ IsChain(chain) /\ ToSet(chain) = Candidates(D, m)
        /\ \A S \in SUBSET Preset : Closed(D, S) /\ m \in S => Candidates(D, m) \subseteq S
    BY <1>1, ChainIsCandidates
  <1>3. \A k \in ids : PresetIsValid(D, k)
    BY Zenon DEF validate_effective
  <1>4. Cardinality(Candidates(D, m)) <= MaxCandidates
    BY Zenon DEF validate_effective, validate_fallback_cycles
  <1>5. Closed(D, ids)
    BY <1>3 DEF PresetIsValid, Closed
  <1>6. ToSet(chain) \subseteq ids
    BY <1>1, <1>2, <1>5
  <1>7. \A k \in ids : D[<<"model_presets", k, "provider">>] \in Ids(D, "providers") \cup {"simulator"}
    BY <1>3 DEF PresetIsValid
  <1>8. \A i \in DOMAIN chain : chain[i] \in ToSet(chain)
    BY <1>2 DEF IsChain, ToSet
  <1>9. Cardinality(ToSet(chain)) = Len(chain)
    BY <1>2 DEF IsChain
  <1> QED
    BY <1>2, <1>4, <1>6, <1>7, <1>8, <1>9

LEMMA FindsWhenListed ==
    ASSUME NEW D, IsDocument(D)
    PROVE  FindsWhatIsThere(D)
  BY CycleIsFound DEF FindsWhatIsThere, HasLoop, Loops

-----------------------------------------------------------------------------
(* Every edit and merge of documents is a document.                          *)

ListPath(m) == <<"model_presets", m, "fallback">>

LEMMA DocumentIs ==
    ASSUME NEW D
    PROVE  IsDocument(D) <=> /\ DOMAIN D \subseteq Path
                             /\ \A m \in Preset : ListPath(m) \in DOMAIN D => D[ListPath(m)] \in Seq(Preset)
  <1>1. \A m \in Preset : Fallback(D, m) = IF ListPath(m) \in DOMAIN D THEN D[ListPath(m)] ELSE <<>>
    BY Zenon DEF Fallback, Has, ListPath
  <1>2. <<>> \in Seq(Preset)
    OBVIOUS
  <1>3. \A m \in Preset : Fallback(D, m) \in Seq(Preset)
            <=> (ListPath(m) \in DOMAIN D => D[ListPath(m)] \in Seq(Preset))
    BY <1>1, <1>2, Zenon
  <1> QED
    BY <1>3, Zenon DEF IsDocument

LEMMA Merged ==
    ASSUME NEW base, NEW overlay, IsDocument(base), IsDocument(overlay)
    PROVE  IsDocument(merge_from(base, overlay))
  <1> DEFINE h == merge_from(base, overlay)
  <1>1. /\ DOMAIN h = DOMAIN base \cup DOMAIN overlay
        /\ \A x \in DOMAIN h : h[x] = IF x \in DOMAIN overlay THEN overlay[x] ELSE base[x]
    BY DEF merge_from
  <1> HIDE DEF h
  <1>2. IsDocument(h)
    BY <1>1, DocumentIs
  <1> QED
    BY <1>2 DEF h

\* One path and its value.
LEMMA OnePath ==
    ASSUME NEW path \in Path, NEW v, \A m \in Preset : path = ListPath(m) => v \in Seq(Preset)
    PROVE  IsDocument([x \in {path} |-> v])
  <1> DEFINE D == [x \in {path} |-> v]
  <1>1. DOMAIN D = {path} /\ D[path] = v
    OBVIOUS
  <1> HIDE DEF D
  <1>2. IsDocument(D)
    BY <1>1, DocumentIs
  <1> QED
    BY <1>2 DEF D

LEMMA SchemaPaths ==
    /\ SelectedProfile \in Path
    /\ \A m \in Preset : SelectedProfile # ListPath(m)
    /\ \A m \in Preset : /\ <<"model_presets", m, "provider">> \in Path
                         /\ <<"model_presets", m, "identity">> \in Path
                         /\ \A k \in Preset : /\ <<"model_presets", m, "provider">> # ListPath(k)
                                              /\ <<"model_presets", m, "identity">> # ListPath(k)
  <1>1. SelectedProfile \in Path
    BY Zenon DEF Path
  <1>2. \A m \in Preset : SelectedProfile # ListPath(m)
    BY DEF SelectedProfile, ListPath
  <1>3. ASSUME NEW m \in Preset, NEW f \in PresetField PROVE <<"model_presets", m, f>> \in Path
    <2>1. <<"model_presets", m, f>> \in {"model_presets"} \X Preset \X PresetField
      OBVIOUS
    <2> QED
      BY <2>1, Zenon DEF Path
  <1>4. "provider" \in PresetField /\ "identity" \in PresetField
    BY DEF PresetField
  <1>5. \A m, k \in Preset : /\ <<"model_presets", m, "provider">> # ListPath(k)
                             /\ <<"model_presets", m, "identity">> # ListPath(k)
    BY DEF ListPath
  <1> QED
    BY <1>1, <1>2, <1>3, <1>4, <1>5

LEMMA EmptyIsDocument == IsDocument(Empty)
  <1>1. DOMAIN Empty = {}
    BY DEF Empty
  <1> QED
    BY <1>1, DocumentIs

LEMMA KeptDocument ==
    ASSUME NEW D, IsDocument(D), NEW paths
    PROVE  IsDocument(Keep(D, paths))
  <1> DEFINE K == Keep(D, paths)
  <1>1. DOMAIN K \subseteq DOMAIN D /\ \A x \in DOMAIN K : K[x] = D[x]
    BY DEF Keep
  <1> HIDE DEF K
  <1>2. IsDocument(K)
    BY <1>1, DocumentIs
  <1> QED
    BY <1>2 DEF K

LEMMA EffectiveIsDocument ==
    ASSUME NEW user, NEW project, IsDocument(user), IsDocument(project)
    PROVE  IsDocument(Effective(user, project))
  <1>1. IsDocument(built_in)
    BY SchemaPaths, OnePath DEF built_in
  <1>2. IsDocument(merge_from(built_in, user))
    BY <1>1, Merged DEF merge_from
  <1> QED
    BY <1>2, Merged DEF merge_from, Effective

LEMMA EditedDocument ==
    ASSUME NEW D, IsDocument(D)
    PROVE  /\ \A path \in Path : \A v : (\A m \in Preset : path = ListPath(m) => v \in Seq(Preset))
                 => IsDocument(set(D, path, v))
           /\ \A path : IsDocument(reset(D, path))
           /\ \A object : IsDocument(delete_object(D, object))
  <1>1. ASSUME NEW path \in Path, NEW v, \A m \in Preset : path = ListPath(m) => v \in Seq(Preset)
        PROVE  IsDocument(set(D, path, v))
    BY <1>1, OnePath, Merged DEF set
  <1>2. \A path : IsDocument(reset(D, path))
    BY KeptDocument DEF reset
  <1>3. \A object : IsDocument(delete_object(D, object))
    BY KeptDocument DEF delete_object
  <1> QED
    BY <1>1, <1>2, <1>3

-----------------------------------------------------------------------------
(* What every layer, draft and call holds is a document, so the searches do  *)
(* what resolution relies on.                                                *)

DocsOf(layers) == IsDocument(layers.user.document) /\ IsDocument(layers.project.document)

RuntimeDocs(r) == DocsOf(r) /\ \A pair \in r.last : IsDocument(pair.user) /\ IsDocument(pair.project)

DraftDocs(drafts) == \A d \in drafts : IsDocument(d.document)

FilesAreDocuments ==
    \A f \in File : IsDocument(file[f].document) /\ IsDocument(backup[f].document)

HoldsDocuments(p) == DocsOf(op[p]) /\ RuntimeDocs(rt[p]) /\ DraftDocs(draft[p])

DocumentsInv == FilesAreDocuments /\ \A p \in Process : HoldsDocuments(p)

LEMMA DocsFacts ==
    ASSUME DocumentsInv, NEW p \in Process
    PROVE  /\ DocsOf(op[p]) /\ RuntimeDocs(rt[p]) /\ DraftDocs(draft[p]) /\ FilesAreDocuments
           /\ \A scope : IsDocument(Loaded(p, scope).document)
           /\ \A scope \in Scope : IsDocument(Source(p, scope).document)
           /\ IsDocument(Current(p).document)
  <1>1. DocsOf(op[p]) /\ RuntimeDocs(rt[p]) /\ DraftDocs(draft[p]) /\ FilesAreDocuments
    BY Zenon DEF DocumentsInv, HoldsDocuments
  <1>2. \A scope : IsDocument(Loaded(p, scope).document)
    BY <1>1 DEF Loaded, RuntimeDocs, DocsOf
  <1>3. \A scope \in Scope : IsDocument(Source(p, scope).document)
    BY <1>1, TargetFile DEF Source, FilesAreDocuments
  <1>4. IsDocument(Current(p).document)
    BY <1>1 DEF Current, DocsOf
  <1> QED
    BY <1>1, <1>2, <1>3, <1>4

\* A step of p alone, and what it leaves in p's hands.
LEMMA DocsStep ==
    ASSUME DocumentsInv, NEW p \in Process, OnlyProcess(p),
           FilesAreDocuments', HoldsDocuments(p)'
    PROVE  DocumentsInv'
  <1> SUFFICES ASSUME NEW q \in Process, q # p PROVE HoldsDocuments(q)'
    BY DEF DocumentsInv
  <1>1. op'[q] = op[q] /\ draft'[q] = draft[q] /\ rt'[q] = rt[q]
    BY DEF OnlyProcess
  <1>2. DocsOf(op[q]) /\ RuntimeDocs(rt[q]) /\ DraftDocs(draft[q])
    BY DocsFacts
  <1> QED
    BY <1>1, <1>2 DEF HoldsDocuments

\* A step that writes no file.
LEMMA QuietDocs ==
    ASSUME DocumentsInv, NEW p \in Process, OnlyProcess(p), UNCHANGED <<file, backup>>,
           DocsOf(op'[p]), RuntimeDocs(rt'[p]), DraftDocs(draft'[p])
    PROVE  DocumentsInv'
  <1>1. FilesAreDocuments'
    BY DocsFacts DEF FilesAreDocuments
  <1>2. HoldsDocuments(p)'
    BY DEF HoldsDocuments
  <1> QED
    BY <1>1, <1>2, DocsStep

LEMMA CallDocs ==
    /\ \A n, at, s : DocsOf(Call(n, at, s))
    /\ DocsOf(Idle) /\ RuntimeDocs(Unopened) /\ DraftDocs({})
  <1>1. IsDocument(Missing.document)
    BY EmptyIsDocument DEF Missing
  <1>2. DocsOf(Idle)
    BY <1>1 DEF DocsOf, Idle
  <1>3. ASSUME NEW n, NEW at, NEW s PROVE DocsOf(Call(n, at, s))
    <2>1. Call(n, at, s).user = Missing /\ Call(n, at, s).project = Missing
      BY DEF Call, Idle
    <2> QED
      BY <1>1, <2>1 DEF DocsOf
  <1>4. RuntimeDocs(Unopened)
    BY <1>1 DEF RuntimeDocs, DocsOf, Unopened
  <1> QED
    BY <1>2, <1>3, <1>4 DEF DraftDocs

\* begin_draft, begin_model_preset, the edits and discard.
LEMMA DraftDocsStep ==
    ASSUME ConfigInv, DocumentsInv, NEW p \in Process, NEW D, DraftDocs(D),
           draft' = [draft EXCEPT ![p] = D], UNCHANGED <<file, backup, rt, op>>
    PROVE  DocumentsInv'
  <1>1. op' = [op EXCEPT ![p] = op[p]] /\ rt' = [rt EXCEPT ![p] = rt[p]]
    BY ProcessFacts, Unchanged
  <1>2. OnlyProcess(p) /\ op'[p] = op[p] /\ draft'[p] = D /\ rt'[p] = rt[p]
    BY <1>1, OnlyIntro
  <1>3. DocsOf(op'[p]) /\ RuntimeDocs(rt'[p])
    BY <1>2, DocsFacts
  <1> QED
    BY <1>2, <1>3, QuietDocs

LEMMA BeginDocs ==
    ASSUME ConfigInv, DocumentsInv, NEW p \in Process, NEW scope \in Scope,
           \/ begin_draft(p, scope)
           \/ \E m \in Preset, provider \in Profile : begin_model_preset(p, scope, m, provider)
    PROVE  DocumentsInv'
  <1>0. \A document : IsDocument(document) => DraftDocs({NewDraft(p, scope, document)})
    BY DEF DraftDocs, NewDraft
  <1>1. IsDocument(Loaded(p, scope).document)
    BY DocsFacts
  <1>2. CASE begin_draft(p, scope)
    <2> DEFINE D == {NewDraft(p, scope, Loaded(p, scope).document)}
    <2>1. draft' = [draft EXCEPT ![p] = D] /\ UNCHANGED <<file, backup, rt, op>>
      BY <1>2 DEF begin_draft
    <2>2. DraftDocs(D)
      BY <1>0, <1>1
    <2> HIDE DEF D
    <2> QED
      BY <2>1, <2>2, DraftDocsStep
  <1>3. ASSUME NEW m \in Preset, NEW provider \in Profile, begin_model_preset(p, scope, m, provider)
        PROVE  DocumentsInv'
    <2> DEFINE a == set(Loaded(p, scope).document, <<"model_presets", m, "provider">>, provider)
               b == set(a, <<"model_presets", m, "identity">>, "given")
               D == {NewDraft(p, scope, b)}
    <2>1. draft' = [draft EXCEPT ![p] = D] /\ UNCHANGED <<file, backup, rt, op>>
      BY <1>3, Zenon DEF begin_model_preset
    <2>2. IsDocument(a)
      BY <1>1, SchemaPaths, EditedDocument
    <2> HIDE DEF a
    <2>3. IsDocument(b)
      BY <2>2, SchemaPaths, EditedDocument
    <2> HIDE DEF b
    <2>4. DraftDocs(D)
      BY <1>0, <2>3
    <2> HIDE DEF D
    <2> QED
      BY <2>1, <2>4, DraftDocsStep
  <1> QED
    BY <1>2, <1>3

LEMMA EditDocs ==
    ASSUME ConfigInv, DocumentsInv, NEW p \in Process, NEW d \in draft[p], NEW document,
           IsDocument(document), Edit(p, d, document)
    PROVE  DocumentsInv'
  <1> DEFINE e == [d EXCEPT !.document = document, !.edits = @ + 1]
             D == {e}
  <1>1. draft' = [draft EXCEPT ![p] = D] /\ UNCHANGED <<file, backup, rt, op>>
    BY DEF Edit
  <1>2. IsDraft(d)
    BY ProcessFacts DEF CallOK
  <1>3. e.document = document
    <2> DEFINE k == d.edits + 1
    <2>1. e = [d EXCEPT !.document = document, !.edits = k]
      BY Zenon
    <2> HIDE DEF k, e
    <2> QED
      BY <1>2, <2>1 DEF IsDraft
  <1> HIDE DEF e
  <1>4. DraftDocs(D)
    BY <1>3 DEF DraftDocs
  <1> HIDE DEF D
  <1> QED
    BY <1>1, <1>4, DraftDocsStep

LEMMA EditsDocs ==
    ASSUME ConfigInv, DocumentsInv, NEW p \in Process,
           \/ \E path \in EditablePath : Reset(p, path) \/ \E v \in Value[path] : Set(p, path, v)
           \/ \E object \in EditableObject : DeleteObject(p, object)
           \/ Discard(p)
    PROVE  DocumentsInv'
  <1>1. \A d \in draft[p] : IsDocument(d.document)
    BY DocsFacts DEF DraftDocs
  <1>2. ASSUME NEW path \in EditablePath, Reset(p, path) PROVE DocumentsInv'
    <2>1. PICK d \in draft[p] : Edit(p, d, reset(d.document, path))
      BY <1>2 DEF Reset
    <2>2. IsDocument(reset(d.document, path))
      BY <1>1, EditedDocument
    <2> QED
      BY <2>1, <2>2, EditDocs
  <1>3. ASSUME NEW path \in EditablePath, NEW v \in Value[path], Set(p, path, v) PROVE DocumentsInv'
    <2>1. PICK d \in draft[p] : Edit(p, d, set(d.document, path, v))
      BY <1>3 DEF Set
    <2>2. path \in Path
      BY ConfigAssumption
    <2>3. \A m \in Preset : path = ListPath(m) => v \in Seq(Preset)
      <3>1. \A m \in Preset : ListPath(m) \in EditablePath => Value[ListPath(m)] \subseteq Seq(Preset)
        BY DocumentAssumption, Zenon DEF ListPath
      <3> QED
        BY <3>1
    <2>4. IsDocument(d.document)
      BY <1>1
    <2>5. IsDocument(set(d.document, path, v))
      BY <2>2, <2>3, <2>4, EditedDocument
    <2> QED
      BY <2>1, <2>5, EditDocs
  <1>4. ASSUME NEW object \in EditableObject, DeleteObject(p, object) PROVE DocumentsInv'
    <2>1. PICK d \in draft[p] : Edit(p, d, delete_object(d.document, object))
      BY <1>4 DEF DeleteObject
    <2>2. IsDocument(delete_object(d.document, object))
      BY <1>1, EditedDocument
    <2> QED
      BY <2>1, <2>2, EditDocs
  <1>5. CASE Discard(p)
    BY <1>5, CallDocs, DraftDocsStep DEF Discard
  <1> QED
    BY <1>2, <1>3, <1>4, <1>5

\* A call begins, or ends with the runtime r and the drafts D.
LEMMA FreshDocs ==
    ASSUME ConfigInv, DocumentsInv, NEW p \in Process, NEW c, DocsOf(c), NEW D, DraftDocs(D),
           NEW r, RuntimeDocs(r), op' = [op EXCEPT ![p] = c], draft' = [draft EXCEPT ![p] = D],
           rt' = [rt EXCEPT ![p] = r], UNCHANGED <<file, backup>>
    PROVE  DocumentsInv'
  <1>1. OnlyProcess(p) /\ op'[p] = c /\ draft'[p] = D /\ rt'[p] = r
    BY OnlyIntro
  <1> QED
    BY <1>1, QuietDocs

LEMMA StartDocs ==
    ASSUME ConfigInv, DocumentsInv, NEW p \in Process, NEW c, DocsOf(c),
           op' = [op EXCEPT ![p] = c], UNCHANGED <<file, backup, draft, rt>>
    PROVE  DocumentsInv'
  <1>1. OnlyProcess(p) /\ op'[p] = c /\ draft'[p] = draft[p] /\ rt'[p] = rt[p]
    BY CallOnly
  <1>2. RuntimeDocs(rt'[p]) /\ DraftDocs(draft'[p])
    BY <1>1, DocsFacts
  <1> QED
    BY <1>1, <1>2, QuietDocs

LEMMA StartsDocs ==
    ASSUME ConfigInv, DocumentsInv, NEW p \in Process,
           StartCommit(p) \/ (\E scope \in Scope : StartRestore(p, scope)) \/ StartReload(p)
    PROVE  DocumentsInv'
  <1>1. \E n, at, s : op' = [op EXCEPT ![p] = Call(n, at, s)]
    BY Zenon DEF StartCommit, StartRestore, StartReload, Start
  <1>2. UNCHANGED <<file, backup, draft, rt>>
    BY DEF StartCommit, StartRestore, StartReload, Start
  <1>3. PICK n, at, s : op' = [op EXCEPT ![p] = Call(n, at, s)]
    BY <1>1
  <1>4. DocsOf(Call(n, at, s))
    BY CallDocs
  <1> QED
    BY <1>2, <1>3, <1>4, StartDocs

LEMMA ReturnDocs ==
    ASSUME ConfigInv, DocumentsInv, NEW p \in Process, Return(p), NEW D, DraftDocs(D),
           draft' = [draft EXCEPT ![p] = D], UNCHANGED <<file, backup, rt>>
    PROVE  DocumentsInv'
  <1>1. rt' = [rt EXCEPT ![p] = rt[p]] /\ op' = [op EXCEPT ![p] = Idle]
    BY ProcessFacts, Unchanged DEF Return
  <1>2. DocsOf(Idle) /\ RuntimeDocs(rt[p])
    BY CallDocs, DocsFacts
  <1> QED
    BY <1>1, <1>2, FreshDocs

LEMMA PlainReturnDocs ==
    ASSUME ConfigInv, DocumentsInv, NEW p \in Process, Return(p), UNCHANGED <<file, backup, rt, draft>>
    PROVE  DocumentsInv'
  <1>1. draft' = [draft EXCEPT ![p] = draft[p]] /\ DraftDocs(draft[p])
    BY ProcessFacts, Unchanged, DocsFacts
  <1> QED
    BY <1>1, ReturnDocs

LEMMA MoveDocs ==
    ASSUME ConfigInv, DocumentsInv, NEW p \in Process, NEW next,
           op' = [op EXCEPT ![p].pc = next], UNCHANGED <<draft, rt>>
    PROVE  OnlyProcess(p) /\ HoldsDocuments(p)'
  <1>1. /\ OnlyProcess(p) /\ draft'[p] = draft[p] /\ rt'[p] = rt[p]
        /\ op'[p].user = op[p].user /\ op'[p].project = op[p].project
    BY MoveOn
  <1> QED
    BY <1>1, DocsFacts DEF HoldsDocuments, DocsOf

LEMMA LockDocs ==
    ASSUME ConfigInv, DocumentsInv, NEW p \in Process, LockFirst(p) \/ LockSecond(p)
    PROVE  DocumentsInv'
  <1>1. PICK f, next : LockOne(p, f, next)
    BY Zenon DEF LockFirst, LockSecond
  <1>2. UNCHANGED <<file, backup, draft, rt>>
    BY <1>1 DEF LockOne
  <1>3. CASE holder[f] \subseteq {p}
    <2>1. op' = [op EXCEPT ![p].pc = next]
      BY <1>1, <1>3 DEF LockOne
    <2>2. OnlyProcess(p) /\ HoldsDocuments(p)'
      BY <1>2, <2>1, MoveDocs
    <2>3. FilesAreDocuments'
      BY <1>2, DocsFacts DEF FilesAreDocuments
    <2> QED
      BY <2>2, <2>3, DocsStep
  <1>4. CASE ~(holder[f] \subseteq {p})
    <2>1. Return(p)
      BY <1>1, <1>4 DEF LockOne
    <2> QED
      BY <1>2, <2>1, PlainReturnDocs
  <1> QED
    BY <1>3, <1>4

LEMMA ReadDocs ==
    ASSUME ConfigInv, DocumentsInv, NEW p \in Process, NEW next, NEW content,
           IsDocument(content.document),
           op' = ReadInto(p, next, content) \/ op' = CheckedInto(p, next, content),
           UNCHANGED <<file, backup, draft, rt>>
    PROVE  DocumentsInv'
  <1>1. /\ OnlyProcess(p) /\ draft'[p] = draft[p] /\ rt'[p] = rt[p]
        /\ \/ op'[p].user = content /\ op'[p].project = op[p].project
           \/ op'[p].user = op[p].user /\ op'[p].project = content
    <2>1. CASE op' = ReadInto(p, next, content)
      BY <2>1, ReadOn
    <2>2. CASE op' = CheckedInto(p, next, content)
      BY <2>2, CheckOn
    <2> QED
      BY <2>1, <2>2
  <1>2. DocsOf(op'[p])
    BY <1>1, DocsFacts DEF DocsOf
  <1>3. RuntimeDocs(rt'[p]) /\ DraftDocs(draft'[p])
    BY <1>1, DocsFacts
  <1> QED
    BY <1>1, <1>2, <1>3, QuietDocs

LEMMA ReadsDocs ==
    ASSUME ConfigInv, DocumentsInv, NEW p \in Process, ReadUser(p) \/ LoadUser(p)
    PROVE  DocumentsInv'
  <1>0. UNCHANGED <<file, backup, draft, rt>>
    BY DEF ReadUser, LoadUser
  <1>1. CASE LoadUser(p)
    <2>1. op' = ReadInto(p, "load_project", file[UserFile])
      BY <1>1 DEF LoadUser, ReadInto
    <2>2. IsDocument(file[UserFile].document)
      BY DocsFacts DEF FilesAreDocuments, File
    <2> QED
      BY <1>0, <2>1, <2>2, ReadDocs
  <1>2. CASE ReadUser(p) /\ parses(Source(p, "user"))
    <2>1. op' = ReadInto(p, "project", Source(p, "user"))
      BY <1>2 DEF ReadUser, ReadInto
    <2>2. IsDocument(Source(p, "user").document)
      BY DocsFacts DEF Scope
    <2> QED
      BY <1>0, <2>1, <2>2, ReadDocs
  <1>3. CASE ReadUser(p) /\ ~parses(Source(p, "user"))
    BY <1>0, <1>3, PlainReturnDocs DEF ReadUser
  <1> QED
    BY <1>1, <1>2, <1>3

LEMMA ChecksDocs ==
    ASSUME ConfigInv, DocumentsInv, NEW p \in Process, CheckCommit(p) \/ CheckRestore(p)
    PROVE  DocumentsInv'
  <1>0. UNCHANGED <<file, backup, rt>>
    BY DEF CheckCommit, CheckRestore
  <1>1. IsDocument(Source(p, "project").document)
    BY DocsFacts DEF Scope
  <1>2. \/ /\ \E next : op' = CheckedInto(p, next, Source(p, "project"))
           /\ draft' = draft
        \/ Return(p) /\ draft' = draft
        \/ Return(p) /\ \E d : draft' = [draft EXCEPT ![p] = IF CommitIsAdmitted(p, d) THEN {} ELSE @]
    BY Zenon DEF CheckCommit, CheckRestore, CheckedInto
  <1>3. ASSUME NEW next, op' = CheckedInto(p, next, Source(p, "project")), draft' = draft
        PROVE  DocumentsInv'
    BY <1>0, <1>1, <1>3, ReadDocs
  <1>4. CASE Return(p) /\ draft' = draft
    BY <1>0, <1>4, PlainReturnDocs
  <1>5. ASSUME NEW d, Return(p), draft' = [draft EXCEPT ![p] = IF CommitIsAdmitted(p, d) THEN {} ELSE @]
        PROVE  DocumentsInv'
    <2>1. PICK D : D = IF CommitIsAdmitted(p, d) THEN {} ELSE draft[p]
      OBVIOUS
    <2>2. draft' = [draft EXCEPT ![p] = D] /\ DraftDocs(D)
      BY <1>5, <2>1, DocsFacts, CallDocs
    <2> QED
      BY <1>0, <1>5, <2>2, ReturnDocs
  <1> QED
    BY <1>2, <1>3, <1>4, <1>5

LEMMA WriteDocs ==
    ASSUME ConfigInv, DocumentsInv, NEW p \in Process, WriteBackup(p) \/ WriteFile(p) \/ WriteFails(p)
    PROVE  DocumentsInv'
  <1>1. CASE WriteFails(p)
    BY <1>1, PlainReturnDocs DEF WriteFails
  <1>0. Target(p) \in File /\ DOMAIN file = File /\ DOMAIN backup = File
    BY PlaceFacts, TargetFile, ProcessFacts DEF Target, Domains
  <1>c. IsDocument(Current(p).document)
    BY DocsFacts
  <1>2. CASE WriteBackup(p)
    <2>1. /\ op' = [op EXCEPT ![p].pc = "write"] /\ UNCHANGED <<file, draft, rt>>
          /\ backup' = [backup EXCEPT ![Target(p)] = Current(p)]
      BY <1>2 DEF WriteBackup
    <2>2. OnlyProcess(p) /\ HoldsDocuments(p)'
      BY <2>1, MoveDocs
    <2>3. FilesAreDocuments'
      BY <1>0, <1>c, <2>1, DocsFacts DEF FilesAreDocuments
    <2> QED
      BY <2>2, <2>3, DocsStep
  <1>3. CASE WriteFile(p)
    <2>1. UNCHANGED <<backup, draft, rt>>
      BY <1>3 DEF WriteFile
    <2>2. \E content : file' = [file EXCEPT ![Target(p)] = content] /\ IsDocument(content.document)
      <3>1. CASE op[p].name = "commit"
        <4>1. PICK d : d = CHOOSE e \in draft[p] : TRUE
          OBVIOUS
        <4>2. d \in draft[p]
          BY <3>1, <4>1, ProcessFacts DEF CallOK
        <4>3. PICK content : content = [document |-> d.document, bytes |-> "toml"]
          OBVIOUS
        <4>4. file' = [file EXCEPT ![Target(p)] = content]
          BY <1>3, <3>1, <4>1, <4>3 DEF WriteFile
        <4>5. content.document = d.document
          BY <4>3
        <4> QED
          BY <4>2, <4>4, <4>5, DocsFacts DEF DraftDocs
      <3>2. CASE op[p].name # "commit"
        BY <1>3, <1>c, <3>2 DEF WriteFile
      <3> QED
        BY <3>1, <3>2
    <2>3. FilesAreDocuments'
      BY <1>0, <2>1, <2>2, DocsFacts DEF FilesAreDocuments
    <2>4. PICK b : b = Call(op[p].name, "load_user", op[p].scope)
      OBVIOUS
    <2>5. PICK c : c = [b EXCEPT !.raced = op[p].raced]
      OBVIOUS
    <2>6. op' = [op EXCEPT ![p] = c] /\ draft' = draft /\ rt' = rt
      BY <1>3, <2>4, <2>5 DEF WriteFile
    <2>7. OnlyProcess(p) /\ op'[p] = c /\ draft'[p] = draft[p] /\ rt'[p] = rt[p]
      BY <2>6, CallOnly
    <2>8. DocsOf(b) /\ DOMAIN b = CallFields
      BY <2>4, CallDocs, CallIs
    <2>9. c.user = b.user /\ c.project = b.project
      BY <2>5, <2>8 DEF CallFields
    <2>10. HoldsDocuments(p)'
      BY <2>7, <2>8, <2>9, DocsFacts DEF HoldsDocuments, DocsOf
    <2> QED
      BY <2>3, <2>7, <2>10, DocsStep
  <1> QED
    BY <1>1, <1>2, <1>3

LEMMA LoadDocs ==
    ASSUME ConfigInv, DocumentsInv, NEW p \in Process, LoadProject(p)
    PROVE  DocumentsInv'
  <1>1. PICK user, project : user = op[p].user /\ project = file[ProjectFile[p]]
    OBVIOUS
  <1>2. PICK r : r = reload(rt[p], user, project)
    OBVIOUS
  <1>3. PICK D : D = IF op[p].name = "commit" THEN {} ELSE draft[p]
    OBVIOUS
  <1>4. /\ rt' = [rt EXCEPT ![p] = r] /\ draft' = [draft EXCEPT ![p] = D]
        /\ op' = [op EXCEPT ![p] = Idle] /\ UNCHANGED <<file, backup>>
    BY <1>1, <1>2, <1>3 DEF LoadProject, Return
  <1>5. IsDocument(user.document) /\ IsDocument(project.document)
    BY <1>1, DocsFacts DEF FilesAreDocuments, File, DocsOf
  <1>6. RuntimeDocs(r)
    <2>1. /\ r.user = user /\ r.project = project
          /\ r.last = IF Issues(user, project) = {}
                      THEN {[user |-> user.document, project |-> project.document]}
                      ELSE rt[p].last
      BY <1>2 DEF reload
    <2>2. \A pair \in r.last : IsDocument(pair.user) /\ IsDocument(pair.project)
      BY <1>5, <2>1, DocsFacts DEF RuntimeDocs
    <2> QED
      BY <1>5, <2>1, <2>2 DEF RuntimeDocs, DocsOf
  <1>7. DraftDocs(D) /\ DocsOf(Idle)
    BY <1>3, DocsFacts, CallDocs
  <1> QED
    BY <1>4, <1>6, <1>7, FreshDocs

LEMMA CrashDocs ==
    ASSUME ConfigInv, DocumentsInv, NEW p \in Process, Crash(p)
    PROVE  DocumentsInv'
  <1>1. PICK c : c = Call("reload", "load_user", "user")
    OBVIOUS
  <1>2. /\ op' = [op EXCEPT ![p] = c] /\ rt' = [rt EXCEPT ![p] = Unopened]
        /\ draft' = [draft EXCEPT ![p] = {}] /\ UNCHANGED <<file, backup>>
    BY <1>1 DEF Crash
  <1>3. DocsOf(c) /\ RuntimeDocs(Unopened) /\ DraftDocs({})
    BY <1>1, CallDocs
  <1> QED
    BY <1>2, <1>3, FreshDocs

LEMMA HandDocs ==
    ASSUME ConfigInv, DocumentsInv, NEW f \in File, HandEdit(f)
    PROVE  DocumentsInv'
  <1>1. PICK content \in {Missing, Bad} \cup [document : HandDocument, bytes : {"hand"}] :
          file' = [file EXCEPT ![f] = content]
    BY DEF HandEdit
  <1>2. /\ op' = [p \in Process |-> [op[p] EXCEPT !.raced = op[p].pc # "idle"]]
        /\ UNCHANGED <<backup, rt, draft>>
    BY DEF HandEdit
  <1>3. IsDocument(content.document)
    <2>1. Missing.document = Empty /\ Bad.document = Empty
      BY DEF Missing, Bad
    <2>2. content \in [document : HandDocument, bytes : {"hand"}] => content.document \in HandDocument
      OBVIOUS
    <2>3. \A document \in HandDocument : IsDocument(document)
      BY DocumentAssumption, Zenon
    <2> QED
      BY <1>1, <2>1, <2>2, <2>3, EmptyIsDocument
  <1>4. FilesAreDocuments
    BY DEF DocumentsInv
  <1>5. FilesAreDocuments'
    <2>1. DOMAIN file = File
      BY DEF ConfigInv, Domains
    <2> QED
      BY <1>1, <1>2, <1>3, <1>4, <2>1 DEF FilesAreDocuments
  <1>6. ASSUME NEW p \in Process PROVE HoldsDocuments(p)'
    <2>1. PICK b : b = (op[p].pc # "idle")
      OBVIOUS
    <2>2. op'[p] = [op[p] EXCEPT !.raced = b]
      BY <1>2, <2>1
    <2>3. DOMAIN op[p] = CallFields
      BY ProcessFacts DEF IsCall, CallFields
    <2>4. op'[p].user = op[p].user /\ op'[p].project = op[p].project
      BY <2>2, <2>3 DEF CallFields
    <2> QED
      BY <1>2, <2>4, DocsFacts DEF HoldsDocuments, DocsOf
  <1> QED
    BY <1>5, <1>6 DEF DocumentsInv

LEMMA DocumentsInit == Init => DocumentsInv
  <1> SUFFICES ASSUME Init PROVE DocumentsInv
    OBVIOUS
  <1>1. FilesAreDocuments
    <2> SUFFICES ASSUME NEW f \in File
                 PROVE  IsDocument(file[f].document) /\ IsDocument(backup[f].document)
      BY DEF FilesAreDocuments
    <2>1. file[f].document = InitialDocument[f] /\ backup[f].document = InitialBackup[f].document
      BY DEF Init
    <2>2. IsDocument(InitialDocument[f]) /\ IsDocument(InitialBackup[f].document)
      BY DocumentAssumption
    <2> QED
      BY <2>1, <2>2
  <1>2. ASSUME NEW p \in Process PROVE HoldsDocuments(p)
    <2>1. op[p] = Call("reload", "load_user", "user") /\ rt[p] = Unopened /\ draft[p] = {}
      BY DEF Init
    <2> QED
      BY <2>1, CallDocs DEF HoldsDocuments
  <1> QED
    BY <1>1, <1>2 DEF DocumentsInv

LEMMA DocumentsStep ==
    ASSUME ConfigInv, DocumentsInv, [Next]_vars
    PROVE  DocumentsInv'
  <1>1. CASE UNCHANGED vars
    BY <1>1 DEF vars, DocumentsInv, FilesAreDocuments, HoldsDocuments
  <1>2. CASE \E p \in Process, scope \in Scope :
                \/ begin_draft(p, scope)
                \/ \E m \in Preset, provider \in Profile :
                      /\ <<"model_presets", m>> \in EditableObject
                      /\ begin_model_preset(p, scope, m, provider)
                \/ StartRestore(p, scope)
    BY <1>2, BeginDocs, StartsDocs
  <1>3. CASE \E p \in Process :
                \/ \E path \in EditablePath : Reset(p, path) \/ \E v \in Value[path] : Set(p, path, v)
                \/ \E object \in EditableObject : DeleteObject(p, object)
                \/ Discard(p)
    BY <1>3, EditsDocs
  <1>4. CASE \E p \in Process : \/ StartCommit(p) \/ StartReload(p) \/ LockFirst(p) \/ LockSecond(p)
                                \/ ReadUser(p) \/ LoadUser(p) \/ CheckCommit(p) \/ CheckRestore(p)
    BY <1>4, StartsDocs, LockDocs, ReadsDocs, ChecksDocs
  <1>5. CASE \E p \in Process : \/ WriteBackup(p) \/ WriteFile(p) \/ WriteFails(p)
                                \/ LoadProject(p) \/ Crash(p)
    BY <1>5, WriteDocs, LoadDocs, CrashDocs
  <1>6. CASE \E f \in File : HandEdit(f)
    BY <1>6, HandDocs
  <1> QED
    BY <1>1, <1>2, <1>3, <1>4, <1>5, <1>6, Zenon DEF Next

LEMMA InvExecutable ==
    ConfigInv /\ DocumentsInv => FallbackChainsAreExecutable
  <1> SUFFICES ASSUME ConfigInv, DocumentsInv, NEW p \in Process
               PROVE  /\ \A d \in draft[p] :
                            FindsWhatIsThere(IF d.scope = "user"
                                             THEN Effective(d.document, rt[p].project.document)
                                             ELSE Effective(rt[p].user.document, d.document))
                      /\ \A pair \in rt[p].last : ListsCandidates(Effective(pair.user, pair.project))
    BY Zenon DEF FallbackChainsAreExecutable
  <1>1. /\ DocsOf(rt[p]) /\ DraftDocs(draft[p])
        /\ \A pair \in rt[p].last : IsDocument(pair.user) /\ IsDocument(pair.project)
    BY DocsFacts DEF RuntimeDocs
  <1>2. ASSUME NEW d \in draft[p]
        PROVE  FindsWhatIsThere(IF d.scope = "user"
                                THEN Effective(d.document, rt[p].project.document)
                                ELSE Effective(rt[p].user.document, d.document))
    <2>1. /\ IsDocument(Effective(d.document, rt[p].project.document))
          /\ IsDocument(Effective(rt[p].user.document, d.document))
      BY <1>1, EffectiveIsDocument DEF DocsOf, DraftDocs
    <2> QED
      BY <2>1, FindsWhenListed
  <1>3. ASSUME NEW pair \in rt[p].last PROVE ListsCandidates(Effective(pair.user, pair.project))
    <2>1. IsDocument(Effective(pair.user, pair.project))
      BY <1>1, EffectiveIsDocument
    <2>2. validate_effective(Effective(pair.user, pair.project))
      BY ProcessFacts DEF LastOK, resolve_documents
    <2> QED
      BY <2>1, <2>2, ListsWhenValid
  <1> QED
    BY <1>2, <1>3

\* Whatever the layers and the drafts hold, validate_fallback_cycles finds a
\* cycle of fallbacks exactly when there is one, and over every configuration
\* that resolved model_preset_chain lists each preset's candidates once, no more
\* than may be, every one a preset with a Provider to call.
THEOREM FallbackChainsExecutable == Spec => []FallbackChainsAreExecutable
  <1>1. Init => DocumentsInv
    BY DocumentsInit
  <1>2. ConfigInv /\ DocumentsInv /\ [Next]_vars => DocumentsInv'
    BY DocumentsStep
  <1>3. ConfigInv /\ DocumentsInv => FallbackChainsAreExecutable
    BY InvExecutable
  <1> QED
    BY ConfigInvariant, <1>1, <1>2, <1>3, PTL DEF Spec

=============================================================================
