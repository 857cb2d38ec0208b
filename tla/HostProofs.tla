----------------------------- MODULE HostProofs -----------------------------
(***************************************************************************)
(* Theorems about what the program does to the machine it runs on, for any  *)
(* number of processes: the secrets of the credential vault stay with their *)
(* origins, guarded writes replace what was read, and no git command loses  *)
(* a commit or merges anything but what it preflighted.                     *)
(*                                                                          *)
(* Also about its connections: the exchanges with a Provider and what the   *)
(* decoders make of them, and the requests of an App Server's client.       *)
(***************************************************************************)
EXTENDS CredentialVault, Workspace, WorkspaceGit, ProviderTransport, ServerConnection, FoldSums,
        SequenceTheorems, TLAPS

-----------------------------------------------------------------------------
(* The credential vault.                                                     *)

VaultSpec == VaultInit /\ [][VaultNext]_vault_vars

ValidScopes == {s \in Scopes : ~InvalidScope(s)}
Accesses == [goal : {"bind", "replace"}, scope : ValidScopes, secret : ValidSecret]

\* Every entry was written for a scope of its name; what a process is about to
\* write is a valid secret for a valid scope.
VaultInv ==
    /\ access \in [VaultUsers -> Accesses \cup {NoAccess}]
    /\ \A n \in DOMAIN entries :
          \E s \in Scopes : n = target_name(s) /\ Bound(s, entries[n]) \in written

LEMMA VaultInitial == VaultInit => VaultInv
  BY DEF VaultInit, VaultInv

LEMMA BeginWriteStep ==
    ASSUME VaultInv, NEW p \in VaultUsers, NEW goal \in {"bind", "replace"}, NEW s \in Scopes,
           NEW secret, begin_write(p, goal, s, secret)
    PROVE  VaultInv'
  <1>1. PICK a : a = [goal |-> goal, scope |-> s, secret |-> secret]
    OBVIOUS
  <1>2. a \in Accesses
    BY <1>1 DEF begin_write, Accesses, ValidScopes
  <1>3. access' = [access EXCEPT ![p] = a] /\ entries' = entries /\ written' = written
    BY <1>1 DEF begin_write
  <1>4. access' \in [VaultUsers -> Accesses \cup {NoAccess}]
    BY <1>2, <1>3 DEF VaultInv
  <1>5. QED
    BY <1>3, <1>4 DEF VaultInv

LEMMA WriteStep ==
    ASSUME VaultInv, NEW p \in VaultUsers, write(p)
    PROVE  VaultInv'
  <1>1. access' \in [VaultUsers -> Accesses \cup {NoAccess}]
    BY DEF write, VaultInv
  <1>2. CASE UNCHANGED <<entries, written>>
    BY <1>1, <1>2 DEF VaultInv
  <1>3. CASE ~UNCHANGED <<entries, written>>
    <2>1. PICK s, secret, name : s = access[p].scope /\ secret = access[p].secret /\ name = target_name(s)
      OBVIOUS
    <2>2. s \in Scopes
      <3>1. access[p] \in Accesses
        BY DEF write, VaultInv
      <3>2. QED
        BY <2>1, <3>1 DEF Accesses, ValidScopes
    <2>3. /\ entries' = [n \in DOMAIN entries \cup {name} |-> IF n = name THEN secret ELSE entries[n]]
          /\ written' = written \cup {Bound(s, secret)}
      BY <1>3, <2>1 DEF write
    <2>4. ASSUME NEW n \in DOMAIN entries'
          PROVE  \E z \in Scopes : n = target_name(z) /\ Bound(z, entries'[n]) \in written'
      <3>1. CASE n = name
        BY <2>1, <2>2, <2>3, <3>1
      <3>2. CASE n # name
        <4>1. n \in DOMAIN entries /\ entries'[n] = entries[n]
          BY <2>3, <2>4, <3>2
        <4>2. PICK z \in Scopes : n = target_name(z) /\ Bound(z, entries[n]) \in written
          BY <4>1 DEF VaultInv
        <4>3. QED
          BY <2>3, <4>1, <4>2
      <3>3. QED
        BY <3>1, <3>2
    <2>5. (\A n \in DOMAIN entries :
              \E z \in Scopes : n = target_name(z) /\ Bound(z, entries[n]) \in written)'
      BY <2>4 DEF Bound, target_name
    <2>6. QED
      BY <1>1, <2>5 DEF VaultInv
  <1>4. QED
    BY <1>2, <1>3

LEMMA ForgetStep ==
    ASSUME VaultInv, NEW p, NEW s, forget(p, s)
    PROVE  VaultInv'
  <1>1. PICK name : name = target_name(s)
    OBVIOUS
  <1>2. entries' = [n \in DOMAIN entries \ {name} |-> entries[n]] /\ access' = access /\ written' = written
    BY <1>1 DEF forget
  <1>3. ASSUME NEW n \in DOMAIN entries'
        PROVE  n \in DOMAIN entries /\ entries'[n] = entries[n]
    BY <1>2, <1>3
  <1>4. QED
    BY <1>2, <1>3 DEF VaultInv

\* The inductive invariant of the vault, over the two calls a write takes.
THEOREM VaultInvariant == VaultSpec => []VaultInv
  <1>1. VaultInv /\ [VaultNext]_vault_vars => VaultInv'
    <2>1. ASSUME VaultInv, [VaultNext]_vault_vars PROVE VaultInv'
      <3>1. CASE UNCHANGED vault_vars
        BY <2>1, <3>1 DEF VaultInv, vault_vars
      <3>2. ASSUME NEW p \in VaultUsers,
                   \/ write(p)
                   \/ \E s \in Scopes :
                        \/ forget(p, s)
                        \/ \E secret \in Secrets : bind(p, s, secret) \/ replace(p, s, secret)
            PROVE  VaultInv'
        <4>1. ASSUME NEW s \in Scopes, NEW secret \in Secrets, bind(p, s, secret) \/ replace(p, s, secret)
              PROVE  VaultInv'
          <5>1. PICK goal \in {"bind", "replace"} : begin_write(p, goal, s, secret)
            BY <4>1 DEF bind, replace
          <5>2. QED
            BY <2>1, <5>1, BeginWriteStep
        <4>2. QED
          BY <2>1, <3>2, <4>1, WriteStep, ForgetStep
      <3>3. QED
        BY <2>1, <3>1, <3>2 DEF VaultNext
    <2>2. QED
      BY <2>1
  <1>2. QED
    BY <1>1, VaultInitial, PTL DEF VaultSpec

\* What credential_vault.rs resolves for a scope is a secret that some process
\* wrote for that profile, reference and origin, and no scope in plain text
\* beyond the machine resolves.
THEOREM SecretsStay == VaultSpec => []SecretStaysWithItsOrigin
  <1>1. VaultInv => SecretStaysWithItsOrigin
    <2>1. ASSUME VaultInv, NEW s \in Scopes, resolve(s) \in Secrets
          PROVE  Bound(s, resolve(s)) \in written /\ (s.url.loopback \/ s.url.scheme = "https")
      <3>1. PICK name : name = target_name(s)
        OBVIOUS
      <3>2. ~InvalidScope(s) /\ name \in DOMAIN entries /\ resolve(s) = entries[name]
        BY <2>1, <3>1, VaultAssumption DEF resolve, read
      <3>3. PICK z \in Scopes : name = target_name(z) /\ Bound(z, entries[name]) \in written
        BY <2>1, <3>2 DEF VaultInv
      <3>4. z.profile = s.profile /\ z.reference = s.reference /\ z.url.origin = s.url.origin
        BY <3>1, <3>3 DEF target_name
      <3>5. Bound(z, entries[name]) = Bound(s, entries[name])
        BY <3>4 DEF Bound
      <3>6. s.url.loopback \/ s.url.scheme = "https"
        BY <3>2 DEF InvalidScope
      <3>7. QED
        BY <3>2, <3>3, <3>5, <3>6
    <2>2. QED
      BY <2>1 DEF SecretStaysWithItsOrigin
  <1>2. QED
    BY <1>1, VaultInvariant, PTL

-----------------------------------------------------------------------------
(* Workspace files.                                                          *)

WorkspaceSpec == WorkspaceInit /\ [][WorkspaceNext]_workspace_vars

Opening == {"opened", "leased"}
Checking == {"validate", "target", "write"}
Writing == {"target", "write"}
Leasing == {"leased", "capture", "validate", "target", "write"}

\* A command's record at every step, and the Lease it holds by then.
CommandOK(k, l) ==
    /\ k.step \in {"idle", "opened", "leased", "capture", "validate", "target", "write"}
    /\ k.step = "idle" => DOMAIN k = {"step"}
    /\ k.step \in Opening => DOMAIN k = {"step", "kind", "inode"}
    /\ k.step = "capture" => /\ DOMAIN k = {"step", "kind", "inode", "left", "entries"}
                             /\ k.left \subseteq Files /\ DOMAIN k.entries \subseteq Files
    /\ k.step \in Checking =>
          DOMAIN k = {"step", "kind", "inode", "left", "entries", "stale", "target", "bytes"}
    /\ k.step \in Writing => k.kind = "apply" /\ k.target \in DOMAIN k.entries
    /\ l = IF k.step \in Leasing THEN [access |-> Access(k.kind), inode |-> k.inode] ELSE NoLease

\* The Read Set it checks is one that was saved, for the directory it opened.
ReadSetOK(k, S) ==
    k.step \in Checking =>
        /\ [inode |-> k.inode, entries |-> k.entries] \in S /\ DOMAIN k.entries \subseteq Files

\* What it has found, as long as nobody changed the directory without a Lease.
FoundOK(k, r) ==
    /\ k.step # "idle" => k.inode = r.inode
    /\ k.step = "validate" =>
          \A x \in DOMAIN k.entries \ k.left : x \notin k.stale => r.files[x] = k.entries[x]
    /\ k.step \in Writing => \A x \in DOMAIN k.entries : r.files[x] = k.entries[x]

\* Only one command holds a Lease of a directory if one of them may write.
Exclusive ==
    \A p, q \in Workers :
        p # q /\ lease[p].access = "ReadWrite" /\ lease[q].access # "none"
            => lease[p].inode # lease[q].inode

WorkspaceInv ==
    /\ DOMAIN root = {"inode", "files"} /\ DOMAIN root.files = Files
    /\ DOMAIN command = Workers /\ lease = [p \in Workers |-> lease[p]]
    /\ \A r \in saved : r = [inode |-> r.inode, entries |-> r.entries] /\ DOMAIN r.entries \subseteq Files
    /\ \A p \in Workers :
          /\ CommandOK(command[p], lease[p]) /\ ReadSetOK(command[p], saved)
          /\ p \notin edited => FoundOK(command[p], root)
    /\ Exclusive

LEMMA IdleIs ==
    /\ CommandOK(Idle, NoLease) /\ Idle.step = "idle"
    /\ \A S : ReadSetOK(Idle, S) /\ \A r : FoundOK(Idle, r)
  BY DEF CommandOK, Idle, Opening, Checking, Writing, Leasing, ReadSetOK, FoundOK

LEMMA WorkspaceFacts ==
    ASSUME WorkspaceInv, NEW p \in Workers
    PROVE  /\ CommandOK(command[p], lease[p]) /\ ReadSetOK(command[p], saved)
           /\ p \notin edited => FoundOK(command[p], root)
  BY DEF WorkspaceInv

\* A command takes a step that changes no file.
LEMMA WorkerStep ==
    ASSUME WorkspaceInv, NEW p \in Workers, NEW k, NEW l,
           command' = [command EXCEPT ![p] = k], lease' = [lease EXCEPT ![p] = l],
           root' = root, saved \subseteq saved',
           \A r \in saved' : r = [inode |-> r.inode, entries |-> r.entries] /\ DOMAIN r.entries \subseteq Files,
           \A q \in Workers \ {p} : q \notin edited' => q \notin edited,
           CommandOK(k, l), ReadSetOK(k, saved'), p \notin edited' => FoundOK(k, root),
           l = lease[p] \/ l = NoLease
             \/ \A q \in Workers \ {p} :
                  \/ l.access = "ReadWrite" /\ lease[q].access # "none"
                  \/ lease[q].access = "ReadWrite" /\ l.access # "none"
                  => l.inode # lease[q].inode
    PROVE  WorkspaceInv'
  <1>1. DOMAIN command = Workers /\ DOMAIN lease = Workers
    BY DEF WorkspaceInv
  <1>2. /\ DOMAIN command' = Workers /\ lease' = [q \in Workers |-> lease'[q]]
        /\ command'[p] = k /\ lease'[p] = l
        /\ \A q \in Workers \ {p} : command'[q] = command[q] /\ lease'[q] = lease[q]
    BY <1>1
  <1>3. ASSUME NEW q \in Workers
        PROVE  /\ CommandOK(command'[q], lease'[q]) /\ ReadSetOK(command'[q], saved')
               /\ q \notin edited' => FoundOK(command'[q], root')
    <2>1. CASE q = p
      BY <1>2, <2>1
    <2>2. CASE q # p
      <3>1. command'[q] = command[q] /\ lease'[q] = lease[q]
        BY <1>2, <2>2
      <3>2. CommandOK(command'[q], lease'[q])
        BY <3>1, WorkspaceFacts
      <3>3. ReadSetOK(command[q], saved')
        BY WorkspaceFacts DEF ReadSetOK
      <3>4. q \notin edited' => FoundOK(command[q], root')
        BY <2>2, WorkspaceFacts
      <3>5. QED
        BY <3>1, <3>2, <3>3, <3>4
    <2>3. QED
      BY <2>1, <2>2
  <1>4. NoLease.access = "none"
    BY DEF NoLease
  <1>5. Exclusive
    BY DEF WorkspaceInv
  <1>6. Exclusive'
    <2>1. ASSUME NEW x \in Workers, NEW y \in Workers, x # y,
                 lease'[x].access = "ReadWrite", lease'[y].access # "none"
          PROVE  lease'[x].inode # lease'[y].inode
      <3>1. CASE x # p /\ y # p
        BY <1>2, <1>5, <2>1, <3>1 DEF Exclusive
      <3>2. CASE l = lease[p]
        <4>1. lease'[x] = lease[x] /\ lease'[y] = lease[y]
          BY <1>2, <3>2
        <4>2. QED
          BY <1>5, <2>1, <4>1 DEF Exclusive
      <3>3. CASE x = p /\ l # lease[p]
        BY <1>2, <1>4, <2>1, <3>3
      <3>4. CASE y = p /\ l # lease[p]
        BY <1>2, <1>4, <2>1, <3>4
      <3>5. QED
        BY <3>1, <3>2, <3>3, <3>4
    <2>2. QED
      BY <2>1 DEF Exclusive
  <1>7. DOMAIN root' = {"inode", "files"} /\ DOMAIN root'.files = Files
    BY DEF WorkspaceInv
  <1>8. QED
    BY <1>2, <1>3, <1>6, <1>7 DEF WorkspaceInv

SavedOK == \A r \in saved : r = [inode |-> r.inode, entries |-> r.entries] /\ DOMAIN r.entries \subseteq Files

\* It goes on with the Lease it has.
LEMMA SetStep ==
    ASSUME WorkspaceInv, NEW p \in Workers, NEW k, Set(p, k),
           lease' = lease, root' = root, saved' = saved,
           \A q \in Workers \ {p} : q \notin edited' => q \notin edited,
           CommandOK(k, lease[p]), ReadSetOK(k, saved), p \notin edited' => FoundOK(k, root)
    PROVE  WorkspaceInv'
  <1>1. command' = [command EXCEPT ![p] = k]
    BY DEF Set
  <1>2. PICK l : l = lease[p]
    OBVIOUS
  <1>3. lease' = [lease EXCEPT ![p] = l]
    BY <1>2 DEF WorkspaceInv
  <1>4. \A r \in saved' : r = [inode |-> r.inode, entries |-> r.entries] /\ DOMAIN r.entries \subseteq Files
    BY DEF WorkspaceInv
  <1>5. QED
    BY <1>1, <1>2, <1>3, <1>4, WorkerStep

LEMMA DoneWorker ==
    ASSUME WorkspaceInv, NEW p \in Workers, Done(p), root' = root, saved \subseteq saved', SavedOK',
           edited' = edited
    PROVE  WorkspaceInv'
  <1>1. PICK k, l : k = Idle /\ l = NoLease
    OBVIOUS
  <1>2. command' = [command EXCEPT ![p] = k] /\ lease' = [lease EXCEPT ![p] = l]
    BY <1>1 DEF Done, Set
  <1>3. CommandOK(k, l) /\ ReadSetOK(k, saved') /\ FoundOK(k, root)
    BY <1>1, IdleIs
  <1>4. \A r \in saved' : r = [inode |-> r.inode, entries |-> r.entries] /\ DOMAIN r.entries \subseteq Files
    BY DEF SavedOK
  <1>5. QED
    BY <1>1, <1>2, <1>3, <1>4, WorkerStep

LEMMA DoneQuietly ==
    ASSUME WorkspaceInv, NEW p \in Workers, Done(p), root' = root, saved' = saved, edited' = edited
    PROVE  WorkspaceInv'
  <1>1. SavedOK'
    BY DEF WorkspaceInv, SavedOK
  <1>2. QED
    BY <1>1, DoneWorker

LEMMA OpenStep ==
    ASSUME WorkspaceInv, NEW p \in Workers, NEW kind, Open(p, kind)
    PROVE  WorkspaceInv'
  <1>1. PICK k : k = [step |-> "opened", kind |-> kind, inode |-> root.inode]
    OBVIOUS
  <1>2. /\ command[p].step = "idle" /\ Set(p, k) /\ edited' = edited \ {p}
        /\ lease' = lease /\ root' = root /\ saved' = saved
    BY <1>1 DEF Open
  <1>3. k.step = "opened" /\ DOMAIN k = {"step", "kind", "inode"} /\ k.inode = root.inode
    BY <1>1
  <1>4. lease[p] = NoLease
    BY <1>2, WorkspaceFacts DEF CommandOK, Leasing
  <1>5. CommandOK(k, lease[p])
    BY <1>3, <1>4 DEF CommandOK, Opening, Checking, Writing, Leasing
  <1>6. ReadSetOK(k, saved) /\ FoundOK(k, root)
    BY <1>3 DEF ReadSetOK, FoundOK, Checking, Writing
  <1>7. QED
    BY <1>2, <1>5, <1>6, SetStep

LEMMA AcquireStep ==
    ASSUME WorkspaceInv, NEW p \in Workers, Acquire(p)
    PROVE  WorkspaceInv'
  <1>1. command[p].step = "opened" /\ root' = root /\ saved' = saved /\ edited' = edited
    BY DEF Acquire
  <1>2. CASE ~(command[p].inode = root.inode /\ Compatible(p, Access(command[p].kind)))
    <2>1. Done(p)
      BY <1>2 DEF Acquire
    <2>2. QED
      BY <1>1, <2>1, DoneQuietly
  <1>3. CASE command[p].inode = root.inode /\ Compatible(p, Access(command[p].kind))
    <2>1. PICK k, a : k = [command[p] EXCEPT !.step = "leased"] /\ a = Access(command[p].kind)
      OBVIOUS
    <2>2. PICK l : l = [access |-> a, inode |-> root.inode]
      OBVIOUS
    <2>3. command' = [command EXCEPT ![p] = k] /\ lease' = [lease EXCEPT ![p] = l]
      BY <1>3, <2>1, <2>2 DEF Acquire, Set
    <2>4. DOMAIN command[p] = {"step", "kind", "inode"}
      BY <1>1, WorkspaceFacts DEF CommandOK, Opening
    <2>5. /\ DOMAIN k = {"step", "kind", "inode"} /\ k.step = "leased" /\ k.kind = command[p].kind
          /\ k.inode = root.inode
      BY <1>3, <2>1, <2>4
    <2>6. CommandOK(k, l)
      BY <2>1, <2>2, <2>5 DEF CommandOK, Opening, Checking, Writing, Leasing
    <2>7. ReadSetOK(k, saved') /\ FoundOK(k, root)
      BY <2>5 DEF ReadSetOK, FoundOK, Checking, Writing
    <2>8. l.access = a /\ l.inode = root.inode /\ a \in {"ReadOnly", "ReadWrite"}
      BY <2>1, <2>2 DEF Access
    <2>9. \A q \in Workers \ {p} :
              lease[q].inode = root.inode =>
                \/ lease[q].access = "none"
                \/ a = "ReadOnly" /\ lease[q].access = "ReadOnly"
      BY <1>3, <2>1 DEF Compatible
    <2>10. \A q \in Workers \ {p} :
                  \/ l.access = "ReadWrite" /\ lease[q].access # "none"
                  \/ lease[q].access = "ReadWrite" /\ l.access # "none"
                  => l.inode # lease[q].inode
      BY <2>8, <2>9
    <2>11. \A r \in saved' : r = [inode |-> r.inode, entries |-> r.entries] /\ DOMAIN r.entries \subseteq Files
      BY <1>1 DEF WorkspaceInv
    <2>12. QED
      BY <1>1, <2>3, <2>6, <2>7, <2>10, <2>11, WorkerStep
  <1>4. QED
    BY <1>2, <1>3

LEMMA BeginCaptureStep ==
    ASSUME WorkspaceInv, NEW p \in Workers, NEW paths \in SUBSET Files, BeginCapture(p, paths)
    PROVE  WorkspaceInv'
  <1>1. PICK k : k = [step |-> "capture", kind |-> "capture", inode |-> command[p].inode,
                      left |-> paths, entries |-> NoEntries]
    OBVIOUS
  <1>2. /\ command[p].step = "leased" /\ command[p].kind = "capture" /\ Set(p, k)
        /\ lease' = lease /\ root' = root /\ saved' = saved /\ edited' = edited
    BY <1>1 DEF BeginCapture
  <1>3. /\ DOMAIN k = {"step", "kind", "inode", "left", "entries"} /\ k.step = "capture"
        /\ k.kind = command[p].kind /\ k.inode = command[p].inode /\ k.left = paths
        /\ k.entries = NoEntries
    BY <1>1, <1>2
  <1>4. DOMAIN k.entries = {}
    BY <1>3 DEF NoEntries
  <1>5. lease[p] = [access |-> Access(command[p].kind), inode |-> command[p].inode]
    BY <1>2, WorkspaceFacts DEF CommandOK, Leasing
  <1>6. CommandOK(k, lease[p])
    BY <1>3, <1>4, <1>5 DEF CommandOK, Opening, Checking, Writing, Leasing
  <1>7. ReadSetOK(k, saved)
    BY <1>3 DEF ReadSetOK, Checking
  <1>8. p \notin edited => FoundOK(k, root)
    BY <1>2, <1>3, WorkspaceFacts DEF FoundOK, Writing
  <1>9. QED
    BY <1>2, <1>6, <1>7, <1>8, SetStep

LEMMA CaptureEntryStep ==
    ASSUME WorkspaceInv, NEW p \in Workers, command[p].step = "capture", CaptureEntry(p)
    PROVE  WorkspaceInv'
  <1>1. root' = root /\ saved' = saved /\ edited' = edited
    BY DEF CaptureEntry
  <1>2. CASE Done(p)
    BY <1>1, <1>2, DoneQuietly
  <1>3. CASE ~Done(p)
    <2>1. PICK x \in command[p].left :
              /\ Set(p, [command[p] EXCEPT !.left = @ \ {x}, !.entries = With(@, Entry(x, root.files[x]))])
              /\ lease' = lease
      BY <1>3, Zenon DEF CaptureEntry
    <2>2. PICK left, more : left = command[p].left \ {x}
                            /\ more = With(command[p].entries, Entry(x, root.files[x]))
      OBVIOUS
    <2>3. PICK k : k = [command[p] EXCEPT !.left = left, !.entries = more]
      OBVIOUS
    <2>4. Set(p, k)
      BY <2>1, <2>2, <2>3
    <2>5. /\ DOMAIN command[p] = {"step", "kind", "inode", "left", "entries"}
          /\ command[p].left \subseteq Files /\ DOMAIN command[p].entries \subseteq Files
          /\ lease[p] = [access |-> Access(command[p].kind), inode |-> command[p].inode]
      BY WorkspaceFacts DEF CommandOK, Leasing
    <2>6. /\ DOMAIN k = {"step", "kind", "inode", "left", "entries"} /\ k.step = "capture"
          /\ k.kind = command[p].kind /\ k.inode = command[p].inode /\ k.left = left
          /\ k.entries = more
      BY <2>3, <2>5
    <2>7. DOMAIN more = DOMAIN command[p].entries \cup {x}
      BY <2>2 DEF With, Entry
    <2>8. CommandOK(k, lease[p])
      BY <2>2, <2>5, <2>6, <2>7 DEF CommandOK, Opening, Checking, Writing, Leasing
    <2>9. ReadSetOK(k, saved)
      BY <2>6 DEF ReadSetOK, Checking
    <2>10. p \notin edited => FoundOK(k, root)
      BY <2>6, WorkspaceFacts DEF FoundOK, Writing
    <2>11. QED
      BY <1>1, <2>1, <2>4, <2>8, <2>9, <2>10, SetStep
  <1>4. QED
    BY <1>2, <1>3

LEMMA FinishCaptureStep ==
    ASSUME WorkspaceInv, NEW p \in Workers, command[p].step = "capture", FinishCapture(p)
    PROVE  WorkspaceInv'
  <1>1. PICK r : r = [inode |-> command[p].inode, entries |-> command[p].entries]
    OBVIOUS
  <1>2. saved' = saved \cup {r} /\ Done(p) /\ root' = root /\ edited' = edited
    BY <1>1 DEF FinishCapture
  <1>3. r = [inode |-> r.inode, entries |-> r.entries] /\ r.entries = command[p].entries
    BY <1>1
  <1>4. DOMAIN command[p].entries \subseteq Files
    BY WorkspaceFacts DEF CommandOK
  <1>5. SavedOK'
    BY <1>2, <1>3, <1>4 DEF SavedOK, WorkspaceInv
  <1>6. QED
    BY <1>2, <1>5, DoneWorker

LEMMA BeginValidateStep ==
    ASSUME WorkspaceInv, NEW p \in Workers, NEW readset, NEW target, NEW bytes,
           BeginValidate(p, readset, target, bytes)
    PROVE  WorkspaceInv'
  <1>1. command[p].step = "leased" /\ root' = root /\ saved' = saved /\ edited' = edited
    BY DEF BeginValidate
  <1>2. CASE ~(validate_shape(readset) /\ ensure_root(readset, p))
    <2>1. Done(p)
      BY <1>2 DEF BeginValidate
    <2>2. QED
      BY <1>1, <2>1, DoneQuietly
  <1>3. CASE validate_shape(readset) /\ ensure_root(readset, p)
    <2>1. PICK entries0, left : entries0 = readset.entries /\ left = DOMAIN readset.entries
      OBVIOUS
    <2>2. PICK k : k = [step |-> "validate", kind |-> command[p].kind, inode |-> command[p].inode,
                        left |-> left, entries |-> entries0, stale |-> {}, target |-> target,
                        bytes |-> bytes]
      OBVIOUS
    <2>3. Set(p, k) /\ lease' = lease
      BY <1>3, <2>1, <2>2 DEF BeginValidate
    <2>4. /\ DOMAIN k = {"step", "kind", "inode", "left", "entries", "stale", "target", "bytes"}
          /\ k.step = "validate" /\ k.kind = command[p].kind /\ k.inode = command[p].inode
          /\ k.left = left /\ k.entries = entries0
      BY <2>2
    <2>5. lease[p] = [access |-> Access(command[p].kind), inode |-> command[p].inode]
      BY <1>1, WorkspaceFacts DEF CommandOK, Leasing
    <2>6. CommandOK(k, lease[p])
      BY <2>4, <2>5 DEF CommandOK, Opening, Checking, Writing, Leasing
    <2>7. /\ readset \in saved /\ readset.inode = command[p].inode
          /\ readset = [inode |-> readset.inode, entries |-> readset.entries] /\ DOMAIN readset.entries \subseteq Files
      BY <1>3 DEF validate_shape, ensure_root, WorkspaceInv
    <2>8. ReadSetOK(k, saved)
      <3>1. readset = [inode |-> k.inode, entries |-> k.entries]
        BY <2>1, <2>4, <2>7
      <3>2. QED
        BY <2>1, <2>4, <2>7, <3>1 DEF ReadSetOK
    <2>9. p \notin edited => FoundOK(k, root)
      BY <1>1, <2>1, <2>4, WorkspaceFacts DEF FoundOK, Writing
    <2>10. QED
      BY <1>1, <2>3, <2>6, <2>8, <2>9, SetStep
  <1>4. QED
    BY <1>2, <1>3

\* A command in the middle of its checks takes the next one.
LEMMA CheckingStep ==
    ASSUME WorkspaceInv, NEW p \in Workers, command[p].step \in Checking, NEW k, Set(p, k),
           lease' = lease, root' = root, saved' = saved, edited' = edited, k.step \in Checking,
           DOMAIN k = DOMAIN command[p], k.kind = command[p].kind, k.inode = command[p].inode,
           k.entries = command[p].entries, p \notin edited => FoundOK(k, root),
           k.step \in Writing => k.kind = "apply" /\ k.target \in DOMAIN k.entries
    PROVE  WorkspaceInv'
  <1>1. /\ DOMAIN command[p] = {"step", "kind", "inode", "left", "entries", "stale", "target", "bytes"}
        /\ lease[p] = [access |-> Access(command[p].kind), inode |-> command[p].inode]
    BY WorkspaceFacts DEF CommandOK, Leasing, Checking
  <1>2. CommandOK(k, lease[p])
    BY <1>1 DEF CommandOK, Opening, Checking, Writing, Leasing
  <1>3. ReadSetOK(k, saved)
    BY WorkspaceFacts DEF ReadSetOK
  <1>4. QED
    BY <1>2, <1>3, SetStep

LEMMA CheckingIs ==
    ASSUME WorkspaceInv, NEW p \in Workers, command[p].step \in Checking
    PROVE  DOMAIN command[p] = {"step", "kind", "inode", "left", "entries", "stale", "target", "bytes"}
  BY WorkspaceFacts DEF CommandOK

LEMMA WriterIs ==
    ASSUME WorkspaceInv, NEW p \in Workers, command[p].step \in Writing
    PROVE  command[p].kind = "apply" /\ command[p].target \in DOMAIN command[p].entries
  BY WorkspaceFacts DEF CommandOK

LEMMA ValidateEntryStep ==
    ASSUME WorkspaceInv, NEW p \in Workers, command[p].step = "validate", ValidateEntry(p)
    PROVE  WorkspaceInv'
  <1>1. root' = root /\ saved' = saved /\ edited' = edited
    BY DEF ValidateEntry
  <1>2. CASE Done(p)
    BY <1>1, <1>2, DoneQuietly
  <1>3. CASE ~Done(p)
    <2>1. PICK x \in command[p].left :
              /\ Set(p, [command[p] EXCEPT !.left = @ \ {x},
                        !.stale = IF root.files[x] = command[p].entries[x] THEN @ ELSE @ \cup {x}])
              /\ lease' = lease
      BY <1>3, Zenon DEF ValidateEntry
    <2>2. PICK left, stale : /\ left = command[p].left \ {x}
                             /\ stale = IF root.files[x] = command[p].entries[x]
                                        THEN command[p].stale ELSE command[p].stale \cup {x}
      OBVIOUS
    <2>3. PICK k : k = [command[p] EXCEPT !.left = left, !.stale = stale]
      OBVIOUS
    <2>4. Set(p, k)
      BY <2>1, <2>2, <2>3
    <2>5. command[p].step \in Checking
      BY DEF Checking
    <2>6. /\ DOMAIN k = DOMAIN command[p] /\ k.step = "validate" /\ k.kind = command[p].kind
          /\ k.inode = command[p].inode /\ k.entries = command[p].entries /\ k.left = left
          /\ k.stale = stale
      BY <2>3, <2>5, CheckingIs
    <2>7. p \notin edited => FoundOK(k, root)
      BY <2>2, <2>6, WorkspaceFacts DEF FoundOK, Writing
    <2>8. k.step \in Checking /\ k.step \notin Writing
      BY <2>6 DEF Checking, Writing
    <2>9. QED
      BY <1>1, <2>1, <2>4, <2>5, <2>6, <2>7, <2>8, CheckingStep
  <1>4. QED
    BY <1>2, <1>3

LEMMA FinishValidateStep ==
    ASSUME WorkspaceInv, NEW p \in Workers, command[p].step = "validate", FinishValidate(p)
    PROVE  WorkspaceInv'
  <1>1. root' = root /\ saved' = saved /\ edited' = edited /\ command[p].left = {}
    BY DEF FinishValidate
  <1>2. CASE Done(p)
    BY <1>1, <1>2, DoneQuietly
  <1>3. CASE ~Done(p)
    <2>1. PICK k : k = [command[p] EXCEPT !.step = "target"]
      OBVIOUS
    <2>2. Set(p, k) /\ lease' = lease /\ command[p].kind = "apply" /\ MayWrite(command[p])
      BY <1>3, <2>1 DEF FinishValidate
    <2>3. command[p].step \in Checking
      BY DEF Checking
    <2>4. /\ DOMAIN k = DOMAIN command[p] /\ k.step = "target" /\ k.kind = command[p].kind
          /\ k.inode = command[p].inode /\ k.entries = command[p].entries
          /\ k.target = command[p].target
      BY <2>1, <2>3, CheckingIs
    <2>5. command[p].stale = {} /\ command[p].target \in DOMAIN command[p].entries
      BY <2>2 DEF MayWrite
    <2>6. p \notin edited => FoundOK(k, root)
      BY <1>1, <2>2, <2>4, <2>5, WorkspaceFacts DEF FoundOK, Writing
    <2>7. k.step \in Checking
      BY <2>4 DEF Checking
    <2>8. QED
      BY <1>1, <2>2, <2>3, <2>4, <2>5, <2>6, <2>7, CheckingStep
  <1>4. QED
    BY <1>2, <1>3

LEMMA OpenTargetStep ==
    ASSUME WorkspaceInv, NEW p \in Workers, OpenTarget(p)
    PROVE  WorkspaceInv'
  <1>1. root' = root /\ saved' = saved /\ edited' = edited /\ command[p].step = "target"
    BY DEF OpenTarget
  <1>2. CASE Done(p)
    BY <1>1, <1>2, DoneQuietly
  <1>3. CASE ~Done(p)
    <2>1. PICK k : k = [command[p] EXCEPT !.step = "write"]
      OBVIOUS
    <2>2. Set(p, k) /\ lease' = lease
      BY <1>3, <2>1 DEF OpenTarget
    <2>3. command[p].step \in Checking
      BY <1>1 DEF Checking
    <2>4. /\ DOMAIN k = DOMAIN command[p] /\ k.step = "write" /\ k.kind = command[p].kind
          /\ k.inode = command[p].inode /\ k.entries = command[p].entries
          /\ k.target = command[p].target
      BY <2>1, <2>3, CheckingIs
    <2>5. p \notin edited => FoundOK(k, root)
      BY <1>1, <2>4, WorkspaceFacts DEF FoundOK, Writing
    <2>6. k.step \in Checking
      BY <2>4 DEF Checking
    <2>7. command[p].kind = "apply" /\ command[p].target \in DOMAIN command[p].entries
      BY <1>1, WriterIs DEF Writing
    <2>8. QED
      BY <1>1, <2>2, <2>3, <2>4, <2>5, <2>6, <2>7, CheckingStep
  <1>4. QED
    BY <1>2, <1>3

\* A step that changes the directory: every command that is still at work in it
\* afterwards counts as disturbed.
LEMMA DisturbedStep ==
    ASSUME WorkspaceInv, DOMAIN root' = {"inode", "files"}, DOMAIN root'.files = Files,
           DOMAIN command' = Workers, lease' = [p \in Workers |-> lease'[p]], saved' = saved,
           \A p \in Workers :
              \/ command'[p] = Idle /\ lease'[p] = NoLease
              \/ /\ command'[p] = command[p] /\ lease'[p] = lease[p]
                 /\ command[p].step # "idle" => p \in edited'
    PROVE  WorkspaceInv'
  <1>1. ASSUME NEW p \in Workers
        PROVE  /\ CommandOK(command'[p], lease'[p]) /\ ReadSetOK(command'[p], saved')
               /\ p \notin edited' => FoundOK(command'[p], root')
    <2>1. CASE command'[p] = Idle /\ lease'[p] = NoLease
      BY <2>1, IdleIs
    <2>2. CASE /\ command'[p] = command[p] /\ lease'[p] = lease[p]
               /\ command[p].step # "idle" => p \in edited'
      <3>1. CommandOK(command'[p], lease'[p]) /\ ReadSetOK(command'[p], saved')
        BY <2>2, WorkspaceFacts
      <3>2. command[p].step = "idle" => FoundOK(command[p], root')
        BY DEF FoundOK, Writing
      <3>3. QED
        BY <2>2, <3>1, <3>2
    <2>3. QED
      BY <2>1, <2>2
  <1>2. Exclusive'
    <2>1. \A p \in Workers : lease'[p] = lease[p] \/ lease'[p].access = "none"
      BY DEF NoLease
    <2>2. \A p \in Workers : "none" # "ReadWrite"
      OBVIOUS
    <2>3. QED
      BY <2>1, <2>2 DEF WorkspaceInv, Exclusive
  <1>3. QED
    BY <1>1, <1>2 DEF WorkspaceInv

\* The guarded write: whoever else is at work in the directory holds no Lease
\* that lets this one write, unless it writes into another directory.
LEMMA ReplaceStep ==
    ASSUME WorkspaceInv, NEW p \in Workers, Replace(p)
    PROVE  WorkspaceInv'
  <1>1. command[p].step = "write" /\ saved' = saved
    BY DEF Replace
  <1>2. PICK x, b : x = command[p].target /\ b = command[p].bytes
    OBVIOUS
  <1>3. PICK files : files = [root.files EXCEPT ![x] = b]
    OBVIOUS
  <1>4. root' = [root EXCEPT !.files = files]
    BY <1>2, <1>3 DEF Replace
  <1>5. DOMAIN root' = {"inode", "files"} /\ root'.inode = root.inode /\ DOMAIN root'.files = Files
    BY <1>3, <1>4 DEF WorkspaceInv
  <1>6. PICK k, l : k = Idle /\ l = NoLease
    OBVIOUS
  <1>7. command' = [command EXCEPT ![p] = k] /\ lease' = [lease EXCEPT ![p] = l]
    BY <1>6 DEF Replace, Done, Set
  <1>8. /\ DOMAIN command' = Workers /\ lease' = [q \in Workers |-> lease'[q]]
        /\ command'[p] = Idle /\ lease'[p] = NoLease
        /\ \A q \in Workers \ {p} : command'[q] = command[q] /\ lease'[q] = lease[q]
    BY <1>6, <1>7 DEF WorkspaceInv
  <1>9. CASE command[p].inode # root.inode
    <2>1. edited' = edited \cup Running
      BY <1>9 DEF Replace
    <2>2. \A q \in Workers : command[q].step # "idle" => q \in edited'
      BY <2>1 DEF Running
    <2>3. QED
      BY <1>1, <1>5, <1>8, <2>2, DisturbedStep
  <1>10. CASE command[p].inode = root.inode
    <2>1. edited' = edited
      BY <1>10 DEF Replace
    <2>2. ASSUME NEW q \in Workers \ {p}, q \notin edited
          PROVE  command[q].step \notin Checking
      <3>1. CASE command[q].step \in Checking
        <4>1. FoundOK(command[q], root) /\ CommandOK(command[q], lease[q])
          BY <2>2, WorkspaceFacts
        <4>2. command[q].inode = root.inode
          BY <3>1, <4>1 DEF FoundOK, Checking
        <4>3. lease[q] = [access |-> Access(command[q].kind), inode |-> command[q].inode]
          BY <3>1, <4>1 DEF CommandOK, Leasing, Checking
        <4>4. lease[p] = [access |-> Access(command[p].kind), inode |-> command[p].inode]
          BY <1>1, WorkspaceFacts DEF CommandOK, Leasing
        <4>5. Access(command[p].kind) = "ReadWrite"
          BY <1>1, WriterIs DEF Access, Writing
        <4>6. /\ lease[p].access = "ReadWrite" /\ lease[q].access # "none"
              /\ lease[p].inode = lease[q].inode
          BY <1>10, <4>2, <4>3, <4>4, <4>5 DEF Access
        <4>7. QED
          BY <2>2, <4>6 DEF WorkspaceInv, Exclusive
      <3>2. QED
        BY <3>1
    <2>3. ASSUME NEW q \in Workers
          PROVE  /\ CommandOK(command'[q], lease'[q]) /\ ReadSetOK(command'[q], saved')
                 /\ q \notin edited' => FoundOK(command'[q], root')
      <3>1. CASE q = p
        BY <1>8, <3>1, IdleIs
      <3>2. CASE q # p
        <4>1. command'[q] = command[q] /\ lease'[q] = lease[q]
          BY <1>8, <3>2
        <4>2. CommandOK(command'[q], lease'[q]) /\ ReadSetOK(command'[q], saved')
          BY <1>1, <4>1, WorkspaceFacts
        <4>3. q \notin edited => FoundOK(command[q], root')
          BY <1>5, <2>2, <3>2, WorkspaceFacts DEF FoundOK, Checking, Writing
        <4>4. QED
          BY <2>1, <4>1, <4>2, <4>3
      <3>3. QED
        BY <3>1, <3>2
    <2>4. Exclusive'
      <3>1. \A q \in Workers : lease'[q] = lease[q] \/ lease'[q].access = "none"
        BY <1>8 DEF NoLease
      <3>2. QED
        BY <3>1 DEF WorkspaceInv, Exclusive
    <2>5. QED
      BY <1>1, <1>5, <1>8, <2>3, <2>4 DEF WorkspaceInv
  <1>11. QED
    BY <1>9, <1>10

\* A change made without a Lease disturbs every command at work.
LEMMA UnleasedStep ==
    ASSUME WorkspaceInv, DOMAIN root' = {"inode", "files"}, DOMAIN root'.files = Files, Unleased
    PROVE  WorkspaceInv'
  <1>1. edited' = edited \cup Running /\ lease' = lease /\ command' = command /\ saved' = saved
    BY DEF Unleased
  <1>2. \A p \in Workers : command[p].step # "idle" => p \in edited'
    BY <1>1 DEF Running
  <1>3. DOMAIN command' = Workers /\ lease' = [p \in Workers |-> lease'[p]]
    BY <1>1 DEF WorkspaceInv
  <1>4. QED
    BY <1>1, <1>2, <1>3, DisturbedStep

LEMMA OutsideStep ==
    ASSUME WorkspaceInv, (\E f \in Files, c \in Contents \cup Special : EditFile(f, c)) \/ ReplaceRoot
    PROVE  WorkspaceInv'
  <1>1. DOMAIN root = {"inode", "files"} /\ DOMAIN root.files = Files
    BY DEF WorkspaceInv
  <1>2. CASE ReplaceRoot
    <2>1. Unleased /\ DOMAIN root' = {"inode", "files"} /\ root'.files = root.files
      BY <1>1, <1>2 DEF ReplaceRoot
    <2>2. QED
      BY <1>1, <2>1, UnleasedStep
  <1>3. ASSUME NEW f \in Files, NEW c, EditFile(f, c)
        PROVE  WorkspaceInv'
    <2>1. PICK files : files = [root.files EXCEPT ![f] = c]
      OBVIOUS
    <2>2. Unleased /\ root' = [root EXCEPT !.files = files]
      BY <1>3, <2>1 DEF EditFile
    <2>3. DOMAIN root' = {"inode", "files"} /\ DOMAIN root'.files = Files
      BY <1>1, <2>1, <2>2
    <2>4. QED
      BY <2>2, <2>3, UnleasedStep
  <1>4. QED
    BY <1>2, <1>3

LEMMA CommandStepsKeep ==
    ASSUME WorkspaceInv, NEW p \in Workers, CommandSteps(p)
    PROVE  WorkspaceInv'
  <1>1. CASE \E kind \in {"capture", "validate", "apply"} : Open(p, kind)
    BY <1>1, OpenStep
  <1>2. CASE Acquire(p)
    BY <1>2, AcquireStep
  <1>3. CASE \E paths \in SUBSET Files : BeginCapture(p, paths)
    BY <1>3, BeginCaptureStep
  <1>4. CASE Capture(p)
    BY <1>4, CaptureEntryStep, FinishCaptureStep DEF Capture
  <1>5. CASE \E r, f, c : BeginValidate(p, r, f, c)
    BY <1>5, BeginValidateStep
  <1>6. CASE Validate(p)
    BY <1>6, ValidateEntryStep, FinishValidateStep DEF Validate
  <1>7. CASE OpenTarget(p)
    BY <1>7, OpenTargetStep
  <1>8. CASE Replace(p)
    BY <1>8, ReplaceStep
  <1>9. CASE Die(p)
    BY <1>9, DoneQuietly DEF Die
  <1>10. QED
    BY <1>1, <1>2, <1>3, <1>4, <1>5, <1>6, <1>7, <1>8, <1>9 DEF CommandSteps

LEMMA WorkspaceInitOK == WorkspaceInit => WorkspaceInv
  <1> SUFFICES ASSUME WorkspaceInit PROVE WorkspaceInv
    OBVIOUS
  <1>1. /\ root \in [inode : {1}, files : [Files -> Contents]]
        /\ lease = [p \in Workers |-> NoLease] /\ command = [p \in Workers |-> Idle] /\ saved = {}
    BY DEF WorkspaceInit
  <1>2. DOMAIN root = {"inode", "files"} /\ DOMAIN root.files = Files
    BY <1>1
  <1>3. ASSUME NEW p \in Workers
        PROVE  /\ CommandOK(command[p], lease[p]) /\ ReadSetOK(command[p], saved)
               /\ p \notin edited => FoundOK(command[p], root)
    BY <1>1, IdleIs
  <1>4. Exclusive
    BY <1>1 DEF Exclusive, NoLease
  <1>5. QED
    BY <1>1, <1>2, <1>3, <1>4 DEF WorkspaceInv

\* Every state keeps the records and Leases of the commands, their exclusion,
\* and what each command has found, as long as no program without a Lease
\* changed the directory under it (workspace.rs acquire_lease, ReadSet::validate).
THEOREM WorkspaceInvariant == WorkspaceSpec => []WorkspaceInv
  <1>1. WorkspaceInv /\ [WorkspaceNext]_workspace_vars => WorkspaceInv'
    <2> SUFFICES ASSUME WorkspaceInv, [WorkspaceNext]_workspace_vars PROVE WorkspaceInv'
      OBVIOUS
    <2>1. CASE UNCHANGED workspace_vars
      BY <2>1 DEF workspace_vars, WorkspaceInv, Exclusive
    <2>2. CASE \E p \in Workers : CommandSteps(p)
      BY <2>2, CommandStepsKeep
    <2>3. CASE (\E f \in Files, c \in Contents \cup Special : EditFile(f, c)) \/ ReplaceRoot
      BY <2>3, OutsideStep
    <2>4. QED
      BY <2>1, <2>2, <2>3 DEF WorkspaceNext
  <1>2. QED
    BY <1>1, WorkspaceInitOK, PTL DEF WorkspaceSpec

\* No stale overwrite (ADR 0011, workspace.rs apply_file): for any number of
\* processes, files and Read Sets, a guarded write that no unleased program ran
\* into replaces a file of the directory its Read Set was captured in, all of
\* whose files still are as they were read.
THEOREM GuardedWrites == WorkspaceSpec => WritesReplaceWhatWasRead
  <1>1. ASSUME WorkspaceInv, NEW p \in Workers, command[p].step = "write", p \notin edited
        PROVE  /\ root.inode = command[p].inode
               /\ command[p].target \in DOMAIN command[p].entries
               /\ \A f \in DOMAIN command[p].entries : root.files[f] = command[p].entries[f]
               /\ [inode |-> command[p].inode, entries |-> command[p].entries] \in saved
    BY <1>1, WorkspaceFacts DEF CommandOK, ReadSetOK, FoundOK, Checking, Writing
  <1>2. WorkspaceInv =>
          [\A p \in Workers :
             command[p].step = "write" /\ command'[p].step = "idle" /\ root' # root /\ p \notin edited =>
                /\ root.inode = command[p].inode
                /\ command[p].target \in DOMAIN command[p].entries
                /\ \A f \in DOMAIN command[p].entries : root.files[f] = command[p].entries[f]
                /\ [inode |-> command[p].inode, entries |-> command[p].entries] \in saved]_workspace_vars
    BY <1>1
  <1>3. QED
    BY <1>2, WorkspaceInvariant, PTL DEF WritesReplaceWhatWasRead

-----------------------------------------------------------------------------
(* Git worktrees.                                                           *)

GitSpec == GitInit /\ [][GitNext]_git_vars

Places == Paths \cup {RootPath}
Worktree == [branch : Branches \cup {"none", "detached"}, dirty : BOOLEAN, locked : BOOLEAN,
             gone : BOOLEAN]

GitTypes ==
    /\ refs = [b \in Branches |-> refs[b]] /\ worktrees \in [Places -> Worktree] /\ made \in Nat

\* A branch is checked out in one place at most, and exists as long as it is;
\* the root always has one.
CheckoutsOK ==
    /\ \A p \in Places : worktrees[p].branch = "none" => worktrees[p] = NoWorktree
    /\ worktrees[RootPath].branch \in Branches
    /\ \A p \in Places : worktrees[p].branch \in Branches => refs[worktrees[p].branch] # {}
    /\ \A p, q \in Places :
          worktrees[p].branch \in Branches /\ worktrees[p].branch = worktrees[q].branch => p = q

\* Every commit is on a branch.
CommitsOK == \A n \in 1..made : \E b \in Branches : n \in refs[b]

Making == {"verify", "unadd", "unbranch"}
Adding == {"add", "verify", "unadd", "unbranch"}
Removing == {"status", "merged", "remove", "delete", "probe_kept"}
Resolving == {"checkout", "clean", "resolve"}
Merging == {"preflight", "recheck", "merge", "again", "commit", "preserved"}
Preflighted == {"merge", "again", "commit"}
Begun == {"again", "commit"}

\* A command's record at every step.
JobShape(j) ==
    /\ j.step \in {"idle", "probe", "list"} \cup Adding \cup Removing \cup Resolving \cup Merging
    /\ j.step = "probe" => /\ DOMAIN j = {"step", "path", "branch", "base"}
                           /\ j.path \in Paths /\ j.branch \in Branches /\ j.base \in Branches
    /\ j.step \in Adding => /\ DOMAIN j = {"step", "path", "branch", "base"}
                            /\ j.path \in Paths /\ j.branch \in Branches /\ j.base # {}
    /\ j.step = "list" => DOMAIN j = {"step", "path", "delete"} /\ j.path \in Paths
    /\ j.step \in Removing => /\ DOMAIN j = {"step", "path", "delete", "branch"}
                              /\ j.path \in Paths /\ j.branch \in Branches
    /\ j.step \in Resolving => /\ DOMAIN j = {"step", "kind", "target", "source"}
                               /\ j.kind \in {"check", "merge"}
                               /\ j.target \in Branches /\ j.source \in Branches
    /\ j.step \in Merging => /\ DOMAIN j = {"step", "kind", "target", "source", "previous", "joined"}
                             /\ j.kind \in {"check", "merge"}
                             /\ j.target \in Branches /\ j.source \in Branches
    /\ j.step = "recheck" /\ j.kind = "merge" => Mergeable(j.previous, j.joined)
    /\ j.step \in Preflighted => Mergeable(j.previous, j.joined)

\* What the command knows of the references and worktrees: a branch that is
\* still being allocated has only commits of another one, and nobody works on
\* it; a merge that was begun is the preflighted one, onto what was resolved.
AllocationOK(j, R, W) ==
    /\ j.step \in Adding => \E b \in Branches \ {j.branch} : j.base \subseteq R[b]
    /\ j.step \in Making => R[j.branch] = j.base
    /\ j.step \in {"verify", "unadd"} => W[j.path].branch = j.branch /\ W[j.path].dirty = FALSE
    /\ j.step = "unbranch" => \A p \in Places : W[p].branch # j.branch
MergeOK(j, R, W, m) ==
    /\ m # {} => j.step \in Begun /\ m = j.joined
    /\ m # {} /\ j.step = "commit" /\ W[RootPath].branch = j.target => R[j.target] = j.previous

GitInv ==
    /\ GitTypes /\ CheckoutsOK /\ CommitsOK
    /\ JobShape(job) /\ AllocationOK(job, refs, worktrees) /\ MergeOK(job, refs, worktrees, merging)

LEMMA GitFacts ==
    ASSUME GitInv
    PROVE  /\ refs = [b \in Branches |-> refs[b]] /\ worktrees \in [Places -> Worktree] /\ made \in Nat
           /\ DOMAIN worktrees = Places /\ RootPath \in Places /\ Paths \subseteq Places
           /\ CheckoutsOK /\ CommitsOK /\ JobShape(job)
           /\ AllocationOK(job, refs, worktrees) /\ MergeOK(job, refs, worktrees, merging)
  BY DEF GitInv, GitTypes, Places

LEMMA NotBegun ==
    ASSUME GitInv, job.step \notin Begun
    PROVE  merging = {}
  BY DEF GitInv, MergeOK

LEMMA NoBranches == "none" \notin Branches /\ "detached" \notin Branches /\ Main \in Branches
                    /\ RootPath \notin Paths
  BY GitAssumption

LEMMA NoWorktreeIs ==
    /\ NoWorktree \in Worktree /\ NoWorktree.branch = "none" /\ NoWorktree.dirty = FALSE
    /\ \A b \in Branches : /\ Registered(b) \in Worktree /\ Registered(b).branch = b
                           /\ Registered(b).dirty = FALSE
  BY DEF NoWorktree, Worktree, Registered

LEMMA CheckedOutIs ==
    ASSUME GitInv, NEW b
    PROVE  CheckedOut(b) <=> \E p \in Places : worktrees[p].branch = b
  BY GitFacts DEF CheckedOut, ListedBranch

LEMMA ListedIs ==
    ASSUME GitInv, NEW p \in Places, Listed(p), worktrees[p].branch # "detached"
    PROVE  worktrees[p].branch \in Branches
  BY GitFacts DEF Listed, Worktree, CheckoutsOK

\* The command takes a step that changes nothing else.
LEMMA JobStep ==
    ASSUME GitInv, refs' = refs, worktrees' = worktrees, merging' = {}, made' = made,
           NEW j, job' = j, JobShape(j), AllocationOK(j, refs, worktrees)
    PROVE  GitInv'
  <1>1. GitTypes' /\ CheckoutsOK' /\ CommitsOK'
    BY DEF GitInv, GitTypes, CheckoutsOK, CommitsOK
  <1>2. MergeOK(j, refs, worktrees, {})
    BY DEF MergeOK
  <1>3. QED
    BY <1>1, <1>2 DEF GitInv

LEMMA PlainStep ==
    ASSUME GitInv, UNCHANGED <<refs, worktrees, merging, made>>, job.step \notin Begun,
           NEW j, job' = j, JobShape(j), j.step \notin Adding
    PROVE  GitInv'
  <1>1. AllocationOK(j, refs, worktrees)
    BY DEF AllocationOK, Adding, Making
  <1>2. QED
    BY <1>1, NotBegun, JobStep

LEMMA NoJobIs ==
    JobShape(NoJob) /\ NoJob.step = "idle"
  BY DEF NoJob, JobShape, Adding, Removing, Resolving, Merging, Preflighted

LEMMA EndStep ==
    ASSUME GitInv, refs' = refs, worktrees' = worktrees, merging' = {}, made' = made, job' = NoJob
    PROVE  GitInv'
  <1>1. PICK j : j = NoJob
    OBVIOUS
  <1>2. JobShape(j) /\ AllocationOK(j, refs, worktrees)
    BY <1>1, NoJobIs DEF AllocationOK, Adding, Making
  <1>3. QED
    BY <1>1, <1>2, JobStep

LEMMA EndQuietly ==
    ASSUME GitInv, UNCHANGED <<refs, worktrees, merging, made>>, job.step \notin Begun, job' = NoJob
    PROVE  GitInv'
  BY NotBegun, EndStep

-----------------------------------------------------------------------------
(* Its commands.                                                            *)

LEMMA BeginStep ==
    ASSUME GitInv, NEW j, Begin(j), JobShape(j), j.step \notin Adding
    PROVE  GitInv'
  <1>1. job.step = "idle"
    BY NoJobIs DEF Begin
  <1>2. QED
    BY <1>1, PlainStep DEF Begin, Begun

LEMMA AllocateProbeStep ==
    ASSUME GitInv, AllocateProbe
    PROVE  GitInv'
  <1>1. job.step = "probe" /\ UNCHANGED <<refs, worktrees, merging, made>>
    BY DEF AllocateProbe
  <1>2. CASE job' = NoJob
    BY <1>1, <1>2, EndQuietly DEF Begun
  <1>3. CASE job' # NoJob
    <2>1. PICK base : base = refs[job.base]
      OBVIOUS
    <2>2. PICK j : j = [job EXCEPT !.step = "add", !.base = base]
      OBVIOUS
    <2>3. job' = j /\ base # {} /\ refs[job.branch] = {}
      BY <1>3, <2>1, <2>2 DEF AllocateProbe, End, Step
    <2>4. /\ DOMAIN job = {"step", "path", "branch", "base"}
          /\ job.path \in Paths /\ job.branch \in Branches /\ job.base \in Branches
      BY <1>1, GitFacts DEF JobShape
    <2>5. /\ DOMAIN j = {"step", "path", "branch", "base"} /\ j.step = "add"
          /\ j.path = job.path /\ j.branch = job.branch /\ j.base = base
      BY <2>2, <2>4
    <2>6. JobShape(j)
      BY <2>3, <2>4, <2>5 DEF JobShape, Adding, Removing, Resolving, Merging, Preflighted
    <2>7. job.base \in Branches \ {j.branch} /\ j.base \subseteq refs[job.base]
      BY <2>1, <2>3, <2>4, <2>5
    <2>8. AllocationOK(j, refs, worktrees)
      BY <2>5, <2>7 DEF AllocationOK, Making
    <2>9. QED
      BY <1>1, <2>3, <2>6, <2>8, NotBegun, JobStep DEF Begun
  <1>4. QED
    BY <1>2, <1>3

\* The record of an allocation that goes on to another step.
LEMMA AddingIs ==
    ASSUME GitInv, job.step \in Adding, NEW s \in Adding, NEW j, j = [job EXCEPT !.step = s]
    PROVE  /\ JobShape(j) /\ j.step = s /\ j.path = job.path /\ j.branch = job.branch
           /\ j.base = job.base /\ job.path \in Paths /\ job.branch \in Branches /\ job.base # {}
           /\ \E b \in Branches \ {job.branch} : job.base \subseteq refs[b]
  <1>1. /\ DOMAIN job = {"step", "path", "branch", "base"}
        /\ job.path \in Paths /\ job.branch \in Branches /\ job.base # {}
    BY GitFacts DEF JobShape
  <1>2. /\ DOMAIN j = {"step", "path", "branch", "base"} /\ j.step = s
        /\ j.path = job.path /\ j.branch = job.branch /\ j.base = job.base
    BY <1>1
  <1>3. JobShape(j)
    BY <1>1, <1>2 DEF JobShape, Adding, Removing, Resolving, Merging, Preflighted
  <1>4. \E b \in Branches \ {job.branch} : job.base \subseteq refs[b]
    BY GitFacts DEF AllocationOK
  <1>5. QED
    BY <1>1, <1>2, <1>3, <1>4

\* git worktree add creates a branch that is checked out nowhere.
LEMMA AllocateAddStep ==
    ASSUME GitInv, AllocateAdd
    PROVE  GitInv'
  <1>1. job.step = "add" /\ merging' = merging /\ made' = made
    BY DEF AllocateAdd
  <1>2. CASE job' = NoJob /\ refs' = refs /\ worktrees' = worktrees
    BY <1>1, <1>2, EndQuietly DEF Begun
  <1>3. CASE ~(job' = NoJob /\ refs' = refs /\ worktrees' = worktrees)
    <2>1. PICK j, path, b, w : /\ j = [job EXCEPT !.step = "verify"]
                               /\ path = job.path /\ b = job.branch /\ w = Registered(job.branch)
      OBVIOUS
    <2>2. /\ job' = j /\ refs[b] = {} /\ refs' = [refs EXCEPT ![b] = job.base]
          /\ worktrees' = [worktrees EXCEPT ![path] = w]
      BY <1>3, <2>1 DEF AllocateAdd, End, Step
    <2>3. job.step \in Adding /\ "verify" \in Adding
      BY <1>1 DEF Adding
    <2>4. /\ JobShape(j) /\ j.step = "verify" /\ j.path = path /\ j.branch = b
          /\ j.base = job.base /\ path \in Paths /\ b \in Branches /\ job.base # {}
          /\ \E c \in Branches \ {b} : job.base \subseteq refs[c]
      BY <2>1, <2>3, AddingIs
    <2>5. w \in Worktree /\ w.branch = b /\ w.dirty = FALSE /\ b # "none"
      BY <2>1, <2>4, NoWorktreeIs, NoBranches
    <2>6. /\ refs'[b] = job.base /\ \A c \in Branches \ {b} : refs'[c] = refs[c]
          /\ refs' = [c \in Branches |-> refs'[c]]
      BY <2>2, <2>4, GitFacts
    <2>7. /\ worktrees'[path] = w /\ \A p \in Places \ {path} : worktrees'[p] = worktrees[p]
          /\ worktrees' \in [Places -> Worktree]
      BY <2>2, <2>4, <2>5, GitFacts
    <2>8. \A p \in Places \ {path} : worktrees[p].branch # b
      BY <2>2, <2>4, GitFacts DEF CheckoutsOK
    <2>9. CheckoutsOK'
      BY <2>4, <2>5, <2>6, <2>7, <2>8, GitFacts, NoBranches DEF CheckoutsOK
    <2>10. CommitsOK'
      BY <1>1, <2>2, <2>4, <2>6, GitFacts DEF CommitsOK
    <2>11. GitTypes'
      BY <1>1, <2>6, <2>7, GitFacts DEF GitTypes
    <2>12. AllocationOK(j, refs', worktrees')
      BY <2>4, <2>5, <2>6, <2>7 DEF AllocationOK
    <2>13. MergeOK(j, refs', worktrees', merging')
      BY <1>1, NotBegun DEF MergeOK, Begun
    <2>14. QED
      BY <2>2, <2>4, <2>9, <2>10, <2>11, <2>12, <2>13 DEF GitInv
  <1>4. QED
    BY <1>2, <1>3

LEMMA AllocateVerifyStep ==
    ASSUME GitInv, AllocateVerify
    PROVE  GitInv'
  <1>1. job.step = "verify" /\ UNCHANGED <<refs, worktrees, merging, made>>
    BY DEF AllocateVerify
  <1>2. CASE job' = NoJob
    BY <1>1, <1>2, EndQuietly DEF Begun
  <1>3. CASE job' # NoJob
    <2>1. PICK j : j = [job EXCEPT !.step = "unadd"]
      OBVIOUS
    <2>2. job' = j
      BY <1>3, <2>1 DEF AllocateVerify, End, Step
    <2>3. job.step \in Adding /\ "unadd" \in Adding
      BY <1>1 DEF Adding
    <2>4. /\ JobShape(j) /\ j.step = "unadd" /\ j.path = job.path /\ j.branch = job.branch
          /\ j.base = job.base
      BY <2>1, <2>3, AddingIs
    <2>5. AllocationOK(j, refs, worktrees)
      BY <1>1, <2>4, GitFacts DEF AllocationOK, Adding, Making
    <2>6. QED
      BY <1>1, <2>2, <2>4, <2>5, NotBegun, JobStep DEF Begun
  <1>4. QED
    BY <1>2, <1>3

LEMMA RollbackWorktreeStep ==
    ASSUME GitInv, RollbackWorktree
    PROVE  GitInv'
  <1>1. PICK j, path, w : j = [job EXCEPT !.step = "unbranch"] /\ path = job.path /\ w = NoWorktree
    OBVIOUS
  <1>2. /\ job.step = "unadd" /\ job' = j /\ worktrees' = [worktrees EXCEPT ![path] = w]
        /\ refs' = refs /\ merging' = merging /\ made' = made
    BY <1>1 DEF RollbackWorktree, Step
  <1>3. job.step \in Adding /\ "unbranch" \in Adding
    BY <1>2 DEF Adding
  <1>4. /\ JobShape(j) /\ j.step = "unbranch" /\ j.path = path /\ j.branch = job.branch
        /\ j.base = job.base /\ path \in Paths /\ job.branch \in Branches
    BY <1>1, <1>3, AddingIs
  <1>5. w \in Worktree /\ w.branch = "none" /\ w = NoWorktree
    BY <1>1, NoWorktreeIs
  <1>6. /\ worktrees'[path] = w /\ \A p \in Places \ {path} : worktrees'[p] = worktrees[p]
        /\ worktrees' \in [Places -> Worktree] /\ path # RootPath /\ path \in Places
    BY <1>2, <1>4, <1>5, GitFacts, NoBranches
  <1>7. GitTypes' /\ CommitsOK'
    BY <1>2, <1>6, GitFacts DEF GitTypes, CommitsOK
  <1>8. CheckoutsOK'
    BY <1>2, <1>5, <1>6, GitFacts, NoBranches DEF CheckoutsOK
  <1>9. worktrees[path].branch = job.branch /\ refs[job.branch] = job.base
    BY <1>1, <1>2, GitFacts DEF AllocationOK, Making
  <1>10. \A p \in Places : worktrees'[p].branch # job.branch
    BY <1>4, <1>5, <1>6, <1>9, GitFacts, NoBranches DEF CheckoutsOK
  <1>11. \E b \in Branches \ {job.branch} : job.base \subseteq refs[b]
    BY <1>3, GitFacts DEF AllocationOK
  <1>12. AllocationOK(j, refs', worktrees')
    BY <1>2, <1>4, <1>9, <1>10, <1>11 DEF AllocationOK
  <1>13. MergeOK(j, refs', worktrees', merging')
    BY <1>2, NotBegun DEF MergeOK, Begun
  <1>14. QED
    BY <1>2, <1>4, <1>7, <1>8, <1>12, <1>13 DEF GitInv

\* A branch that is checked out nowhere, and all of whose commits another one
\* has, is deleted.
LEMMA DropBranch ==
    ASSUME GitInv, NEW b \in Branches, \A p \in Places : worktrees[p].branch # b,
           NEW c \in Branches \ {b}, refs[b] \subseteq refs[c],
           refs' = [refs EXCEPT ![b] = {}], worktrees' = worktrees, merging' = {}, made' = made,
           job' = NoJob
    PROVE  GitInv'
  <1>1. /\ refs'[b] = {} /\ \A x \in Branches \ {b} : refs'[x] = refs[x]
        /\ refs' = [x \in Branches |-> refs'[x]]
    BY GitFacts
  <1>2. GitTypes'
    BY <1>1, GitFacts DEF GitTypes
  <1>3. CheckoutsOK'
    BY <1>1, GitFacts DEF CheckoutsOK
  <1>4. CommitsOK'
    BY <1>1, GitFacts DEF CommitsOK
  <1>5. JobShape(job') /\ AllocationOK(job', refs', worktrees') /\ MergeOK(job', refs', worktrees', merging')
    BY NoJobIs DEF AllocationOK, MergeOK, Adding, Making
  <1>6. QED
    BY <1>2, <1>3, <1>4, <1>5 DEF GitInv

LEMMA RollbackBranchStep ==
    ASSUME GitInv, RollbackBranch
    PROVE  GitInv'
  <1>1. PICK b : b = job.branch
    OBVIOUS
  <1>2. /\ job.step = "unbranch" /\ job' = NoJob /\ worktrees' = worktrees /\ merging' = merging
        /\ made' = made /\ refs' = [refs EXCEPT ![b] = IF CheckedOut(b) THEN @ ELSE {}]
    BY <1>1 DEF RollbackBranch, End
  <1>3. b \in Branches
    BY <1>1, <1>2, GitFacts DEF JobShape, Adding
  <1>4. /\ \A p \in Places : worktrees[p].branch # b
        /\ refs[b] = job.base /\ \E c \in Branches \ {b} : job.base \subseteq refs[c]
    BY <1>1, <1>2, GitFacts DEF AllocationOK, Adding, Making
  <1>5. refs' = [refs EXCEPT ![b] = {}]
    BY <1>2, <1>4, CheckedOutIs
  <1>6. merging' = {}
    BY <1>2, NotBegun DEF Begun
  <1>7. QED
    BY <1>2, <1>3, <1>4, <1>5, <1>6, DropBranch

LEMMA RemoveListStep ==
    ASSUME GitInv, RemoveList
    PROVE  GitInv'
  <1>1. job.step = "list" /\ UNCHANGED <<refs, worktrees, merging, made>>
    BY DEF RemoveList
  <1>2. CASE job' = NoJob
    BY <1>1, <1>2, EndQuietly DEF Begun
  <1>3. CASE job' # NoJob
    <2>1. PICK b : b = worktrees[job.path].branch
      OBVIOUS
    <2>2. PICK j : j = [step |-> "status", path |-> job.path, delete |-> job.delete, branch |-> b]
      OBVIOUS
    <2>3. job' = j /\ Listed(job.path) /\ b # "detached"
      BY <1>3, <2>1, <2>2 DEF RemoveList, End, Step
    <2>4. DOMAIN job = {"step", "path", "delete"} /\ job.path \in Paths
      BY <1>1, GitFacts DEF JobShape
    <2>5. /\ DOMAIN j = {"step", "path", "delete", "branch"} /\ j.step = "status"
          /\ j.path = job.path /\ j.branch = b
      BY <2>2
    <2>6. b \in Branches
      BY <2>1, <2>3, <2>4, ListedIs, GitFacts
    <2>7. JobShape(j) /\ j.step \notin Adding
      BY <2>4, <2>5, <2>6 DEF JobShape, Adding, Removing, Resolving, Merging, Preflighted
    <2>8. QED
      BY <1>1, <2>3, <2>7, PlainStep DEF Begun
  <1>4. QED
    BY <1>2, <1>3

LEMMA RemovingIs ==
    ASSUME GitInv, job.step \in Removing, NEW s \in Removing, NEW j, j = [job EXCEPT !.step = s]
    PROVE  /\ JobShape(j) /\ j.step = s /\ j.step \notin Adding /\ j.step \notin Begun
           /\ job.path \in Paths /\ job.branch \in Branches /\ job.step \notin Begun
  <1>1. /\ DOMAIN job = {"step", "path", "delete", "branch"}
        /\ job.path \in Paths /\ job.branch \in Branches
    BY GitFacts DEF JobShape
  <1>2. /\ DOMAIN j = {"step", "path", "delete", "branch"} /\ j.step = s
        /\ j.path = job.path /\ j.branch = job.branch
    BY <1>1
  <1>3. QED
    BY <1>1, <1>2 DEF JobShape, Adding, Removing, Resolving, Merging, Preflighted, Begun

\* The steps of a removal that only look.
LEMMA RemoveLooks ==
    ASSUME GitInv, RemoveStatus \/ RemoveMerged \/ RemoveKept
    PROVE  GitInv'
  <1>1. job.step \in Removing /\ UNCHANGED <<refs, worktrees, merging, made>>
    BY DEF RemoveStatus, RemoveMerged, RemoveKept, Removing
  <1>2. job.step \notin Begun
    BY <1>1 DEF Removing, Begun
  <1>3. CASE job' = NoJob
    BY <1>1, <1>2, <1>3, EndQuietly
  <1>4. CASE job' # NoJob
    <2>1. PICK s \in Removing : job' = [job EXCEPT !.step = s]
      BY <1>4 DEF RemoveStatus, RemoveMerged, RemoveKept, Removing, End, Step
    <2>2. PICK j : j = [job EXCEPT !.step = s]
      OBVIOUS
    <2>3. JobShape(j) /\ j.step \notin Adding
      BY <1>1, <2>2, RemovingIs
    <2>4. QED
      BY <1>1, <1>2, <2>1, <2>2, <2>3, PlainStep
  <1>5. QED
    BY <1>3, <1>4

LEMMA RemoveWorktreeStep ==
    ASSUME GitInv, RemoveWorktree
    PROVE  GitInv'
  <1>1. job.step = "remove" /\ refs' = refs /\ merging' = merging /\ made' = made
    BY DEF RemoveWorktree
  <1>2. job.step \in Removing /\ job.step \notin Begun
    BY <1>1 DEF Removing, Begun
  <1>3. CASE job' = NoJob /\ worktrees' = worktrees
    BY <1>1, <1>2, <1>3, EndQuietly
  <1>4. CASE ~(job' = NoJob /\ worktrees' = worktrees)
    <2>1. PICK s, path, w : /\ s = (IF job.delete THEN "delete" ELSE "probe_kept")
                            /\ path = job.path /\ w = NoWorktree
      OBVIOUS
    <2>2. PICK j : j = [job EXCEPT !.step = s]
      OBVIOUS
    <2>3. job' = j /\ worktrees' = [worktrees EXCEPT ![path] = w]
      BY <1>4, <2>1, <2>2 DEF RemoveWorktree, End, Step
    <2>4. s \in Removing
      BY <2>1 DEF Removing
    <2>5. JobShape(j) /\ j.step \notin Adding /\ j.step \notin Begun /\ path \in Paths
      BY <1>2, <2>1, <2>2, <2>4, RemovingIs
    <2>6. w \in Worktree /\ w.branch = "none" /\ w = NoWorktree
      BY <2>1, NoWorktreeIs
    <2>7. /\ worktrees'[path] = w /\ \A p \in Places \ {path} : worktrees'[p] = worktrees[p]
          /\ worktrees' \in [Places -> Worktree] /\ path # RootPath /\ path \in Places
      BY <2>3, <2>5, <2>6, GitFacts, NoBranches
    <2>8. GitTypes' /\ CommitsOK'
      BY <1>1, <2>7, GitFacts DEF GitTypes, CommitsOK
    <2>9. CheckoutsOK'
      BY <1>1, <2>6, <2>7, GitFacts, NoBranches DEF CheckoutsOK
    <2>10. AllocationOK(j, refs', worktrees') /\ MergeOK(j, refs', worktrees', merging')
      BY <1>1, <1>2, <2>5, NotBegun DEF AllocationOK, MergeOK, Adding, Making
    <2>11. QED
      BY <2>3, <2>5, <2>8, <2>9, <2>10 DEF GitInv
  <1>5. QED
    BY <1>3, <1>4

LEMMA RemoveBranchStep ==
    ASSUME GitInv, RemoveBranch
    PROVE  GitInv'
  <1>1. /\ job.step = "delete" /\ worktrees' = worktrees /\ merging' = merging /\ made' = made
        /\ job' = NoJob
    BY DEF RemoveBranch, End
  <1>2. merging = {} /\ job.step \notin Begun
    BY <1>1, NotBegun DEF Begun
  <1>3. CASE refs' = refs
    BY <1>1, <1>2, <1>3, EndQuietly
  <1>4. CASE refs' # refs
    <2>1. PICK b, c : b = job.branch /\ c = worktrees[RootPath].branch
      OBVIOUS
    <2>2. refs' = [refs EXCEPT ![b] = {}] /\ ~CheckedOut(b) /\ refs[b] \subseteq refs[c]
      BY <1>4, <2>1 DEF RemoveBranch, Deletable, HeadOf
    <2>3. b \in Branches
      BY <1>1, <2>1, GitFacts DEF JobShape, Removing
    <2>4. \A p \in Places : worktrees[p].branch # b
      BY <2>2, CheckedOutIs
    <2>5. c \in Branches \ {b}
      BY <2>1, <2>4, GitFacts DEF CheckoutsOK
    <2>6. QED
      BY <1>1, <1>2, <2>2, <2>3, <2>4, <2>5, DropBranch
  <1>5. QED
    BY <1>3, <1>4

LEMMA MergingIs ==
    ASSUME GitInv, job.step \in Merging, NEW s \in Merging, NEW j, j = [job EXCEPT !.step = s],
           s = "recheck" /\ job.kind = "merge" => Mergeable(job.previous, job.joined),
           s \in Preflighted => Mergeable(job.previous, job.joined)
    PROVE  /\ JobShape(j) /\ j.step = s /\ j.step \notin Adding /\ j.joined = job.joined
           /\ j.previous = job.previous /\ j.target = job.target /\ j.source = job.source
           /\ job.target \in Branches /\ job.source \in Branches
  <1>1. /\ DOMAIN job = {"step", "kind", "target", "source", "previous", "joined"}
        /\ job.kind \in {"check", "merge"} /\ job.target \in Branches /\ job.source \in Branches
    BY GitFacts DEF JobShape
  <1>2. /\ DOMAIN j = {"step", "kind", "target", "source", "previous", "joined"} /\ j.step = s
        /\ j.kind = job.kind /\ j.target = job.target /\ j.source = job.source
        /\ j.previous = job.previous /\ j.joined = job.joined
    BY <1>1
  <1>3. JobShape(j) /\ j.step \notin Adding
    BY <1>1, <1>2 DEF JobShape, Adding, Removing, Resolving, Merging, Preflighted
  <1>4. QED
    BY <1>1, <1>2, <1>3

LEMMA ResolvingSteps ==
    ASSUME GitInv, MergeCheckout \/ MergeStatus
    PROVE  GitInv'
  <1>1. job.step \in {"checkout", "clean"} /\ UNCHANGED <<refs, worktrees, merging, made>>
    BY DEF MergeCheckout, MergeStatus
  <1>2. CASE job' = NoJob
    BY <1>1, <1>2, EndQuietly DEF Begun
  <1>3. CASE job' # NoJob
    <2>1. PICK s \in Resolving : job' = [job EXCEPT !.step = s]
      BY <1>3 DEF MergeCheckout, MergeStatus, Resolving, End, Step
    <2>2. PICK j : j = [job EXCEPT !.step = s]
      OBVIOUS
    <2>3. /\ DOMAIN job = {"step", "kind", "target", "source"} /\ job.kind \in {"check", "merge"}
          /\ job.target \in Branches /\ job.source \in Branches
      BY <1>1, GitFacts DEF JobShape, Resolving
    <2>4. /\ DOMAIN j = {"step", "kind", "target", "source"} /\ j.step = s /\ j.kind = job.kind
          /\ j.target = job.target /\ j.source = job.source
      BY <2>2, <2>3
    <2>5. JobShape(j) /\ j.step \notin Adding
      BY <2>3, <2>4 DEF JobShape, Adding, Removing, Resolving, Merging, Preflighted
    <2>6. QED
      BY <1>1, <2>1, <2>2, <2>5, PlainStep DEF Begun
  <1>4. QED
    BY <1>2, <1>3

LEMMA ResolveStep ==
    ASSUME GitInv, Resolve
    PROVE  GitInv'
  <1>1. job.step = "resolve" /\ UNCHANGED <<refs, worktrees, merging, made>>
    BY DEF Resolve
  <1>2. CASE job' = NoJob
    BY <1>1, <1>2, EndQuietly DEF Begun
  <1>3. CASE job' # NoJob
    <2>1. PICK a, b : a = refs[job.target] /\ b = refs[job.source]
      OBVIOUS
    <2>2. PICK j : j = [step |-> "preflight", kind |-> job.kind, target |-> job.target,
                        source |-> job.source, previous |-> a, joined |-> b]
      OBVIOUS
    <2>3. job' = j
      BY <1>3, <2>1, <2>2 DEF Resolve, End, Step
    <2>4. /\ DOMAIN job = {"step", "kind", "target", "source"} /\ job.kind \in {"check", "merge"}
          /\ job.target \in Branches /\ job.source \in Branches
      BY <1>1, GitFacts DEF JobShape, Resolving
    <2>5. /\ DOMAIN j = {"step", "kind", "target", "source", "previous", "joined"}
          /\ j.step = "preflight" /\ j.kind = job.kind
          /\ j.target = job.target /\ j.source = job.source
      BY <2>2
    <2>6. JobShape(j) /\ j.step \notin Adding
      BY <2>4, <2>5 DEF JobShape, Adding, Removing, Resolving, Merging, Preflighted
    <2>7. QED
      BY <1>1, <2>3, <2>6, PlainStep DEF Begun
  <1>4. QED
    BY <1>2, <1>3

LEMMA CheckedSteps ==
    ASSUME GitInv, Preflight \/ Recheck \/ Preserved
    PROVE  GitInv'
  <1>1. /\ job.step \in Merging /\ job.step \notin Begun
        /\ UNCHANGED <<refs, worktrees, merging, made>>
    BY DEF Preflight, Recheck, Preserved, Merging, Begun
  <1>2. CASE job' = NoJob
    BY <1>1, <1>2, EndQuietly
  <1>3. CASE job' # NoJob
    <2>1. PICK s \in {"recheck", "merge"} :
              /\ job' = [job EXCEPT !.step = s]
              /\ s = "recheck" => ~(job.kind = "merge" /\ ~Mergeable(job.previous, job.joined))
              /\ s = "merge" => job.step = "recheck" /\ job.kind # "check"
      BY <1>3 DEF Preflight, Recheck, Preserved, End, Step
    <2>2. PICK j : j = [job EXCEPT !.step = s]
      OBVIOUS
    <2>3. s = "merge" => Mergeable(job.previous, job.joined)
      BY <2>1, GitFacts DEF JobShape, Merging
    <2>4. s \in Merging /\ (s \in Preflighted => s = "merge")
      BY <2>1 DEF Merging, Preflighted
    <2>5. JobShape(j) /\ j.step \notin Adding
      BY <1>1, <2>1, <2>2, <2>3, <2>4, MergingIs
    <2>6. QED
      BY <1>1, <2>1, <2>2, <2>5, PlainStep
  <1>4. QED
    BY <1>2, <1>3

\* A step of a merge that changes nothing but what the root is merging.
LEMMA BegunStep ==
    ASSUME GitInv, refs' = refs, worktrees' = worktrees, made' = made,
           job.step \in Preflighted, NEW s \in Begun, NEW j, j = [job EXCEPT !.step = s], job' = j,
           merging' \in {{}, job.joined}, s = "commit" => refs[job.target] = job.previous
    PROVE  GitInv'
  <1>1. job.step \in Merging /\ s \in Merging /\ Mergeable(job.previous, job.joined) /\ s # "recheck"
    BY GitFacts DEF JobShape, Preflighted, Begun, Merging
  <1>2. /\ JobShape(j) /\ j.step = s /\ j.step \notin Adding /\ j.joined = job.joined
        /\ j.previous = job.previous /\ j.target = job.target
    BY <1>1, MergingIs
  <1>3. GitTypes' /\ CheckoutsOK' /\ CommitsOK'
    BY DEF GitInv, GitTypes, CheckoutsOK, CommitsOK
  <1>4. AllocationOK(j, refs, worktrees)
    BY <1>2 DEF AllocationOK, Adding, Making
  <1>5. MergeOK(j, refs, worktrees, merging')
    BY <1>2 DEF MergeOK
  <1>6. QED
    BY <1>2, <1>3, <1>4, <1>5 DEF GitInv

LEMMA BeginMergeStep ==
    ASSUME GitInv, BeginMerge
    PROVE  GitInv'
  <1>1. job.step = "merge" /\ UNCHANGED <<refs, worktrees, made>>
    BY DEF BeginMerge
  <1>2. CASE job' = NoJob /\ merging' = merging
    BY <1>1, <1>2, EndQuietly DEF Begun
  <1>3. CASE ~(job' = NoJob /\ merging' = merging)
    <2>1. PICK j, s : s = "again" /\ j = [job EXCEPT !.step = s]
      OBVIOUS
    <2>2. job' = j /\ merging' \in {{}, job.joined}
      BY <1>3, <2>1 DEF BeginMerge, End, Step
    <2>3. job.step \in Preflighted /\ s \in Begun /\ s # "commit"
      BY <1>1, <2>1 DEF Preflighted, Begun
    <2>4. QED
      BY <1>1, <2>1, <2>2, <2>3, BegunStep
  <1>4. QED
    BY <1>2, <1>3

LEMMA RecheckMergeStep ==
    ASSUME GitInv, RecheckMerge
    PROVE  GitInv'
  <1>1. job.step = "again" /\ UNCHANGED <<refs, worktrees, made>>
    BY DEF RecheckMerge
  <1>2. CASE ~Unmoved
    <2>1. job' = NoJob /\ merging' = {}
      BY <1>2 DEF RecheckMerge, End
    <2>2. QED
      BY <1>1, <2>1, EndStep
  <1>3. CASE Unmoved
    <2>1. PICK j, s : s = "commit" /\ j = [job EXCEPT !.step = s]
      OBVIOUS
    <2>2. job' = j /\ merging' = merging /\ refs[job.target] = job.previous
      BY <1>3, <2>1 DEF RecheckMerge, Step, Unmoved
    <2>3. job.step \in Preflighted /\ s \in Begun
      BY <1>1, <2>1 DEF Preflighted, Begun
    <2>4. merging \in {{}, job.joined}
      BY GitFacts DEF MergeOK
    <2>5. QED
      BY <1>1, <2>1, <2>2, <2>3, <2>4, BegunStep
  <1>4. QED
    BY <1>2, <1>3

\* A branch gets a new commit on top of what it had.
LEMMA CommitOn ==
    ASSUME GitInv, NEW b \in Branches, NEW C, refs[b] \subseteq C, New \in C,
           refs' = [refs EXCEPT ![b] = C], made' = New, worktrees' \in [Places -> Worktree],
           \A p \in Places :
              \/ worktrees'[p] = worktrees[p]
              \/ worktrees'[p].branch = worktrees[p].branch /\ worktrees[p].branch # "none"
    PROVE  /\ GitTypes' /\ CheckoutsOK' /\ CommitsOK' /\ refs'[b] = C
           /\ \A c \in Branches \ {b} : refs'[c] = refs[c]
           /\ \A c \in Branches : refs[c] \subseteq refs'[c]
  <1>1. /\ refs'[b] = C /\ \A c \in Branches \ {b} : refs'[c] = refs[c]
        /\ \A c \in Branches : refs[c] \subseteq refs'[c]
        /\ refs' = [c \in Branches |-> refs'[c]]
    BY GitFacts
  <1>2. made' = made + 1 /\ made \in Nat
    BY GitFacts DEF New
  <1>3. GitTypes'
    BY <1>1, <1>2 DEF GitTypes
  <1>4. C # {}
    OBVIOUS
  <1>5. CheckoutsOK'
    <2>1. \A p \in Places : worktrees'[p].branch = "none" => worktrees'[p] = NoWorktree
      BY GitFacts DEF CheckoutsOK
    <2>2. \A p \in Places : worktrees'[p].branch = worktrees[p].branch
      OBVIOUS
    <2>3. \A p \in Places : worktrees'[p].branch \in Branches => refs'[worktrees'[p].branch] # {}
      BY <1>1, <1>4, <2>2, GitFacts DEF CheckoutsOK
    <2>4. QED
      BY <2>1, <2>2, <2>3, GitFacts DEF CheckoutsOK
  <1>6. CommitsOK'
    <2>1. ASSUME NEW n \in 1..made'
          PROVE  \E c \in Branches : n \in refs'[c]
      <3>1. CASE n = made'
        BY <1>1, <3>1
      <3>2. CASE n # made'
        <4>1. n \in 1..made
          BY <1>2, <2>1, <3>2
        <4>2. PICK c \in Branches : n \in refs[c]
          BY <4>1, GitFacts DEF CommitsOK
        <4>3. QED
          BY <1>1, <4>2
      <3>3. QED
        BY <3>1, <3>2
    <2>2. QED
      BY <2>1 DEF CommitsOK
  <1>7. QED
    BY <1>1, <1>3, <1>5, <1>6

LEMMA CommitMergeStep ==
    ASSUME GitInv, CommitMerge
    PROVE  GitInv'
  <1>1. job.step = "commit" /\ merging' = {} /\ worktrees' = worktrees
    BY DEF CommitMerge
  <1>2. CASE merging = {}
    <2>1. job' = NoJob /\ refs' = refs /\ made' = made
      BY <1>2 DEF CommitMerge, End
    <2>2. QED
      BY <1>1, <2>1, EndStep
  <1>3. CASE merging # {}
    <2>1. PICK j, s, b : /\ s = "preserved" /\ j = [job EXCEPT !.step = s]
                         /\ b = worktrees[RootPath].branch
      OBVIOUS
    <2>2. PICK C : C = refs[b] \cup merging \cup {New}
      OBVIOUS
    <2>3. b \in Branches
      BY <2>1, GitFacts DEF CheckoutsOK
    <2>4. job' = j /\ made' = New /\ refs' = [refs EXCEPT ![b] = C]
      BY <1>3, <2>1, <2>2, <2>3, GitFacts DEF CommitMerge, Step, ListedBranch
    <2>5. refs[b] \subseteq C /\ New \in C
      BY <2>2
    <2>6. worktrees' \in [Places -> Worktree]
      BY <1>1, GitFacts
    <2>7. GitTypes' /\ CheckoutsOK' /\ CommitsOK'
      BY <1>1, <2>3, <2>4, <2>5, <2>6, CommitOn
    <2>8. job.step \in Merging /\ s \in Merging /\ s \notin Preflighted /\ s # "recheck"
      BY <1>1, <2>1 DEF Merging, Preflighted
    <2>9. JobShape(j) /\ j.step = "preserved"
      BY <2>1, <2>8, MergingIs
    <2>10. AllocationOK(j, refs', worktrees') /\ MergeOK(j, refs', worktrees', merging')
      BY <1>1, <2>9 DEF AllocationOK, MergeOK, Adding, Making
    <2>11. QED
      BY <2>4, <2>7, <2>9, <2>10 DEF GitInv
  <1>4. QED
    BY <1>2, <1>3

LEMMA GitCommandStep ==
    ASSUME GitInv, GitCommand
    PROVE  GitInv'
  <1>1. ASSUME NEW p \in Paths, NEW b \in Branches, NEW c \in Branches, Allocate(p, b, c)
        PROVE  GitInv'
    <2>1. PICK j : j = [step |-> "probe", path |-> p, branch |-> b, base |-> c]
      OBVIOUS
    <2>2. JobShape(j) /\ j.step \notin Adding
      BY <2>1 DEF JobShape, Adding, Removing, Resolving, Merging, Preflighted
    <2>3. QED
      BY <1>1, <2>1, <2>2, BeginStep DEF Allocate
  <1>2. ASSUME NEW p \in Paths, NEW d, remove_worktree(p, d)
        PROVE  GitInv'
    <2>1. PICK j : j = [step |-> "list", path |-> p, delete |-> d]
      OBVIOUS
    <2>2. JobShape(j) /\ j.step \notin Adding
      BY <2>1 DEF JobShape, Adding, Removing, Resolving, Merging, Preflighted
    <2>3. QED
      BY <1>2, <2>1, <2>2, BeginStep DEF remove_worktree
  <1>3. ASSUME NEW a \in Branches, NEW b \in Branches, Check(a, b) \/ Merge(a, b)
        PROVE  GitInv'
    <2>1. PICK s \in {"resolve", "checkout"}, kind \in {"check", "merge"} :
              Begin([step |-> s, kind |-> kind, target |-> a, source |-> b])
      BY <1>3 DEF Check, Merge
    <2>2. PICK j : j = [step |-> s, kind |-> kind, target |-> a, source |-> b]
      OBVIOUS
    <2>3. JobShape(j) /\ j.step \notin Adding
      BY <2>2 DEF JobShape, Adding, Removing, Resolving, Merging, Preflighted
    <2>4. QED
      BY <2>1, <2>2, <2>3, BeginStep
  <1>4. CASE AllocateProbe \/ AllocateAdd \/ AllocateVerify \/ RollbackWorktree \/ RollbackBranch
    BY <1>4, AllocateProbeStep, AllocateAddStep, AllocateVerifyStep, RollbackWorktreeStep,
       RollbackBranchStep
  <1>5. CASE RemoveList \/ RemoveStatus \/ RemoveMerged \/ RemoveWorktree \/ RemoveBranch \/ RemoveKept
    BY <1>5, RemoveListStep, RemoveLooks, RemoveWorktreeStep, RemoveBranchStep
  <1>6. CASE MergeCheckout \/ MergeStatus \/ Resolve \/ Preflight \/ Recheck
             \/ BeginMerge \/ RecheckMerge \/ CommitMerge \/ Preserved
    BY <1>6, ResolvingSteps, ResolveStep, CheckedSteps, BeginMergeStep, RecheckMergeStep,
       CommitMergeStep
  <1>7. QED
    BY <1>1, <1>2, <1>3, <1>4, <1>5, <1>6 DEF GitCommand

-----------------------------------------------------------------------------
(* People and Agents.                                                       *)

\* They leave alone what is being allocated.
LEMMA WorkplaceIs ==
    ASSUME GitInv, NEW p \in Workplaces
    PROVE  /\ p \in Places /\ worktrees[p] # NoWorktree /\ worktrees[p].branch # "none"
           /\ job.step \in Making => p # job.path
  <1>1. p \in Places /\ worktrees[p] # NoWorktree
    BY GitFacts DEF Workplaces, Listed
  <1>2. worktrees[p].branch # "none"
    BY <1>1, GitFacts DEF CheckoutsOK
  <1>3. job.step \in Making => p # job.path
    BY DEF Workplaces, Allocating, Making
  <1>4. QED
    BY <1>1, <1>2, <1>3

\* One worktree changes; if its branch does, it leaves it, or goes to one that
\* exists, is checked out nowhere and is not being allocated.
LEMMA WorktreeStep ==
    ASSUME GitInv, NEW p \in Workplaces, NEW w \in Worktree, worktrees' = [worktrees EXCEPT ![p] = w],
           UNCHANGED <<refs, merging, made, job>>,
           \/ w.branch = worktrees[p].branch
           \/ w.branch = "detached" /\ p # RootPath
           \/ /\ w.branch \in Branches /\ refs[w.branch] # {} /\ Known(w.branch)
              /\ ~CheckedOut(w.branch) /\ (p = RootPath => merging = {})
    PROVE  GitInv'
  <1>1. /\ p \in Places /\ worktrees[p].branch # "none" /\ (job.step \in Making => p # job.path)
    BY WorkplaceIs
  <1>2. /\ worktrees'[p] = w /\ \A q \in Places \ {p} : worktrees'[q] = worktrees[q]
        /\ worktrees' \in [Places -> Worktree]
    BY <1>1, GitFacts
  <1>3. w.branch # "none"
    BY <1>1, NoBranches
  <1>4. GitTypes' /\ CommitsOK'
    BY <1>2, GitFacts DEF GitTypes, CommitsOK
  <1>5. w.branch # worktrees[p].branch /\ w.branch \in Branches =>
            /\ refs[w.branch] # {} /\ Known(w.branch) /\ (p = RootPath => merging = {})
            /\ \A q \in Places : worktrees[q].branch # w.branch
    BY NoBranches, CheckedOutIs
  <1>6. CheckoutsOK'
    <2>1. \A q \in Places : worktrees'[q].branch = "none" => worktrees'[q] = NoWorktree
      BY <1>2, <1>3, GitFacts DEF CheckoutsOK
    <2>2. worktrees'[RootPath].branch \in Branches
      BY <1>2, GitFacts DEF CheckoutsOK
    <2>3. \A q \in Places : worktrees'[q].branch \in Branches => refs'[worktrees'[q].branch] # {}
      BY <1>2, <1>5, GitFacts DEF CheckoutsOK
    <2>4. ASSUME NEW x \in Places, NEW y \in Places, worktrees'[x].branch \in Branches,
                 worktrees'[x].branch = worktrees'[y].branch
          PROVE  x = y
      <3>1. CASE w.branch = worktrees[p].branch
        <4>1. worktrees'[x].branch = worktrees[x].branch /\ worktrees'[y].branch = worktrees[y].branch
          BY <1>2, <3>1
        <4>2. QED
          BY <2>4, <4>1, GitFacts DEF CheckoutsOK
      <3>2. CASE w.branch # worktrees[p].branch
        BY <1>2, <1>5, <2>4, <3>2, GitFacts DEF CheckoutsOK
      <3>3. QED
        BY <3>1, <3>2
    <2>5. QED
      BY <2>1, <2>2, <2>3, <2>4 DEF CheckoutsOK
  <1>7. AllocationOK(job, refs, worktrees')
    <2>1. job.step \in Making => w.branch # job.branch \/ w.branch = worktrees[p].branch
      BY <1>5, GitFacts DEF Known, Allocating, Making, JobShape, Adding
    <2>2. job.step \in {"verify", "unadd"} =>
              worktrees'[job.path].branch = job.branch /\ worktrees'[job.path].dirty = FALSE
      <3>1. CASE job.step \in {"verify", "unadd"}
        <4>1. job.path \in Places \ {p}
          BY <1>1, <3>1, GitFacts DEF Making, JobShape, Adding
        <4>2. QED
          BY <1>2, <3>1, <4>1, GitFacts DEF AllocationOK
      <3>2. QED
        BY <3>1
    <2>3. job.step = "unbranch" => \A q \in Places : worktrees'[q].branch # job.branch
      BY <1>1, <1>2, <2>1, GitFacts DEF AllocationOK, Making
    <2>4. QED
      BY <2>2, <2>3, GitFacts DEF AllocationOK
  <1>8. MergeOK(job, refs, worktrees', merging)
    <2>1. merging # {} => worktrees'[RootPath].branch = worktrees[RootPath].branch
      <3>1. CASE p = RootPath /\ merging # {}
        BY <1>2, <3>1, GitFacts
      <3>2. CASE p # RootPath
        BY <1>2, <3>2, GitFacts
      <3>3. QED
        BY <3>1, <3>2
    <2>2. QED
      BY <2>1, GitFacts DEF MergeOK
  <1>9. QED
    BY <1>4, <1>6, <1>7, <1>8, GitFacts DEF GitInv

\* A branch that is being allocated, or merged into, gets no commit but in its
\* own worktree.
LEMMA CommitStep ==
    ASSUME GitInv, NEW p, Commit(p)
    PROVE  GitInv'
  <1>1. PICK b, w : b = worktrees[p].branch /\ w = [worktrees[p] EXCEPT !.dirty = FALSE]
    OBVIOUS
  <1>2. PICK more : more = IF p = RootPath THEN merging ELSE {}
    OBVIOUS
  <1>3. PICK C : C = refs[b] \cup {New} \cup more
    OBVIOUS
  <1>4. /\ p \in Workplaces /\ b # "detached" /\ made' = New /\ job' = job
        /\ worktrees' = [worktrees EXCEPT ![p] = w]
        /\ merging' = IF p = RootPath THEN {} ELSE merging
    BY <1>1 DEF Commit, ListedBranch
  <1>5. /\ p \in Places /\ worktrees[p] # NoWorktree /\ b # "none"
        /\ (job.step \in Making => p # job.path)
    BY <1>1, <1>4, WorkplaceIs
  <1>6. b \in Branches
    BY <1>1, <1>4, <1>5, ListedIs DEF Listed
  <1>7. refs' = [refs EXCEPT ![b] = C]
    BY <1>1, <1>2, <1>3, <1>6, GitFacts DEF Commit, ListedBranch
  <1>8. w \in Worktree /\ w.branch = b
    BY <1>1, <1>5, GitFacts DEF Worktree
  <1>9. /\ worktrees'[p] = w /\ \A q \in Places \ {p} : worktrees'[q] = worktrees[q]
        /\ worktrees' \in [Places -> Worktree]
    BY <1>4, <1>5, <1>8, GitFacts
  <1>10. \A q \in Places :
              \/ worktrees'[q] = worktrees[q]
              \/ worktrees'[q].branch = worktrees[q].branch /\ worktrees[q].branch # "none"
    BY <1>1, <1>5, <1>8, <1>9
  <1>11. refs[b] \subseteq C /\ New \in C
    BY <1>3
  <1>12. /\ GitTypes' /\ CheckoutsOK' /\ CommitsOK' /\ \A c \in Branches \ {b} : refs'[c] = refs[c]
         /\ \A c \in Branches : refs[c] \subseteq refs'[c]
    BY <1>4, <1>6, <1>7, <1>9, <1>10, <1>11, CommitOn
  <1>13. \A q \in Places : worktrees'[q].branch = worktrees[q].branch
    BY <1>10
  <1>14. job.step \in Adding => job.path \in Places /\ job.branch \in Branches
    BY GitFacts DEF JobShape
  <1>15. job.step \in Making => b # job.branch
    <2>1. CASE job.step \in {"verify", "unadd"}
      <3>1. worktrees[job.path].branch = job.branch /\ job.path # p /\ job.path \in Places
        BY <1>5, <1>14, <2>1, GitFacts DEF AllocationOK, Making, Adding
      <3>2. QED
        BY <1>1, <1>5, <1>6, <3>1, GitFacts DEF CheckoutsOK
    <2>2. CASE job.step = "unbranch"
      BY <1>1, <1>5, <2>2, GitFacts DEF AllocationOK
    <2>3. QED
      BY <2>1, <2>2 DEF Making
  <1>16. AllocationOK(job, refs', worktrees')
    <2>1. job.step \in Adding => \E c \in Branches \ {job.branch} : job.base \subseteq refs'[c]
      BY <1>12, GitFacts DEF AllocationOK
    <2>2. job.step \in Making => refs'[job.branch] = job.base
      BY <1>12, <1>14, <1>15, GitFacts DEF AllocationOK, Making, Adding
    <2>3. job.step \in {"verify", "unadd"} =>
              worktrees'[job.path].branch = job.branch /\ worktrees'[job.path].dirty = FALSE
      <3>1. CASE job.step \in {"verify", "unadd"}
        <4>1. job.path \in Places \ {p}
          BY <1>5, <1>14, <3>1 DEF Making, Adding
        <4>2. QED
          BY <1>9, <3>1, <4>1, GitFacts DEF AllocationOK
      <3>2. QED
        BY <3>1
    <2>4. job.step = "unbranch" => \A q \in Places : worktrees'[q].branch # job.branch
      BY <1>13, GitFacts DEF AllocationOK
    <2>5. QED
      BY <2>1, <2>2, <2>3, <2>4 DEF AllocationOK
  <1>17. MergeOK(job, refs', worktrees', merging')
    <2>1. CASE p = RootPath
      BY <1>4, <2>1 DEF MergeOK
    <2>2. CASE p # RootPath
      <3>1. merging' = merging
        BY <1>4, <2>2
      <3>2. worktrees'[RootPath].branch = worktrees[RootPath].branch
        BY <1>13, GitFacts
      <3>3. worktrees[RootPath].branch \in Branches \ {b}
        BY <1>1, <1>5, <1>6, <2>2, GitFacts DEF CheckoutsOK
      <3>4. worktrees[RootPath].branch = job.target => refs'[job.target] = refs[job.target]
        BY <1>12, <3>3
      <3>5. QED
        BY <3>1, <3>2, <3>4, GitFacts DEF MergeOK
    <2>3. QED
      BY <2>1, <2>2
  <1>18. QED
    BY <1>4, <1>12, <1>16, <1>17, GitFacts DEF GitInv

LEMMA GitUserStep ==
    ASSUME GitInv, GitUser
    PROVE  GitInv'
  <1>1. PICK p \in Places : Commit(p) \/ EditFiles(p) \/ Lock(p) \/ Leave(p)
                            \/ \E b \in Branches : Switch(p, b)
    BY DEF GitUser, Places
  <1>2. CASE Commit(p)
    BY <1>2, CommitStep
  <1>3. CASE EditFiles(p)
    <2>1. PICK w : w = [worktrees[p] EXCEPT !.dirty = TRUE]
      OBVIOUS
    <2>2. /\ p \in Workplaces /\ worktrees' = [worktrees EXCEPT ![p] = w]
          /\ UNCHANGED <<refs, merging, made, job>>
      BY <1>3, <2>1 DEF EditFiles
    <2>3. w \in Worktree /\ w.branch = worktrees[p].branch
      BY <1>1, <2>1, GitFacts DEF Worktree
    <2>4. QED
      BY <2>2, <2>3, WorktreeStep
  <1>4. CASE Lock(p)
    <2>1. PICK w : w = [worktrees[p] EXCEPT !.locked = ~worktrees[p].locked]
      OBVIOUS
    <2>2. /\ p \in Workplaces /\ worktrees' = [worktrees EXCEPT ![p] = w]
          /\ UNCHANGED <<refs, merging, made, job>>
      BY <1>1, <1>4, <2>1, GitFacts DEF Lock
    <2>3. w \in Worktree /\ w.branch = worktrees[p].branch
      BY <1>1, <2>1, GitFacts DEF Worktree
    <2>4. QED
      BY <2>2, <2>3, WorktreeStep
  <1>5. CASE Leave(p)
    <2>1. PICK v, w : /\ v = [worktrees[p] EXCEPT !.branch = "detached"]
                      /\ w = [worktrees[p] EXCEPT !.gone = TRUE]
      OBVIOUS
    <2>2. /\ p \in Workplaces /\ p # RootPath /\ UNCHANGED <<refs, merging, made, job>>
          /\ \/ worktrees' = [worktrees EXCEPT ![p] = v]
             \/ worktrees' = [worktrees EXCEPT ![p] = w]
      BY <1>5, <2>1 DEF Leave
    <2>3. /\ v \in Worktree /\ v.branch = "detached"
          /\ w \in Worktree /\ w.branch = worktrees[p].branch
      BY <1>1, <2>1, GitFacts DEF Worktree
    <2>4. QED
      BY <2>2, <2>3, WorktreeStep
  <1>6. ASSUME NEW b \in Branches, Switch(p, b)
        PROVE  GitInv'
    <2>1. PICK w : w = [worktrees[p] EXCEPT !.branch = b]
      OBVIOUS
    <2>2. /\ p \in Workplaces /\ worktrees' = [worktrees EXCEPT ![p] = w]
          /\ UNCHANGED <<refs, merging, made, job>>
          /\ refs[b] # {} /\ Known(b) /\ ~CheckedOut(b) /\ (p = RootPath => merging = {})
      BY <1>6, <2>1 DEF Switch
    <2>3. w \in Worktree /\ w.branch = b
      BY <1>1, <2>1, GitFacts DEF Worktree
    <2>4. QED
      BY <2>2, <2>3, WorktreeStep
  <1>7. QED
    BY <1>1, <1>2, <1>3, <1>4, <1>5, <1>6

LEMMA GitInitOK == GitInit => GitInv
  <1> SUFFICES ASSUME GitInit PROVE GitInv
    OBVIOUS
  <1>1. /\ refs = [b \in Branches |-> IF b = Main THEN {1} ELSE {}]
        /\ worktrees = [p \in Places |-> IF p = RootPath THEN Registered(Main) ELSE NoWorktree]
        /\ merging = {} /\ made = 1 /\ job = NoJob
    BY DEF GitInit, Places
  <1>2. /\ Registered(Main) \in Worktree /\ Registered(Main).branch = Main
        /\ NoWorktree \in Worktree /\ NoWorktree.branch = "none"
    BY NoWorktreeIs, NoBranches
  <1>3. GitTypes
    BY <1>1, <1>2 DEF GitTypes
  <1>4. CheckoutsOK
    BY <1>1, <1>2, NoBranches DEF CheckoutsOK, Places
  <1>5. CommitsOK
    BY <1>1, NoBranches DEF CommitsOK
  <1>6. JobShape(job) /\ AllocationOK(job, refs, worktrees) /\ MergeOK(job, refs, worktrees, merging)
    BY <1>1, NoJobIs DEF AllocationOK, MergeOK, Adding, Making
  <1>7. QED
    BY <1>3, <1>4, <1>5, <1>6 DEF GitInv

\* In every state each branch is checked out in one worktree at most and exists
\* as long as it is, every commit is on a branch, and the command under way
\* knows what its next git process relies on (workspace_git.rs).
THEOREM GitInvariant == GitSpec => []GitInv
  <1>1. GitInv /\ [GitNext]_git_vars => GitInv'
    <2> SUFFICES ASSUME GitInv, [GitNext]_git_vars PROVE GitInv'
      OBVIOUS
    <2>1. CASE UNCHANGED git_vars
      BY <2>1 DEF git_vars, GitInv, GitTypes, CheckoutsOK, CommitsOK
    <2>2. CASE GitCommand
      BY <2>2, GitCommandStep
    <2>3. CASE GitUser
      BY <2>3, GitUserStep
    <2>4. QED
      BY <2>1, <2>2, <2>3 DEF GitNext
  <1>2. QED
    BY <1>1, GitInitOK, PTL DEF GitSpec

\* No step of a command, or of anybody else, removes a worktree with
\* uncommitted work in it.
LEMMA DirtyStays ==
    ASSUME GitInv, [GitNext]_git_vars, NEW p \in Paths, worktrees[p].dirty
    PROVE  worktrees'[p] # NoWorktree
  <1>1. p \in Places /\ worktrees[p] # NoWorktree /\ worktrees[p].branch # "none"
    BY GitFacts, NoWorktreeIs DEF CheckoutsOK
  <1>2. worktrees[p].dirty # FALSE
    OBVIOUS
  <1>3. CASE worktrees' = worktrees
    BY <1>1, <1>3
  <1>4. ASSUME NEW q, NEW w, worktrees' = [worktrees EXCEPT ![q] = w],
               q = p => w.branch # "none"
        PROVE  worktrees'[p] # NoWorktree
    BY <1>1, <1>4, GitFacts, NoWorktreeIs
  <1>5. ASSUME NEW q, worktrees' = [worktrees EXCEPT ![q] = NoWorktree], q # p
        PROVE  worktrees'[p] # NoWorktree
    BY <1>1, <1>5, GitFacts
  <1>6. CASE AllocateAdd
    <2>1. CASE worktrees' # worktrees
      <3>1. ~Listed(job.path) /\ worktrees' = [worktrees EXCEPT ![job.path] = Registered(job.branch)]
        BY <1>6, <2>1 DEF AllocateAdd
      <3>2. job.path # p
        BY <1>1, <3>1 DEF Listed
      <3>3. PICK w : w = Registered(job.branch)
        OBVIOUS
      <3>4. QED
        BY <1>4, <3>1, <3>2, <3>3
    <2>2. QED
      BY <1>3, <2>1
  <1>7. CASE RollbackWorktree
    <2>1. worktrees[job.path].dirty = FALSE /\ worktrees' = [worktrees EXCEPT ![job.path] = NoWorktree]
      BY <1>7, GitFacts DEF RollbackWorktree, AllocationOK
    <2>2. job.path # p
      BY <1>2, <2>1
    <2>3. QED
      BY <1>5, <2>1, <2>2
  <1>8. CASE RemoveWorktree
    <2>1. CASE worktrees' # worktrees
      <3>1. Removable(job.path) /\ worktrees' = [worktrees EXCEPT ![job.path] = NoWorktree]
        BY <1>8, <2>1 DEF RemoveWorktree
      <3>2. job.path # p
        BY <3>1 DEF Removable
      <3>3. QED
        BY <1>5, <3>1, <3>2
    <2>2. QED
      BY <1>3, <2>1
  <1>9. CASE GitUser
    <2>1. PICK q \in Places : Commit(q) \/ EditFiles(q) \/ Lock(q) \/ Leave(q)
                              \/ \E b \in Branches : Switch(q, b)
      BY <1>9 DEF GitUser, Places
    <2>2. DOMAIN worktrees[q] = {"branch", "dirty", "locked", "gone"}
      BY <2>1, GitFacts DEF Worktree
    <2>3. PICK w : /\ worktrees' = [worktrees EXCEPT ![q] = w]
                   /\ w.branch = worktrees[q].branch \/ w.branch = "detached" \/ w.branch \in Branches
      <3>1. CASE Commit(q)
        <4>1. PICK w : w = [worktrees[q] EXCEPT !.dirty = FALSE]
          OBVIOUS
        <4>2. worktrees' = [worktrees EXCEPT ![q] = w] /\ w.branch = worktrees[q].branch
          BY <2>2, <3>1, <4>1 DEF Commit
        <4>3. QED
          BY <4>2
      <3>2. CASE EditFiles(q)
        <4>1. PICK w : w = [worktrees[q] EXCEPT !.dirty = TRUE]
          OBVIOUS
        <4>2. worktrees' = [worktrees EXCEPT ![q] = w] /\ w.branch = worktrees[q].branch
          BY <2>2, <3>2, <4>1 DEF EditFiles
        <4>3. QED
          BY <4>2
      <3>3. CASE Lock(q)
        <4>1. PICK w : w = [worktrees[q] EXCEPT !.locked = ~worktrees[q].locked]
          OBVIOUS
        <4>2. worktrees' = [worktrees EXCEPT ![q] = w] /\ w.branch = worktrees[q].branch
          BY <2>1, <2>2, <3>3, <4>1, GitFacts DEF Lock
        <4>3. QED
          BY <4>2
      <3>4. CASE Leave(q)
        <4>1. PICK v, w : /\ v = [worktrees[q] EXCEPT !.branch = "detached"]
                          /\ w = [worktrees[q] EXCEPT !.gone = TRUE]
          OBVIOUS
        <4>2. \/ worktrees' = [worktrees EXCEPT ![q] = v]
              \/ worktrees' = [worktrees EXCEPT ![q] = w]
          BY <3>4, <4>1 DEF Leave
        <4>3. v.branch = "detached" /\ w.branch = worktrees[q].branch
          BY <2>2, <4>1
        <4>4. QED
          BY <4>2, <4>3
      <3>5. ASSUME NEW b \in Branches, Switch(q, b)
            PROVE  \E w : /\ worktrees' = [worktrees EXCEPT ![q] = w]
                          /\ w.branch = worktrees[q].branch \/ w.branch = "detached" \/ w.branch \in Branches
        <4>1. PICK w : w = [worktrees[q] EXCEPT !.branch = b]
          OBVIOUS
        <4>2. worktrees' = [worktrees EXCEPT ![q] = w] /\ w.branch = b
          BY <2>2, <3>5, <4>1 DEF Switch
        <4>3. QED
          BY <4>2
      <3>6. QED
        BY <2>1, <3>1, <3>2, <3>3, <3>4, <3>5
    <2>4. QED
      BY <1>1, <1>4, <2>3, NoBranches
  <1>10. GitCommand => worktrees' = worktrees \/ AllocateAdd \/ RollbackWorktree \/ RemoveWorktree
    BY DEF GitCommand, Allocate, remove_worktree, Check, Merge, Begin, AllocateProbe, AllocateVerify,
       RollbackBranch, RemoveList, RemoveStatus, RemoveMerged, RemoveBranch, RemoveKept,
       MergeCheckout, MergeStatus, Resolve, Preflight, Recheck, BeginMerge, RecheckMerge,
       CommitMerge, Preserved
  <1>11. QED
    BY <1>3, <1>6, <1>7, <1>8, <1>9, <1>10 DEF GitNext, git_vars

\* Work is kept (workspace_git.rs remove_worktree, rollback_allocation): for any
\* number of branches, worktrees and commits, every commit ever made stays on
\* some branch, and no worktree with uncommitted work in it is removed.
THEOREM WorkKept == GitSpec => WorkIsKept
  <1>1. ASSUME GitInv, GitInv', [GitNext]_git_vars
        PROVE  /\ \A n \in 1..made : \E b \in Branches : n \in refs'[b]
               /\ \A p \in Paths : worktrees[p].dirty => worktrees'[p] # NoWorktree
    <2>1. made \in Nat /\ (made' = made \/ made' = made + 1)
      BY <1>1, GitFacts DEF GitNext, GitCommand, GitUser, git_vars, Allocate, remove_worktree, Check, Merge, Begin,
         AllocateProbe, AllocateAdd, AllocateVerify, RollbackWorktree, RollbackBranch, RemoveList,
         RemoveStatus, RemoveMerged, RemoveWorktree, RemoveBranch, RemoveKept, MergeCheckout,
         MergeStatus, Resolve, Preflight, Recheck, BeginMerge, RecheckMerge, CommitMerge, Preserved,
         Commit, EditFiles, Switch, Lock, Leave, New
    <2>2. \A n \in 1..made' : \E b \in Branches : n \in refs'[b]
      BY <1>1 DEF GitInv, CommitsOK
    <2>3. \A n \in 1..made : n \in 1..made'
      BY <2>1
    <2>4. QED
      BY <1>1, <2>2, <2>3, DirtyStays
  <1>2. GitInv /\ GitInv' /\ [GitNext]_git_vars =>
          [/\ \A n \in 1..made : \E b \in Branches : n \in refs'[b]
           /\ \A p \in Paths : worktrees[p].dirty => worktrees'[p] # NoWorktree]_git_vars
    BY <1>1
  <1>3. QED
    BY <1>2, GitInvariant, PTL DEF GitSpec, WorkIsKept

\* The merge that lands is the one that was preflighted (workspace_git.rs
\* merge_worktree): whatever branches moved between its git processes, the
\* target's branch moves only from the commit it was resolved to, and only to
\* that commit's merge with the one the source was resolved to.
THEOREM MergesPreflighted == GitSpec => MergeIsThePreflighted
  <1>1. ASSUME GitInv, [GitNext]_git_vars, job.step = "commit",
               refs'[job.target] # refs[job.target], job' # job
        PROVE  /\ refs[job.target] = job.previous
               /\ refs'[job.target] = job.previous \cup job.joined \cup {made'}
               /\ Mergeable(job.previous, job.joined)
    <2>1. CASE CommitMerge
      <3>1. PICK b : b = worktrees[RootPath].branch
        OBVIOUS
      <3>2. /\ merging # {} /\ made' = New
            /\ refs' = [refs EXCEPT ![b] = refs[b] \cup merging \cup {New}]
        <4>1. CASE merging = {}
          BY <1>1, <2>1, <4>1 DEF CommitMerge
        <4>2. CASE merging # {}
          <5>1. made' = New /\ refs' = [refs EXCEPT ![b] = @ \cup merging \cup {New}]
            BY <2>1, <3>1, <4>2 DEF CommitMerge, ListedBranch
          <5>2. QED
            BY <4>2, <5>1, GitFacts
        <4>3. QED
          BY <4>1, <4>2
      <3>3. job.target = b
        BY <1>1, <3>2
      <3>4. merging = job.joined /\ refs[b] = job.previous
        BY <1>1, <3>1, <3>2, <3>3, GitFacts DEF MergeOK
      <3>5. refs'[b] = refs[b] \cup merging \cup {New}
        <4>1. PICK C : C = refs[b] \cup merging \cup {New}
          OBVIOUS
        <4>2. b \in Branches
          BY <1>1, <3>1, GitFacts DEF CheckoutsOK
        <4>3. refs' = [refs EXCEPT ![b] = C]
          BY <3>2, <4>1
        <4>4. refs'[b] = C
          BY <1>1, <4>2, <4>3, GitFacts
        <4>5. QED
          BY <4>1, <4>4
      <3>6. Mergeable(job.previous, job.joined)
        BY <1>1, GitFacts DEF JobShape, Preflighted
      <3>7. QED
        BY <3>2, <3>3, <3>4, <3>5, <3>6
    <2>2. CASE GitUser
      BY <1>1, <2>2 DEF GitUser, Commit, EditFiles, Switch, Lock, Leave
    <2>3. GitCommand => CommitMerge
      <3>1. job # NoJob
        BY <1>1, NoJobIs
      <3>2. QED
        BY <1>1, <3>1 DEF GitCommand, Allocate, remove_worktree, Check, Merge, Begin, AllocateProbe, AllocateAdd,
           AllocateVerify, RollbackWorktree, RollbackBranch, RemoveList, RemoveStatus, RemoveMerged,
           RemoveWorktree, RemoveBranch, RemoveKept, MergeCheckout, MergeStatus, Resolve, Preflight,
           Recheck, BeginMerge, RecheckMerge, Preserved
    <2>4. QED
      BY <1>1, <2>1, <2>2, <2>3 DEF GitNext, git_vars
  <1>2. GitInv /\ [GitNext]_git_vars =>
          [job.step = "commit" /\ refs'[job.target] # refs[job.target] /\ job' # job =>
             /\ refs[job.target] = job.previous
             /\ refs'[job.target] = job.previous \cup job.joined \cup {made'}
             /\ Mergeable(job.previous, job.joined)]_git_vars
    BY <1>1
  <1>3. QED
    BY <1>2, GitInvariant, PTL DEF GitSpec, MergeIsThePreflighted

-----------------------------------------------------------------------------
(* Providers: one exchange at a time.                                       *)

TransportSpec == TransportInit /\ [][TransportNext]_transport_vars

ProviderShape ==
    /\ exchanges \in 0..MaxExchanges
    /\ provider # NoProvider =>
          /\ DOMAIN provider = {"dialect", "template", "model", "local_echo_enabled", "pending"}
          /\ provider.dialect \in Dialects
    /\ exchange.phase \in {"idle", "sending", "reading"}
    /\ exchange.phase = "idle" => exchange = NoExchange
    /\ exchange.phase # "idle" =>
          provider # NoProvider /\ exchange.initial \in BOOLEAN /\ exchanges >= 1

\* What is pending is the call of the latest run; the exchange in flight was
\* sent with nothing pending, and a continuation answers that call.
PendingIsOfLastRun ==
    /\ provider # NoProvider =>
          \/ provider.pending = <<>>
          \/ \E c \in 1..MaxExchanges : provider.pending = <<c>> /\ last_run = {c}
    /\ exchange.phase # "idle" =>
          /\ provider.pending = <<>>
          /\ ~exchange.initial => \E c \in 1..MaxExchanges : exchange.call = <<c>> /\ last_run = {c}

TransportInv ==
    /\ ProviderShape
    /\ PendingIsOfLastRun
    /\ RetryableMeansNoProgress

LEMMA TransportStart == TransportInit => TransportInv
  BY TransportAssumption DEF TransportInit, TransportInv, ProviderShape, PendingIsOfLastRun,
     RetryableMeansNoProgress, NoExchange, NoOutcome, Retryable

\* A provider that is chosen has one of the dialects.
LEMMA ConfigureStep ==
  ASSUME TransportInv, Configure
  PROVE  TransportInv'
<1>1. /\ exchange' = exchange /\ outcome' = outcome /\ last_run' = last_run /\ exchanges' = exchanges
      /\ provider = NoProvider
  BY DEF Configure
<1>2. PICK profile \in EndpointProfiles, model \in RequestModels, preferred \in Dialects,
           credential \in {"bound", "missing"}, echo \in BOOLEAN :
        LET p == for_new_turn_with_preferred_dialect(profile, model, preferred, credential)
        IN  p # NoProvider /\ provider' = [p EXCEPT !.local_echo_enabled = echo]
  BY DEF Configure
<1> DEFINE dialect == resolve_preferred_dialect(profile, model, preferred)
           p == [dialect |-> dialect, template |-> profile.template, model |-> model,
                 local_echo_enabled |-> FALSE, pending |-> <<>>]
<1>3. for_new_turn_with_preferred_dialect(profile, model, preferred, credential) \in {p, NoProvider}
      /\ (dialect = "none" => for_new_turn_with_preferred_dialect(profile, model, preferred, credential) = NoProvider)
  BY DEF for_new_turn_with_preferred_dialect
<1>4. provider' = [p EXCEPT !.local_echo_enabled = echo] /\ dialect # "none"
  BY <1>2, <1>3
<1>5. dialect \in Dialects
  BY <1>4 DEF resolve_preferred_dialect, Dialects
<1> HIDE DEF dialect
<1>6. /\ DOMAIN provider' = {"dialect", "template", "model", "local_echo_enabled", "pending"}
      /\ provider'.dialect \in Dialects /\ provider'.pending = <<>>
  BY <1>4, <1>5
<1>7. exchange.phase = "idle"
  BY <1>1 DEF TransportInv, ProviderShape
<1>8. QED
  BY <1>1, <1>6, <1>7 DEF TransportInv, ProviderShape, PendingIsOfLastRun, RetryableMeansNoProgress

\* A request is sent with nothing pending, or refused.
LEMMA SendingStep ==
  ASSUME TransportInv,
         provider # NoProvider, exchange = NoExchange, exchanges < MaxExchanges,
         exchanges' = exchanges + 1,
         outcome'.error \notin Retryable,
         \/ /\ provider' = provider \/ provider' = [provider EXCEPT !.pending = <<>>]
            /\ exchange' = exchange
            /\ last_run' = last_run \/ provider'.pending = <<>>
         \/ /\ provider' = [provider EXCEPT !.pending = <<>>]
            /\ \/ exchange' = [phase |-> "sending", initial |-> TRUE, call |-> <<>>]
               \/ \E c \in 1..MaxExchanges :
                    /\ exchange' = [phase |-> "sending", initial |-> FALSE, call |-> <<c>>]
                    /\ last_run = {c} /\ last_run' = last_run
  PROVE  TransportInv'
<1>1. /\ DOMAIN provider = {"dialect", "template", "model", "local_echo_enabled", "pending"}
      /\ provider.dialect \in Dialects
  BY DEF TransportInv, ProviderShape
<1> DEFINE p == [provider EXCEPT !.pending = <<>>]
<1>2. /\ DOMAIN p = {"dialect", "template", "model", "local_echo_enabled", "pending"}
      /\ p.dialect \in Dialects /\ p.pending = <<>> /\ p # NoProvider
  <2>1. DOMAIN p = DOMAIN provider /\ p.dialect = provider.dialect /\ p.pending = <<>>
    BY <1>1
  <2>2. DOMAIN NoProvider = {"dialect"}
    BY DEF NoProvider
  <2>3. QED
    BY <1>1, <2>1, <2>2
<1> HIDE DEF p
<1>3. provider' = provider \/ provider' = p
  BY DEF p
<1>4. exchanges' \in 0..MaxExchanges /\ exchanges' >= 1
  BY TransportAssumption DEF TransportInv, ProviderShape
<1>5. RetryableMeansNoProgress'
  BY DEF RetryableMeansNoProgress
<1>6. NoExchange.phase = "idle"
  BY DEF NoExchange
<1>7. ProviderShape'
  <2>1. \/ exchange' = NoExchange
        \/ exchange'.phase = "sending" /\ exchange'.initial \in BOOLEAN
    <3>1. \/ exchange' = exchange
          \/ exchange' = [phase |-> "sending", initial |-> TRUE, call |-> <<>>]
          \/ \E c \in 1..MaxExchanges : exchange' = [phase |-> "sending", initial |-> FALSE, call |-> <<c>>]
      OBVIOUS
    <3>2. CASE exchange' = exchange
      BY <3>2
    <3>3. CASE exchange' = [phase |-> "sending", initial |-> TRUE, call |-> <<>>]
      BY <3>3
    <3>4. CASE \E c \in 1..MaxExchanges : exchange' = [phase |-> "sending", initial |-> FALSE, call |-> <<c>>]
      BY <3>4
    <3>5. QED
      BY <3>1, <3>2, <3>3, <3>4
  <2>2. CASE exchange' = NoExchange
    BY <1>1, <1>2, <1>3, <1>4, <1>6, <2>2 DEF ProviderShape
  <2>3. CASE exchange'.phase = "sending" /\ exchange'.initial \in BOOLEAN
    BY <1>1, <1>2, <1>3, <1>4, <2>3 DEF ProviderShape
  <2>4. QED
    BY <2>1, <2>2, <2>3
<1>8. PendingIsOfLastRun'
  <2>1. CASE exchange' = exchange
    <3>1. provider'.pending = <<>> \/ (provider' = provider /\ last_run' = last_run)
      BY <1>2, <1>6, <2>1 DEF p
    <3>2. QED
      BY <1>6, <2>1, <3>1 DEF TransportInv, PendingIsOfLastRun
  <2>2. CASE exchange' # exchange
    BY <1>2, <2>2 DEF PendingIsOfLastRun, p
  <2>3. QED
    BY <2>1, <2>2
<1>9. QED
  BY <1>5, <1>7, <1>8 DEF TransportInv

LEMMA RunStep ==
  ASSUME TransportInv, NEW request, Run(request)
  PROVE  TransportInv'
<1> DEFINE identity == require_request_identity(provider, request)
           policy == require_request_policy(provider, request)
           dropped == identity /\ (policy \/ provider.dialect = "chat_completions")
<1>1. /\ provider # NoProvider /\ exchange = NoExchange /\ exchanges < MaxExchanges
      /\ exchanges' = exchanges + 1
  BY DEF Run
<1>2. /\ provider' = IF dropped THEN [provider EXCEPT !.pending = <<>>] ELSE provider
      /\ last_run' = IF dropped THEN {} ELSE last_run
  BY DEF Run
<1>3. \/ /\ identity /\ policy
         /\ exchange' = [phase |-> "sending", initial |-> TRUE, call |-> <<>>]
         /\ outcome' = NoOutcome
      \/ /\ ~(identity /\ policy) /\ exchange' = exchange
         /\ \/ outcome' = Answer("InvalidRequest")
            \/ outcome' = Answer("InvalidConfiguration")
  BY DEF Run
<1> HIDE DEF identity, policy
<1>4. outcome'.error \notin Retryable
  BY <1>3 DEF Answer, NoOutcome, Retryable
<1>5. DOMAIN provider = {"dialect", "template", "model", "local_echo_enabled", "pending"}
  BY <1>1 DEF TransportInv, ProviderShape
<1>6. dropped => provider'.pending = <<>>
  BY <1>2, <1>5
<1>7. CASE identity /\ policy
  BY <1>1, <1>2, <1>3, <1>4, <1>7, SendingStep
<1>8. CASE ~(identity /\ policy)
  BY <1>1, <1>2, <1>3, <1>4, <1>6, <1>8, SendingStep
<1>9. QED
  BY <1>7, <1>8

LEMMA ContinueStep ==
  ASSUME TransportInv, NEW request, NEW call \in 1..MaxExchanges, ContinueAfterTool(request, call)
  PROVE  TransportInv'
<1>1. /\ provider # NoProvider /\ exchange = NoExchange /\ exchanges < MaxExchanges
      /\ exchanges' = exchanges + 1 /\ last_run' = last_run
  BY DEF ContinueAfterTool
<1>2. \/ /\ outcome' = Answer("InvalidConfiguration") \/ outcome' = Answer("InvalidRequest")
         /\ provider' = provider /\ exchange' = exchange
      \/ /\ provider.pending = <<call>>
         /\ provider' = [provider EXCEPT !.pending = <<>>]
         /\ exchange' = [phase |-> "sending", initial |-> FALSE, call |-> <<call>>]
         /\ outcome' = NoOutcome
  BY DEF ContinueAfterTool
<1>3. outcome'.error \notin Retryable
  BY <1>2 DEF Answer, NoOutcome, Retryable
<1>4. provider.pending = <<call>> => last_run = {call}
  BY <1>1 DEF TransportInv, PendingIsOfLastRun
<1>5. QED
  BY <1>1, <1>2, <1>3, <1>4, SendingStep

\* An exchange that fails ends, and what it reports is retryable only if
\* nothing had been decoded.
LEMMA FailStep ==
  ASSUME TransportInv, NEW e, Fail(e), exchange.phase # "idle",
         e \in Retryable /\ provider.dialect # "chat_completions" /\ exchange.phase = "reading" =>
            exchange.decoder.processed = 0
  PROVE  TransportInv'
<1> DEFINE n == IF exchange.phase = "reading" THEN exchange.decoder.processed ELSE 0
<1>1. /\ outcome' = [Answer(e) EXCEPT !.processed = n]
      /\ exchange' = NoExchange /\ provider' = provider /\ last_run' = last_run /\ exchanges' = exchanges
  BY DEF Fail
<1>2. outcome'.error = e /\ outcome'.dialect = provider.dialect /\ outcome'.processed = n
  BY <1>1 DEF Answer
<1>3. RetryableMeansNoProgress'
  BY <1>2 DEF RetryableMeansNoProgress
<1>4. exchange'.phase = "idle"
  BY <1>1 DEF NoExchange
<1>5. QED
  BY <1>1, <1>3, <1>4 DEF TransportInv, ProviderShape, PendingIsOfLastRun

LEMMA SendStep ==
  ASSUME TransportInv, SendFails \/ SendSucceeds
  PROVE  TransportInv'
<1>1. CASE SendFails
  <2>1. exchange.phase = "sending" /\ \E answer : Fail(SendError(answer))
    BY <1>1 DEF SendFails
  <2>2. PICK e : Fail(e)
    BY <2>1
  <2>3. QED
    BY <2>1, <2>2, FailStep
<1>2. CASE SendSucceeds
  <2>1. /\ exchange.phase = "sending"
        /\ exchange' = [phase |-> "reading", initial |-> exchange.initial, call |-> exchange.call,
                        decoder |-> NewDecoder(provider.dialect)]
        /\ provider' = provider /\ outcome' = outcome /\ last_run' = last_run /\ exchanges' = exchanges
    BY <1>2 DEF SendSucceeds
  <2>2. /\ exchange'.phase = "reading" /\ exchange'.initial = exchange.initial
        /\ exchange'.call = exchange.call
    BY <2>1
  <2>3. QED
    BY <2>1, <2>2 DEF TransportInv, ProviderShape, PendingIsOfLastRun, RetryableMeansNoProgress
<1>3. QED
  BY <1>1, <1>2

LEMMA ReadStep ==
  ASSUME TransportInv, NEW e, Read(e)
  PROVE  TransportInv'
<1>1. /\ exchange.phase = "reading"
      /\ \/ Fail("InvalidResponse")
         \/ /\ exchange' = [exchange EXCEPT !.decoder = Decode(exchange.decoder, e)]
            /\ provider' = provider /\ outcome' = outcome /\ last_run' = last_run
            /\ exchanges' = exchanges
  BY DEF Read
<1>2. CASE Fail("InvalidResponse")
  <2>1. "InvalidResponse" \notin Retryable
    BY DEF Retryable
  <2>2. QED
    BY <1>1, <1>2, <2>1, FailStep
<1>3. CASE exchange' = [exchange EXCEPT !.decoder = Decode(exchange.decoder, e)] /\ ~Fail("InvalidResponse")
  <2>1. exchange'.phase = exchange.phase /\ exchange'.initial = exchange.initial /\ exchange'.call = exchange.call
    BY <1>3
  <2>2. QED
    BY <1>1, <1>3, <2>1 DEF TransportInv, ProviderShape, PendingIsOfLastRun, RetryableMeansNoProgress
<1>4. QED
  BY <1>1, <1>2, <1>3

\* provider_stream_stage says BeforeFirstEvent of a stream of no events only.
LEMMA StageStep ==
  ASSUME TransportInv, exchange.phase = "reading", Fail(provider_stream_stage(exchange.decoder))
  PROVE  TransportInv'
<1>1. provider_stream_stage(exchange.decoder) \in Retryable => exchange.decoder.processed = 0
  BY DEF provider_stream_stage, Retryable
<1>2. QED
  BY <1>1, FailStep

\* Only the Chat Completions dialect makes a retryable failure of a stream
\* that has ended.
LEMMA NormalizeErrors ==
  ASSUME NEW d, provider.dialect \in Dialects, provider.dialect # "chat_completions"
  PROVE  Normalize(d).error \in {"none", "InvalidResponse", "AfterFirstEvent"}
<1>1. Messages!normalize(d.events).error \in {"none", "InvalidResponse", "AfterFirstEvent"}
  BY DEF Messages!normalize
<1>2. Responses!normalize(d.events).error \in {"none", "InvalidResponse", "AfterFirstEvent"}
  BY DEF Responses!normalize
<1>3. CASE provider.dialect = "messages"
  BY <1>1, <1>3 DEF Normalize
<1>4. CASE provider.dialect = "responses"
  <2>1. Normalize(d) \in {[error |-> "InvalidResponse", events |-> <<>>], Responses!normalize(d.events)}
    BY <1>4 DEF Normalize
  <2>2. QED
    BY <1>2, <2>1
<1>5. QED
  BY <1>3, <1>4 DEF Dialects

LEMMA EndOfStreamStep ==
  ASSUME TransportInv, NEW partial, NEW known_tool, EndOfStream(partial, known_tool)
  PROVE  TransportInv'
<1> DEFINE d == exchange.decoder
           n == Normalize(d)
           single == exchange.initial /\ Cardinality(Calls(n.events)) = 1
<1>1. /\ exchange.phase = "reading"
      /\ \/ Fail(provider_stream_stage(d))
         \/ n.error # "none" /\ Fail(n.error)
         \/ Fail("InvalidResponse")
         \/ /\ outcome' = [error |-> "none", events |-> n.events, processed |-> d.processed,
                           dialect |-> provider.dialect]
            /\ exchange' = NoExchange /\ exchanges' = exchanges
            /\ provider' = IF single THEN [provider EXCEPT !.pending = <<exchanges>>] ELSE provider
            /\ last_run' = IF single THEN {exchanges} ELSE last_run
  BY DEF EndOfStream
<1> HIDE DEF n, single
<1>2. provider.dialect \in Dialects
  BY <1>1 DEF TransportInv, ProviderShape
<1>3. n.error \in Retryable => provider.dialect = "chat_completions"
  BY <1>2, NormalizeErrors DEF n, Retryable
<1>4. CASE Fail(provider_stream_stage(d))
  BY <1>1, <1>4, StageStep
<1>5. CASE Fail(n.error)
  BY <1>1, <1>3, <1>5, FailStep
<1>6. CASE Fail("InvalidResponse")
  <2>1. "InvalidResponse" \notin Retryable
    BY DEF Retryable
  <2>2. QED
    BY <1>1, <1>6, <2>1, FailStep
<1>7. CASE /\ outcome' = [error |-> "none", events |-> n.events, processed |-> d.processed,
                          dialect |-> provider.dialect]
           /\ exchange' = NoExchange /\ exchanges' = exchanges
           /\ provider' = IF single THEN [provider EXCEPT !.pending = <<exchanges>>] ELSE provider
           /\ last_run' = IF single THEN {exchanges} ELSE last_run
  <2>1. /\ DOMAIN provider = {"dialect", "template", "model", "local_echo_enabled", "pending"}
        /\ provider # NoProvider /\ exchanges \in 1..MaxExchanges
    BY <1>1, TransportAssumption DEF TransportInv, ProviderShape
  <2> DEFINE p == [provider EXCEPT !.pending = <<exchanges>>]
  <2>2. /\ DOMAIN p = {"dialect", "template", "model", "local_echo_enabled", "pending"}
        /\ p.dialect = provider.dialect /\ p.pending = <<exchanges>>
    BY <2>1
  <2> HIDE DEF p
  <2>3. \/ provider' = p /\ last_run' = {exchanges}
        \/ provider' = provider /\ last_run' = last_run
    BY <1>7 DEF p
  <2>4. exchange'.phase = "idle"
    BY <1>7 DEF NoExchange
  <2>5. p # NoProvider
    <3>1. DOMAIN NoProvider = {"dialect"}
      BY DEF NoProvider
    <3>2. QED
      BY <2>2, <3>1
  <2>6. RetryableMeansNoProgress'
    BY <1>7 DEF RetryableMeansNoProgress, Retryable
  <2>7. ProviderShape'
    BY <1>7, <2>1, <2>2, <2>3, <2>4 DEF TransportInv, ProviderShape
  <2>8. PendingIsOfLastRun'
    BY <1>1, <2>1, <2>2, <2>3, <2>4, <2>5 DEF TransportInv, PendingIsOfLastRun
  <2>9. QED
    BY <2>6, <2>7, <2>8 DEF TransportInv
<1>8. QED
  BY <1>1, <1>4, <1>5, <1>6, <1>7

LEMMA TransportStep ==
  ASSUME TransportInv, [TransportNext]_transport_vars
  PROVE  TransportInv'
<1>1. CASE Configure \/ SendFails \/ SendSucceeds
  BY <1>1, ConfigureStep, SendStep
<1>2. CASE \E request \in Requests : Run(request)
  BY <1>2, RunStep
<1>3. CASE \E request \in Requests, call \in 1..MaxExchanges : ContinueAfterTool(request, call)
  BY <1>3, ContinueStep
<1>4. CASE exchange.phase = "reading" /\ \E e \in Wire : Read(e)
  BY <1>4, ReadStep
<1>5. CASE ReadFails
  BY <1>5, StageStep DEF ReadFails
<1>6. CASE \E partial \in BOOLEAN, known_tool \in BOOLEAN : EndOfStream(partial, known_tool)
  BY <1>6, EndOfStreamStep
<1>7. CASE UNCHANGED transport_vars
  BY <1>7 DEF transport_vars, TransportInv, ProviderShape, PendingIsOfLastRun, RetryableMeansNoProgress
<1>8. QED
  BY <1>1, <1>2, <1>3, <1>4, <1>5, <1>6, <1>7 DEF TransportNext

THEOREM TransportInvariant == TransportSpec => []TransportInv
<1>1. TransportInv /\ [TransportNext]_transport_vars => TransportInv'
  BY TransportStep
<1>2. QED
  BY <1>1, TransportStart, PTL DEF TransportSpec

\* A failure the Kernel may retry had decoded nothing (provider_stream_stage
\* and the normalizers, provider_http.rs).
THEOREM RetriesLoseNothing == TransportSpec => []RetryableMeansNoProgress
<1>1. TransportInv => RetryableMeansNoProgress
  BY DEF TransportInv
<1>2. QED
  BY <1>1, TransportInvariant, PTL

\* A Tool output answers the single call of the latest run, once
\* (continue_after_tool, provider_http.rs).
THEOREM ContinuationsAnswer == TransportSpec => []ContinuationAnswersLastRun
<1>1. TransportInv => ContinuationAnswersLastRun
  <2> SUFFICES ASSUME TransportInv, exchange.phase \in {"sending", "reading"}, ~exchange.initial
               PROVE  {exchange.call[1]} = last_run /\ provider.pending = <<>>
    BY DEF ContinuationAnswersLastRun
  <2>1. PICK c \in 1..MaxExchanges : exchange.call = <<c>> /\ last_run = {c}
    BY DEF TransportInv, PendingIsOfLastRun
  <2>2. exchange.call[1] = c
    BY <2>1
  <2>3. QED
    BY <2>1, <2>2 DEF TransportInv, PendingIsOfLastRun
<1>2. QED
  BY <1>1, TransportInvariant, PTL

-----------------------------------------------------------------------------
(* The decoders: a stream that ends completed was handed on whole.           *)

IsSequence(s) == s \in Seq({s[i] : i \in DOMAIN s})

LEMMA Appended ==
  ASSUME NEW s, IsSequence(s), NEW e
  PROVE  /\ IsSequence(Append(s, e))
         /\ Len(s) \in Nat /\ DOMAIN s = 1..Len(s)
         /\ Len(Append(s, e)) = Len(s) + 1 /\ DOMAIN Append(s, e) = 1..(Len(s) + 1)
         /\ Append(s, e)[Len(s) + 1] = e
         /\ \A i \in 1..Len(s) : Append(s, e)[i] = s[i]
<1> DEFINE S == {s[i] : i \in DOMAIN s}
           U == S \cup {e}
<1>1. s \in Seq(S)
  BY DEF IsSequence
<1>2. S \subseteq U /\ e \in U
  OBVIOUS
<1> HIDE DEF U, S
<1>3. Len(s) \in Nat /\ DOMAIN s = 1..Len(s)
  BY <1>1
<1>4. s \in Seq(U)
  BY <1>1, <1>2
<1>5. PICK t : t = Append(s, e)
  OBVIOUS
<1>6. /\ t \in Seq(U) /\ Len(t) = Len(s) + 1 /\ DOMAIN t = 1..(Len(s) + 1)
      /\ t[Len(s) + 1] = e /\ \A i \in 1..Len(s) : t[i] = s[i]
  BY <1>2, <1>3, <1>4, <1>5
<1>7. IsSequence(t)
  <2> DEFINE T == {t[i] : i \in DOMAIN t}
  <2>1. \A i \in DOMAIN t : t[i] \in T
    OBVIOUS
  <2> HIDE DEF T
  <2>2. t \in Seq(T)
    BY <1>6, <2>1
  <2>3. QED
    BY <2>2 DEF IsSequence, T
<1>8. QED
  BY <1>3, <1>5, <1>6, <1>7

CountOf(s, kind) == Cardinality({i \in DOMAIN s : s[i].kind = kind})

LEMMA EmittingKind ==
  ASSUME NEW s, IsSequence(s), NEW e, NEW k
  PROVE  /\ CountOf(s, k) \in Nat
         /\ CountOf(Append(s, e), k) = CountOf(s, k) + (IF e.kind = k THEN 1 ELSE 0)
<1> DEFINE K == {i \in DOMAIN s : s[i].kind = k}
           L == {i \in DOMAIN Append(s, e) : Append(s, e)[i].kind = k}
           n == Len(s) + 1
<1>1. L = IF e.kind = k THEN K \cup {n} ELSE K
  <2>1. PICK t : t = Append(s, e)
    OBVIOUS
  <2>2. /\ Len(s) \in Nat /\ DOMAIN s = 1..Len(s) /\ DOMAIN t = 1..(Len(s) + 1)
        /\ t[Len(s) + 1] = e /\ \A i \in 1..Len(s) : t[i] = s[i]
    BY <2>1, Appended
  <2>3. L = {i \in DOMAIN t : t[i].kind = k}
    BY <2>1
  <2> HIDE DEF L
  <2>4. \A i \in 1..Len(s) : i \in L <=> i \in K
    BY <2>2, <2>3
  <2>5. n \in L <=> e.kind = k
    BY <2>2, <2>3
  <2>6. L \subseteq 1..n /\ K \subseteq 1..Len(s) /\ 1..n = (1..Len(s)) \cup {n}
    BY <2>2, <2>3
  <2>7. n = Len(s) + 1
    OBVIOUS
  <2> HIDE DEF K, n
  <2>8. \A i : i \in L <=> (i \in K \/ (i = n /\ e.kind = k))
    <3> SUFFICES ASSUME NEW i PROVE i \in L <=> (i \in K \/ (i = n /\ e.kind = k))
      OBVIOUS
    <3>1. CASE i \in 1..Len(s)
      <4>1. i # n
        BY <2>2, <2>7, <3>1
      <4>2. QED
        BY <2>4, <3>1, <4>1
    <3>2. CASE i = n
      <4>1. i \notin K
        BY <2>2, <2>6, <2>7, <3>2
      <4>2. QED
        BY <2>5, <3>2, <4>1
    <3>3. CASE i \notin 1..Len(s) /\ i # n
      BY <2>6, <3>3
    <3>4. QED
      BY <3>1, <3>2, <3>3
  <2>9. CASE e.kind = k
    <3>1. L = K \cup {n}
      BY <2>8, <2>9
    <3>2. QED
      BY <2>9, <3>1
  <2>10. CASE e.kind # k
    <3>1. L = K
      BY <2>8, <2>10
    <3>2. QED
      BY <2>10, <3>1
  <2>11. QED
    BY <2>9, <2>10
<1>2. IsFiniteSet(K) /\ n \notin K
  <2>1. Len(s) \in Nat /\ DOMAIN s = 1..Len(s)
    BY Appended
  <2>2. IsFiniteSet(1..Len(s)) /\ K \subseteq 1..Len(s)
    BY <2>1, FS_Interval
  <2>3. QED
    BY <2>1, <2>2, FS_Subset
<1>3. CountOf(s, k) = Cardinality(K) /\ CountOf(Append(s, e), k) = Cardinality(L)
  BY DEF CountOf
<1> HIDE DEF K, L, n
<1>4. Cardinality(K) \in Nat /\ Cardinality(K \cup {n}) = Cardinality(K) + 1
  BY <1>2, FS_CardinalityType, FS_AddElement
<1>5. CASE e.kind = k
  BY <1>1, <1>3, <1>4, <1>5
<1>6. CASE e.kind # k
  BY <1>1, <1>3, <1>4, <1>6
<1>7. QED
  BY <1>5, <1>6

\* One more event is one more of its kind.
OneMore(s, t, kind) ==
    /\ IsSequence(t)
    /\ \A k : CountOf(s, k) \in Nat
    /\ CountOf(t, kind) = CountOf(s, kind) + 1
    /\ \A k : k # kind => CountOf(t, k) = CountOf(s, k)

LEMMA Emitting ==
  ASSUME NEW s, IsSequence(s), NEW e
  PROVE  OneMore(s, Append(s, e), e.kind)
<1>1. IsSequence(Append(s, e))
  BY Appended
<1>2. \A k : CountOf(s, k) \in Nat
  BY EmittingKind
<1>3. CountOf(Append(s, e), e.kind) = CountOf(s, e.kind) + 1
  BY EmittingKind
<1>4. ASSUME NEW k, k # e.kind PROVE CountOf(Append(s, e), k) = CountOf(s, k)
  <2>1. CountOf(Append(s, e), k) = CountOf(s, k) + 0
    BY <1>4, EmittingKind
  <2>2. QED
    BY <1>2, <2>1
<1>5. QED
  BY <1>1, <1>2, <1>3, <1>4 DEF OneMore

LEMMA NothingEmitted ==
  /\ IsSequence(<<>>)
  /\ \A k : CountOf(<<>>, k) = 0
<1>1. IsSequence(<<>>)
  BY DEF IsSequence
<1>2. ASSUME NEW k PROVE CountOf(<<>>, k) = 0
  <2>1. {i \in DOMAIN <<>> : <<>>[i].kind = k} = {}
    OBVIOUS
  <2>2. QED
    BY <2>1, FS_EmptySet DEF CountOf
<1>3. QED
  BY <1>1, <1>2

-----------------------------------------------------------------------------
(* Chat Completions.                                                         *)

ChatFields == {"completion_id", "service_tier", "role_seen", "choice_finished", "incomplete",
               "tool_call", "usage", "total_text", "processed", "terminal", "poisoned", "events"}

\* Until the choice is finished only text was handed on; a choice finished in
\* order left no Tool call behind, and one cut short is never completed.
ChatInv(d) ==
    /\ DOMAIN d = ChatFields /\ IsSequence(d.events)
    /\ d.choice_finished \in BOOLEAN /\ d.incomplete \in BOOLEAN /\ d.terminal \in BOOLEAN
    /\ d.choice_finished = FALSE =>
          /\ CountOf(d.events, "FunctionCall") = 0 /\ CountOf(d.events, "Incomplete") = 0
          /\ d.incomplete = FALSE /\ d.terminal = FALSE
    /\ d.choice_finished = TRUE /\ d.incomplete = FALSE =>
          d.tool_call = <<>> /\ CountOf(d.events, "Incomplete") = 0
    /\ (d.terminal = FALSE \/ d.incomplete = TRUE) => CountOf(d.events, "Completed") = 0
    /\ CountOf(d.events, "FunctionCall") <= 1 /\ CountOf(d.events, "Completed") <= 1

ChatGood(d) == DOMAIN d = ChatFields /\ (d.poisoned = TRUE \/ ChatInv(d))

LEMMA ChatWhole == \A d : ChatInv(d) => Chat!CompletedIsWhole(d)
<1>1. \A S : Chat!Cardinality(S) = Cardinality(S)
  BY Zenon DEF Cardinality, Chat!Cardinality
<1>2. \A s, k : Chat!Emitted(s, k) = CountOf(s, k)
  BY Zenon, <1>1 DEF Chat!Emitted, CountOf
<1>3. QED
  BY <1>2 DEF ChatInv, Chat!CompletedIsWhole

LEMMA ChatStart == ChatInv(Chat!Start)
  BY NothingEmitted DEF ChatInv, ChatFields, Chat!Start

LEMMA ChatPoison ==
  ASSUME NEW d, DOMAIN d = ChatFields
  PROVE  ChatGood(Chat!Poison(d))
  BY DEF ChatGood, ChatFields, Chat!Poison

LEMMA ChatEmit ==
  ASSUME NEW d, DOMAIN d = ChatFields, IsSequence(d.events), NEW event, NEW r, r = Chat!Emit(d, event)
  PROVE  /\ DOMAIN r = ChatFields
         /\ r.choice_finished = d.choice_finished /\ r.incomplete = d.incomplete
         /\ r.terminal = d.terminal /\ r.tool_call = d.tool_call
         /\ OneMore(d.events, r.events, event.kind)
<1>1. /\ DOMAIN r = ChatFields /\ r.events = Append(d.events, event)
      /\ r.choice_finished = d.choice_finished /\ r.incomplete = d.incomplete
      /\ r.terminal = d.terminal /\ r.tool_call = d.tool_call
  BY DEF ChatFields, Chat!Emit
<1>2. QED
  BY <1>1, Emitting

LEMMA ChatToolCall ==
  ASSUME NEW d, ChatInv(d), d.choice_finished = FALSE, NEW call
  PROVE  /\ ChatGood(Chat!observe_tool_call(d, call))
         /\ Chat!observe_tool_call(d, call).choice_finished = FALSE
         /\ Chat!observe_tool_call(d, call).terminal = d.terminal
<1>1. PICK c, r : r = [d EXCEPT !.tool_call = c] /\ Chat!observe_tool_call(d, call) \in {r, Chat!Poison(d)}
  BY DEF Chat!observe_tool_call
<1>2. DOMAIN d = ChatFields
  BY DEF ChatInv
<1>3. /\ DOMAIN r = ChatFields /\ r.events = d.events /\ r.choice_finished = d.choice_finished
      /\ r.incomplete = d.incomplete /\ r.terminal = d.terminal
  BY <1>1, <1>2 DEF ChatFields
<1>4. ChatGood(r)
  BY <1>3 DEF ChatInv, ChatGood
<1>5. Chat!Poison(d).choice_finished = FALSE /\ Chat!Poison(d).terminal = d.terminal
  BY <1>2 DEF ChatFields, Chat!Poison
<1>6. QED
  BY <1>1, <1>2, <1>3, <1>4, <1>5, ChatPoison

LEMMA ChatFinish ==
  ASSUME NEW d, ChatInv(d), d.choice_finished = FALSE, NEW reason
  PROVE  ChatGood(Chat!finish_choice(d, reason))
<1> DEFINE r == Chat!finish_choice(d, reason)
           f == [d EXCEPT !.choice_finished = TRUE]
<1>0. DOMAIN d = ChatFields /\ IsSequence(d.events) /\ d.terminal = FALSE /\ d.incomplete = FALSE
  BY DEF ChatInv
<1>1. /\ DOMAIN f = ChatFields /\ f.events = d.events /\ f.choice_finished = TRUE
      /\ f.incomplete = FALSE /\ f.terminal = FALSE /\ f.tool_call = d.tool_call
  BY <1>0 DEF ChatFields
<1>2. CASE reason = "stop"
  <2>1. r \in {Chat!Poison(d), f} /\ (r = f \/ r = Chat!Poison(d)) /\ (d.tool_call # <<>> => r = Chat!Poison(d))
    BY <1>2 DEF Chat!finish_choice
  <2>2. d.tool_call = <<>> => ChatGood(f)
    BY <1>1 DEF ChatInv, ChatGood
  <2>3. QED
    BY <1>0, <2>1, <2>2, ChatPoison
<1>3. CASE reason = "tool_calls"
  <2> DEFINE g == [f EXCEPT !.tool_call = <<>>]
             event == [kind |-> "FunctionCall", id |-> d.tool_call[1].call_id]
             h == Chat!Emit(g, event)
  <2>1. r \in {Chat!Poison(d), h}
    BY <1>3 DEF Chat!finish_choice
  <2>2. /\ DOMAIN g = ChatFields /\ g.events = d.events /\ g.choice_finished = TRUE
        /\ g.incomplete = FALSE /\ g.terminal = FALSE /\ g.tool_call = <<>>
    BY <1>1 DEF ChatFields
  <2>3. event.kind = "FunctionCall"
    OBVIOUS
  <2> HIDE DEF g, event, f
  <2>4. /\ DOMAIN h = ChatFields /\ OneMore(d.events, h.events, "FunctionCall")
        /\ h.choice_finished = TRUE /\ h.incomplete = FALSE /\ h.terminal = FALSE /\ h.tool_call = <<>>
    BY <1>0, <2>2, <2>3, ChatEmit
  <2> HIDE DEF h
  <2>5. ChatGood(h)
    <3>1. /\ CountOf(d.events, "FunctionCall") = 0 /\ CountOf(d.events, "Incomplete") = 0
          /\ CountOf(d.events, "Completed") = 0
      BY <1>0 DEF ChatInv
    <3>2. /\ CountOf(h.events, "FunctionCall") = 1 /\ CountOf(h.events, "Incomplete") = 0
          /\ CountOf(h.events, "Completed") = 0 /\ IsSequence(h.events)
      BY <2>4, <3>1 DEF OneMore
    <3>3. CountOf(h.events, "FunctionCall") <= 1 /\ CountOf(h.events, "Completed") <= 1
      BY <3>2
    <3>4. QED
      BY <2>4, <3>2, <3>3 DEF ChatInv, ChatGood
  <2>6. QED
    BY <1>0, <2>1, <2>5, ChatPoison
<1>4. CASE reason \in {"length", "content_filter"}
  <2> DEFINE g == [f EXCEPT !.incomplete = TRUE]
             event == [kind |-> "Incomplete"]
             h == Chat!Emit(g, event)
  <2>1. r = h
    BY <1>4 DEF Chat!finish_choice
  <2>2. /\ DOMAIN g = ChatFields /\ g.events = d.events /\ g.choice_finished = TRUE
        /\ g.incomplete = TRUE /\ g.terminal = FALSE
    BY <1>1 DEF ChatFields
  <2>3. event.kind = "Incomplete"
    OBVIOUS
  <2> HIDE DEF g, event, f
  <2>4. /\ DOMAIN h = ChatFields /\ OneMore(d.events, h.events, "Incomplete")
        /\ h.choice_finished = TRUE /\ h.incomplete = TRUE /\ h.terminal = FALSE
    BY <1>0, <2>2, <2>3, ChatEmit
  <2> HIDE DEF h
  <2>5. ChatGood(h)
    <3>1. CountOf(d.events, "FunctionCall") = 0 /\ CountOf(d.events, "Completed") = 0
      BY <1>0 DEF ChatInv
    <3>2. /\ CountOf(h.events, "FunctionCall") = 0 /\ CountOf(h.events, "Completed") = 0
          /\ IsSequence(h.events)
      BY <2>4, <3>1 DEF OneMore
    <3>3. QED
      BY <2>4, <3>2 DEF ChatInv, ChatGood
  <2>6. QED
    BY <2>1, <2>5
<1>5. CASE reason \notin {"stop", "tool_calls", "length", "content_filter"}
  <2>1. r = Chat!Poison(d)
    BY <1>5 DEF Chat!finish_choice
  <2>2. QED
    BY <1>0, <2>1, ChatPoison
<1>6. QED
  BY <1>2, <1>3, <1>4, <1>5

LEMMA ChatChoice ==
  ASSUME NEW d, ChatInv(d), d.choice_finished = FALSE, NEW e
  PROVE  ChatGood(Chat!process_choice(d, e))
<1> DEFINE seen == [d EXCEPT !.role_seen = @ \/ e.role # "none"]
           counted == [seen EXCEPT !.total_text = @ + e.content]
           text == Chat!Emit(counted, [kind |-> "TextDelta"])
           call == Chat!observe_tool_call(seen, e.calls[1])
           body == IF e.content > 0 THEN text ELSE IF e.calls # <<>> THEN call ELSE seen
           r == Chat!process_choice(d, e)
<1>0. DOMAIN d = ChatFields /\ IsSequence(d.events)
  BY DEF ChatInv
<1>1. /\ DOMAIN seen = ChatFields /\ seen.events = d.events /\ seen.choice_finished = FALSE
      /\ seen.incomplete = d.incomplete /\ seen.terminal = d.terminal
  BY <1>0 DEF ChatFields
<1>2. ChatInv(seen)
  <2> HIDE DEF seen
  <2> QED BY <1>1 DEF ChatInv
<1>3. /\ DOMAIN counted = ChatFields /\ counted.events = d.events /\ counted.choice_finished = FALSE
      /\ counted.incomplete = d.incomplete /\ counted.terminal = d.terminal
  <2> HIDE DEF seen
  <2> QED BY <1>1 DEF ChatFields
<1>4. ChatGood(text) /\ text.choice_finished = FALSE
  <2> DEFINE event == [kind |-> "TextDelta"]
  <2>1. event.kind = "TextDelta"
    OBVIOUS
  <2> HIDE DEF counted, event
  <2> DEFINE t == Chat!Emit(counted, event)
  <2>2. /\ DOMAIN t = ChatFields /\ OneMore(d.events, t.events, "TextDelta")
        /\ t.choice_finished = FALSE /\ t.incomplete = d.incomplete /\ t.terminal = d.terminal
    BY <1>0, <1>3, <2>1, ChatEmit
  <2>3. text = t
    BY DEF event
  <2>4. /\ CountOf(d.events, "FunctionCall") = 0 /\ CountOf(d.events, "Incomplete") = 0
        /\ CountOf(d.events, "Completed") = 0 /\ d.terminal = FALSE /\ d.incomplete = FALSE
    BY <1>0 DEF ChatInv
  <2> HIDE DEF t, text
  <2>5. /\ CountOf(t.events, "FunctionCall") = 0 /\ CountOf(t.events, "Incomplete") = 0
        /\ CountOf(t.events, "Completed") = 0 /\ IsSequence(t.events)
    BY <2>2, <2>4 DEF OneMore
  <2>6. QED
    BY <2>2, <2>3, <2>4, <2>5 DEF ChatInv, ChatGood
<1>5. ChatGood(call) /\ call.choice_finished = FALSE
  <2> HIDE DEF seen
  <2> QED BY <1>1, <1>2, ChatToolCall
<1>6. ChatGood(body) /\ body.choice_finished = FALSE
  <2>1. ChatGood(seen) /\ seen.choice_finished = FALSE
    BY <1>1, <1>2 DEF ChatGood
  <2> HIDE DEF seen, text, call
  <2>2. QED
    BY <1>4, <1>5, <2>1
<1>7. \/ r = Chat!Poison(d)
      \/ ~body.poisoned /\ r = body
      \/ ~body.poisoned /\ r = Chat!finish_choice(body, e.finish_reason)
  <2>1. r = IF \/ ~e.valid
               \/ (e.role # "none" /\ (e.role # "assistant" \/ d.role_seen))
               \/ (e.has_content /\ e.calls # <<>>)
               \/ (e.finish_reason # "none" /\ (e.has_content \/ e.calls # <<>>))
               \/ (e.has_content /\ (e.content = 0 \/ d.total_text + e.content > MaxOutput))
               \/ body.poisoned
            THEN Chat!Poison(d)
            ELSE IF e.finish_reason = "none" THEN body ELSE Chat!finish_choice(body, e.finish_reason)
    BY DEF Chat!process_choice
  <2> HIDE DEF r, body
  <2>2. QED
    BY <2>1
<1> HIDE DEF body
<1>8. ~body.poisoned => ChatInv(body)
  BY <1>6 DEF ChatGood
<1>9. QED
  BY <1>0, <1>6, <1>7, <1>8, ChatPoison, ChatFinish DEF ChatGood

LEMMA ChatComplete ==
  ASSUME NEW d, ChatInv(d), d.terminal = FALSE
  PROVE  ChatGood(Chat!complete_stream(d))
<1> DEFINE done == [d EXCEPT !.terminal = TRUE]
           event == [kind |-> "Completed", usage |-> d.usage]
           h == Chat!Emit(done, event)
           r == Chat!complete_stream(d)
<1>0. DOMAIN d = ChatFields /\ IsSequence(d.events) /\ d.choice_finished \in BOOLEAN /\ d.incomplete \in BOOLEAN
  BY DEF ChatInv
<1>1. /\ DOMAIN done = ChatFields /\ done.events = d.events /\ done.choice_finished = d.choice_finished
      /\ done.incomplete = d.incomplete /\ done.terminal = TRUE /\ done.tool_call = d.tool_call
  BY <1>0 DEF ChatFields
<1>2. event.kind = "Completed"
  OBVIOUS
<1>3. r = IF ~d.choice_finished THEN Chat!Poison(d) ELSE IF d.incomplete THEN done ELSE h
  BY DEF Chat!complete_stream
<1>4. \/ r = Chat!Poison(d)
      \/ d.choice_finished = TRUE /\ d.incomplete = TRUE /\ r = done
      \/ d.choice_finished = TRUE /\ d.incomplete = FALSE /\ r = h
  <2> HIDE DEF r, done, h
  <2> QED BY <1>0, <1>3
<1> HIDE DEF done, event
<1>4a. IsSequence(done.events)
  BY <1>0, <1>1
<1>5. /\ DOMAIN h = ChatFields /\ OneMore(d.events, h.events, "Completed")
      /\ h.choice_finished = d.choice_finished /\ h.incomplete = d.incomplete /\ h.terminal = TRUE
      /\ h.tool_call = d.tool_call
  BY <1>1, <1>2, <1>4a, ChatEmit
<1> HIDE DEF h
<1>6. ASSUME d.choice_finished = TRUE, d.incomplete = TRUE PROVE ChatGood(done)
  BY <1>0, <1>1, <1>6 DEF ChatInv, ChatGood
<1>7. ASSUME d.choice_finished = TRUE, d.incomplete = FALSE PROVE ChatGood(h)
  <2>1. /\ CountOf(d.events, "Incomplete") = 0 /\ d.tool_call = <<>>
        /\ CountOf(d.events, "Completed") = 0 /\ CountOf(d.events, "FunctionCall") <= 1
    BY <1>7 DEF ChatInv
  <2>2. /\ CountOf(h.events, "Incomplete") = 0 /\ CountOf(h.events, "Completed") = 1
        /\ CountOf(h.events, "FunctionCall") <= 1 /\ IsSequence(h.events)
    BY <1>5, <2>1 DEF OneMore
  <2>3. CountOf(h.events, "Completed") <= 1
    BY <2>2
  <2>4. QED
    BY <1>5, <1>7, <2>1, <2>2, <2>3 DEF ChatInv, ChatGood
<1>8. QED
  BY <1>0, <1>4, <1>6, <1>7, ChatPoison

LEMMA ChatEvent ==
  ASSUME NEW d, ChatInv(d), NEW e
  PROVE  ChatGood(Chat!process_event(d, e))
<1> DEFINE named == [d EXCEPT !.completion_id = e.id, !.service_tier = Chat!Latest(@, e.service_tier)]
           counted == [named EXCEPT !.usage = TRUE]
           r == Chat!process_event(d, e)
<1>0. /\ DOMAIN d = ChatFields /\ IsSequence(d.events)
      /\ d.choice_finished \in BOOLEAN /\ d.incomplete \in BOOLEAN /\ d.terminal \in BOOLEAN
  BY DEF ChatInv
<1>1. /\ DOMAIN named = ChatFields /\ named.events = d.events /\ named.choice_finished = d.choice_finished
      /\ named.incomplete = d.incomplete /\ named.terminal = d.terminal /\ named.tool_call = d.tool_call
  BY <1>0 DEF ChatFields
<1>2. \/ r = Chat!Poison(d)
      \/ ~d.terminal /\ r = Chat!complete_stream(d)
      \/ r = counted
      \/ ~d.choice_finished /\ r = Chat!process_choice(named, e)
  <2>1. r = IF d.terminal \/ ~e.known THEN Chat!Poison(d)
            ELSE IF e.kind = "[DONE]" THEN Chat!complete_stream(d)
            ELSE IF ~Chat!validate_identity(d, e) \/ ~Chat!observe_service_tier(d, e) THEN Chat!Poison(d)
            ELSE IF e.usage
            THEN IF e.choices = 0 /\ d.choice_finished /\ ~d.usage /\ e.valid THEN counted ELSE Chat!Poison(d)
            ELSE IF e.choices # 1 \/ d.choice_finished THEN Chat!Poison(d)
            ELSE Chat!process_choice(named, e)
    BY DEF Chat!process_event
  <2> HIDE DEF r, named, counted
  <2>2. QED
    BY <2>1
<1> HIDE DEF named
<1>3. /\ DOMAIN counted = ChatFields /\ counted.events = d.events /\ counted.choice_finished = d.choice_finished
      /\ counted.incomplete = d.incomplete /\ counted.terminal = d.terminal /\ counted.tool_call = d.tool_call
  BY <1>1 DEF ChatFields
<1> HIDE DEF counted
<1>4. ChatInv(named) /\ ChatGood(counted)
  BY <1>1, <1>3 DEF ChatInv, ChatGood
<1> SUFFICES ChatGood(r)
  OBVIOUS
<1> HIDE DEF r
<1>5. CASE r = Chat!Poison(d) \/ r = counted
  BY <1>0, <1>4, <1>5, ChatPoison
<1>6. CASE ~d.terminal /\ r = Chat!complete_stream(d)
  <2>1. d.terminal = FALSE
    BY <1>0, <1>6
  <2>2. QED
    BY <1>6, <2>1, ChatComplete
<1>7. CASE ~d.choice_finished /\ r = Chat!process_choice(named, e)
  <2>1. named.choice_finished = FALSE
    BY <1>0, <1>1, <1>7
  <2>2. QED
    BY <1>4, <1>7, <2>1, ChatChoice
<1>8. QED
  BY <1>2, <1>5, <1>6, <1>7

LEMMA ChatFramed ==
  ASSUME NEW d, ChatInv(d), NEW e, ~Chat!process_framed_event(d, e).poisoned
  PROVE  ChatInv(Chat!process_framed_event(d, e))
<1> DEFINE next == Chat!process_event(d, e)
           counted == [next EXCEPT !.processed = @ + 1]
           r == Chat!process_framed_event(d, e)
<1>1. r = IF next.poisoned \/ d.processed + 1 > MaxEvents THEN Chat!Poison(next) ELSE counted
  BY DEF Chat!process_framed_event
<1>2. ChatGood(next)
  BY ChatEvent
<1> HIDE DEF next
<1>3. Chat!Poison(next).poisoned = TRUE
  BY <1>2 DEF ChatGood, ChatFields, Chat!Poison
<1>4. ~next.poisoned /\ r = counted
  BY <1>1, <1>3
<1>5. ChatInv(next)
  BY <1>2, <1>4 DEF ChatGood
<1>6. DOMAIN next = ChatFields
  BY <1>2 DEF ChatGood
<1>7. /\ DOMAIN counted = ChatFields /\ counted.events = next.events
      /\ counted.choice_finished = next.choice_finished /\ counted.tool_call = next.tool_call
      /\ counted.incomplete = next.incomplete /\ counted.terminal = next.terminal
  BY <1>6 DEF ChatFields
<1> HIDE DEF counted
<1>8. ChatInv(counted)
  BY <1>5, <1>7 DEF ChatInv
<1>9. QED
  BY <1>4, <1>8

-----------------------------------------------------------------------------
(* Messages.                                                                 *)

MessagesFields == {"message_id", "input", "output", "total", "next_block", "active", "tool_call_seen",
                   "message_delta_seen", "incomplete", "total_text", "processed", "terminal",
                   "poisoned", "events"}

Block == {"type", "index", "arguments"}
ToolOpen(d) == d.active # <<>> /\ d.active[1].type = "tool_use"

\* The one Tool call was handed on unless its block is open or none was seen;
\* nothing is completed with a block open or cut short; the total is of the
\* counts as they are.
MessagesInv(d) ==
    /\ DOMAIN d = MessagesFields /\ IsSequence(d.events)
    /\ d.tool_call_seen \in BOOLEAN /\ d.message_delta_seen \in BOOLEAN
    /\ d.incomplete \in BOOLEAN /\ d.terminal \in BOOLEAN
    /\ d.active # <<>> =>
          /\ d.active = <<d.active[1]>> /\ DOMAIN d.active[1] = Block
          /\ d.active[1].type \in {"text", "tool_use"}
    /\ ToolOpen(d) => d.tool_call_seen = TRUE
    /\ CountOf(d.events, "FunctionCall") = IF d.tool_call_seen = TRUE /\ ~ToolOpen(d) THEN 1 ELSE 0
    /\ d.message_delta_seen = TRUE => d.active = <<>>
    /\ d.incomplete = FALSE => CountOf(d.events, "Incomplete") = 0
    /\ CountOf(d.events, "Completed") # 0 =>
          d.terminal = TRUE /\ d.incomplete = FALSE /\ d.active = <<>>
    /\ d.total = Messages!total_tokens(d.input, d.output) /\ d.total <= MaxU64

MessagesGood(d) == DOMAIN d = MessagesFields /\ (d.poisoned = TRUE \/ MessagesInv(d))

LEMMA MessagesWhole == \A d : MessagesInv(d) => Messages!CompletedIsWhole(d)
<1>1. \A S : Messages!Cardinality(S) = Cardinality(S)
  BY Zenon DEF Cardinality, Messages!Cardinality
<1>2. \A s, k : Messages!Emitted(s, k) = CountOf(s, k)
  BY Zenon, <1>1 DEF Messages!Emitted, CountOf
<1> SUFFICES ASSUME NEW d, MessagesInv(d), CountOf(d.events, "Completed") = 1
             PROVE  /\ d.active = <<>> /\ CountOf(d.events, "Incomplete") = 0
                    /\ CountOf(d.events, "FunctionCall") = (IF d.tool_call_seen THEN 1 ELSE 0)
                    /\ d.total = Messages!total_tokens(d.input, d.output) /\ d.total <= MaxU64
  BY <1>2 DEF Messages!CompletedIsWhole
<1>3. d.terminal = TRUE /\ d.incomplete = FALSE /\ d.active = <<>>
  BY DEF MessagesInv
<1>4. QED
  BY <1>3 DEF MessagesInv, ToolOpen

LEMMA MessagesStart == MessagesInv(Messages!Start)
<1>1. Messages!Start.total = Messages!total_tokens(Messages!Start.input, Messages!Start.output)
      /\ Messages!Start.total <= MaxU64
  BY TransportAssumption DEF Messages!Start, Messages!total_tokens, Messages!NoCount
<1>2. /\ DOMAIN Messages!Start = MessagesFields /\ Messages!Start.events = <<>>
      /\ Messages!Start.tool_call_seen = FALSE /\ Messages!Start.message_delta_seen = FALSE
      /\ Messages!Start.incomplete = FALSE /\ Messages!Start.terminal = FALSE
      /\ Messages!Start.active = <<>>
  BY DEF Messages!Start, MessagesFields
<1>3. QED
  BY <1>1, <1>2, NothingEmitted DEF MessagesInv, ToolOpen

LEMMA MessagesPoison ==
  ASSUME NEW d, DOMAIN d = MessagesFields
  PROVE  MessagesGood(Messages!Poison(d))
  BY DEF MessagesGood, MessagesFields, Messages!Poison

\* Everything the invariant speaks of except the events.
SameMessage(r, d) ==
    /\ DOMAIN r = MessagesFields
    /\ r.active = d.active /\ r.tool_call_seen = d.tool_call_seen
    /\ r.message_delta_seen = d.message_delta_seen /\ r.incomplete = d.incomplete
    /\ r.terminal = d.terminal
    /\ r.input = d.input /\ r.output = d.output /\ r.total = d.total

LEMMA MessagesEmit ==
  ASSUME NEW d, DOMAIN d = MessagesFields, IsSequence(d.events), NEW event,
         NEW r, r = Messages!Emit(d, event)
  PROVE  SameMessage(r, d) /\ OneMore(d.events, r.events, event.kind)
<1>1. SameMessage(r, d) /\ r.events = Append(d.events, event)
  BY DEF MessagesFields, Messages!Emit, SameMessage
<1>2. QED
  BY <1>1, Emitting

LEMMA MessagesSame ==
  ASSUME NEW d, MessagesInv(d), NEW r, SameMessage(r, d), r.events = d.events
  PROVE  MessagesGood(r)
  BY DEF MessagesInv, MessagesGood, SameMessage, ToolOpen

\* refresh_usage_totals makes the total right again.
LEMMA MessagesRefresh ==
  ASSUME NEW d, MessagesInv(d), NEW b, DOMAIN b = MessagesFields, b.events = d.events,
         b.active = d.active, b.tool_call_seen = d.tool_call_seen,
         b.message_delta_seen = d.message_delta_seen, b.incomplete = d.incomplete, b.terminal = d.terminal
  PROVE  /\ MessagesGood(Messages!refresh_usage_totals(b))
         /\ Messages!refresh_usage_totals(b).active = d.active
         /\ Messages!refresh_usage_totals(b).message_delta_seen = d.message_delta_seen
         /\ Messages!refresh_usage_totals(b).terminal = d.terminal
         /\ Messages!refresh_usage_totals(b).incomplete = d.incomplete
<1> DEFINE total == Messages!total_tokens(b.input, b.output)
           f == [b EXCEPT !.total = total]
           r == Messages!refresh_usage_totals(b)
<1>1. r = IF total <= MaxU64 THEN f ELSE Messages!Poison(b)
  BY DEF Messages!refresh_usage_totals, Messages!Step
<1> HIDE DEF total, r
<1>2. /\ DOMAIN f = MessagesFields /\ f.events = d.events /\ f.active = d.active
      /\ f.tool_call_seen = d.tool_call_seen /\ f.message_delta_seen = d.message_delta_seen
      /\ f.incomplete = d.incomplete /\ f.terminal = d.terminal
      /\ f.total = total /\ f.input = b.input /\ f.output = b.output
  BY DEF MessagesFields
<1> HIDE DEF f
<1>3. f.total = Messages!total_tokens(f.input, f.output)
  BY <1>2 DEF total
<1>4. total <= MaxU64 => MessagesGood(f)
  BY <1>2, <1>3 DEF MessagesInv, MessagesGood, ToolOpen
<1>5. /\ Messages!Poison(b).active = d.active /\ Messages!Poison(b).message_delta_seen = d.message_delta_seen
      /\ Messages!Poison(b).terminal = d.terminal /\ Messages!Poison(b).incomplete = d.incomplete
  BY DEF MessagesFields, Messages!Poison
<1>6. /\ MessagesGood(r) /\ r.active = d.active /\ r.message_delta_seen = d.message_delta_seen
      /\ r.terminal = d.terminal /\ r.incomplete = d.incomplete
  BY <1>1, <1>2, <1>4, <1>5, MessagesPoison
<1>7. QED
  BY <1>6 DEF r

LEMMA MessagesStartMessage ==
  ASSUME NEW d, MessagesInv(d), NEW e
  PROVE  MessagesGood(Messages!start_message(d, e))
<1> DEFINE b == [d EXCEPT !.message_id = e.id, !.input = e.input, !.output = e.output]
<1>0. DOMAIN d = MessagesFields
  BY DEF MessagesInv
<1>1. /\ DOMAIN b = MessagesFields /\ b.events = d.events /\ b.active = d.active
      /\ b.tool_call_seen = d.tool_call_seen /\ b.message_delta_seen = d.message_delta_seen
      /\ b.incomplete = d.incomplete /\ b.terminal = d.terminal
  BY <1>0 DEF MessagesFields
<1>2. Messages!start_message(d, e) \in {Messages!Poison(d), Messages!refresh_usage_totals(b)}
  BY DEF Messages!start_message
<1> HIDE DEF b
<1>3. MessagesGood(Messages!refresh_usage_totals(b))
  BY <1>1, MessagesRefresh
<1>4. QED
  BY <1>0, <1>2, <1>3, MessagesPoison

LEMMA MessagesStartBlock ==
  ASSUME NEW d, MessagesInv(d), d.terminal = FALSE, NEW e
  PROVE  MessagesGood(Messages!start_block(d, e))
<1> DEFINE block == [type |-> e.type, index |-> e.index, arguments |-> 0]
           seen == d.tool_call_seen \/ e.type = "tool_use"
           f == [d EXCEPT !.active = <<block>>, !.tool_call_seen = seen]
           r == Messages!start_block(d, e)
<1>0. DOMAIN d = MessagesFields
  BY DEF MessagesInv
<1>1. \/ r = Messages!Poison(d)
      \/ /\ ~d.message_delta_seen /\ d.active = <<>>
         /\ e.type \in {"text", "tool_use"} /\ (e.type = "tool_use" => ~d.tool_call_seen)
         /\ r = f
  <2>1. r = IF /\ d.message_id # "none" /\ ~d.message_delta_seen
               /\ d.active = <<>> /\ e.index = d.next_block /\ e.valid
               /\ e.type \in {"text", "tool_use"}
               /\ e.type = "tool_use" => ~d.tool_call_seen
            THEN f ELSE Messages!Poison(d)
    BY DEF Messages!start_block, Messages!Step
  <2> HIDE DEF r, f
  <2>2. QED
    BY <2>1
<1> SUFFICES MessagesGood(r)
  OBVIOUS
<1> HIDE DEF r
<1>2. CASE r = f /\ ~d.message_delta_seen /\ d.active = <<>>
           /\ e.type \in {"text", "tool_use"} /\ (e.type = "tool_use" => ~d.tool_call_seen)
  <2>1. block.type = e.type /\ DOMAIN block = Block
    BY DEF Block
  <2> HIDE DEF block
  <2>2. /\ DOMAIN f = MessagesFields /\ f.events = d.events /\ f.active = <<block>>
        /\ f.tool_call_seen = seen /\ f.message_delta_seen = d.message_delta_seen
        /\ f.incomplete = d.incomplete /\ f.terminal = d.terminal
        /\ f.total = d.total /\ f.input = d.input /\ f.output = d.output
    BY <1>0 DEF MessagesFields
  <2>3. ToolOpen(f) <=> e.type = "tool_use"
    BY <2>1, <2>2 DEF ToolOpen
  <2>4. f.message_delta_seen = FALSE /\ f.tool_call_seen \in BOOLEAN /\ ~ToolOpen(d)
    BY <1>2, <2>2 DEF MessagesInv, ToolOpen
  <2>5. CASE e.type = "tool_use"
    <3>1. f.tool_call_seen = TRUE /\ d.tool_call_seen = FALSE
      BY <1>2, <2>2, <2>5 DEF MessagesInv
    <3>2. CountOf(d.events, "FunctionCall") = 0
      BY <3>1 DEF MessagesInv
    <3> HIDE DEF f
    <3>3. MessagesInv(f)
      BY <1>2, <2>1, <2>2, <2>3, <2>4, <2>5, <3>1, <3>2 DEF MessagesInv
    <3>4. QED
      BY <1>2, <3>3 DEF MessagesGood, MessagesInv
  <2>6. CASE e.type # "tool_use"
    <3>1. f.tool_call_seen = d.tool_call_seen
      BY <2>2, <2>6 DEF MessagesInv
    <3> HIDE DEF f
    <3>2. MessagesInv(f)
      BY <1>2, <2>1, <2>2, <2>3, <2>4, <2>6, <3>1 DEF MessagesInv
    <3>3. QED
      BY <1>2, <3>2 DEF MessagesGood, MessagesInv
  <2>7. QED
    BY <2>5, <2>6
<1>3. QED
  BY <1>0, <1>1, <1>2, MessagesPoison

LEMMA MessagesDelta ==
  ASSUME NEW d, MessagesInv(d), NEW e
  PROVE  MessagesGood(Messages!apply_block_delta(d, e))
<1> DEFINE counted == [d EXCEPT !.total_text = @ + e.text]
           event == [kind |-> "TextDelta"]
           h == Messages!Emit(counted, event)
           f == [d EXCEPT !.active[1].arguments = @ + e.text]
           r == Messages!apply_block_delta(d, e)
<1>0. DOMAIN d = MessagesFields /\ IsSequence(d.events)
  BY DEF MessagesInv
<1>1. r \in {Messages!Poison(d), h} \/ (d.active # <<>> /\ r = f)
  BY DEF Messages!apply_block_delta, Messages!Step
<1>2. MessagesGood(h)
  <2>1. SameMessage(counted, d) /\ counted.events = d.events
    BY <1>0 DEF MessagesFields, SameMessage
  <2>2. event.kind = "TextDelta"
    OBVIOUS
  <2> HIDE DEF counted, event
  <2>3. SameMessage(h, counted) /\ OneMore(d.events, h.events, "TextDelta")
    BY <1>0, <2>1, <2>2, MessagesEmit DEF SameMessage
  <2> HIDE DEF h
  <2>4. /\ CountOf(h.events, "FunctionCall") = CountOf(d.events, "FunctionCall")
        /\ CountOf(h.events, "Incomplete") = CountOf(d.events, "Incomplete")
        /\ CountOf(h.events, "Completed") = CountOf(d.events, "Completed")
        /\ IsSequence(h.events)
    BY <2>3 DEF OneMore
  <2>5. SameMessage(h, d)
    BY <2>1, <2>3 DEF SameMessage
  <2>6. QED
    BY <2>4, <2>5 DEF SameMessage, MessagesGood, MessagesInv, ToolOpen
<1>3. ASSUME d.active # <<>> PROVE MessagesGood(f)
  <2>1. PICK b : d.active = <<b>> /\ DOMAIN b = Block /\ b.type \in {"text", "tool_use"}
    BY <1>3 DEF MessagesInv
  <2>2. PICK c : c = [b EXCEPT !.arguments = @ + e.text]
    OBVIOUS
  <2>3. DOMAIN c = Block /\ c.type = b.type
    BY <2>1, <2>2 DEF Block
  <2>4. [d.active EXCEPT ![1].arguments = @ + e.text] = <<c>>
    BY <2>1, <2>2
  <2>5. /\ DOMAIN f = MessagesFields /\ f.active = <<c>> /\ f.events = d.events
        /\ f.tool_call_seen = d.tool_call_seen /\ f.message_delta_seen = d.message_delta_seen
        /\ f.incomplete = d.incomplete /\ f.terminal = d.terminal
        /\ f.total = d.total /\ f.input = d.input /\ f.output = d.output
    BY <1>0, <2>4 DEF MessagesFields
  <2> HIDE DEF f
  <2>6. (ToolOpen(f) <=> ToolOpen(d)) /\ f.active # <<>>
    BY <2>1, <2>3, <2>5 DEF ToolOpen
  <2>7. MessagesInv(f)
    BY <1>3, <2>1, <2>3, <2>5, <2>6 DEF MessagesInv
  <2>8. QED
    BY <2>5, <2>7 DEF MessagesGood
<1>4. QED
  BY <1>0, <1>1, <1>2, <1>3, MessagesPoison

LEMMA MessagesStopBlock ==
  ASSUME NEW d, MessagesInv(d), NEW e
  PROVE  MessagesGood(Messages!stop_block(d, e))
<1> DEFINE closed == [d EXCEPT !.active = <<>>, !.next_block = @ + 1]
           event == [kind |-> "FunctionCall", index |-> e.index]
           h == Messages!Emit(closed, event)
           r == Messages!stop_block(d, e)
<1>0. DOMAIN d = MessagesFields /\ IsSequence(d.events)
  BY DEF MessagesInv
<1>1. \/ r = Messages!Poison(d)
      \/ d.active # <<>> /\ d.active[1].type = "text" /\ r = closed
      \/ d.active # <<>> /\ d.active[1].type # "text" /\ r = h
  BY DEF Messages!stop_block, Messages!Step
<1>2. /\ DOMAIN closed = MessagesFields /\ closed.active = <<>> /\ closed.events = d.events
      /\ closed.tool_call_seen = d.tool_call_seen /\ closed.message_delta_seen = d.message_delta_seen
      /\ closed.incomplete = d.incomplete /\ closed.terminal = d.terminal
      /\ closed.total = d.total /\ closed.input = d.input /\ closed.output = d.output
  BY <1>0 DEF MessagesFields
<1>3. ASSUME d.active # <<>>, d.active[1].type = "text" PROVE MessagesGood(closed)
  <2> HIDE DEF closed
  <2>1. ~ToolOpen(closed) /\ ~ToolOpen(d)
    BY <1>2, <1>3 DEF ToolOpen
  <2>2. MessagesInv(closed)
    BY <1>2, <2>1 DEF MessagesInv
  <2>3. QED
    BY <1>2, <2>2 DEF MessagesGood
<1>4. ASSUME d.active # <<>>, d.active[1].type # "text" PROVE MessagesGood(h)
  <2>1. event.kind = "FunctionCall"
    OBVIOUS
  <2> HIDE DEF closed, event
  <2>2. SameMessage(h, closed) /\ OneMore(d.events, h.events, "FunctionCall")
    BY <1>0, <1>2, <2>1, MessagesEmit
  <2> HIDE DEF h
  <2>3. ToolOpen(d)
    BY <1>4 DEF MessagesInv, ToolOpen
  <2>4. d.tool_call_seen = TRUE /\ CountOf(d.events, "FunctionCall") = 0
    BY <2>3 DEF MessagesInv
  <2>5. /\ CountOf(h.events, "FunctionCall") = 1
        /\ CountOf(h.events, "Incomplete") = CountOf(d.events, "Incomplete")
        /\ CountOf(h.events, "Completed") = CountOf(d.events, "Completed")
        /\ IsSequence(h.events)
    BY <2>2, <2>4 DEF OneMore
  <2>6. ~ToolOpen(h) /\ h.active = <<>> /\ h.tool_call_seen = TRUE
    BY <1>2, <2>2, <2>4 DEF SameMessage, ToolOpen
  <2>7. MessagesInv(h)
    BY <1>2, <2>2, <2>5, <2>6 DEF SameMessage, MessagesInv
  <2>8. QED
    BY <2>7 DEF MessagesGood, MessagesInv
<1>5. QED
  BY <1>0, <1>1, <1>3, <1>4, MessagesPoison

LEMMA MessagesMessageDelta ==
  ASSUME NEW d, MessagesInv(d), d.terminal = FALSE, NEW e
  PROVE  MessagesGood(Messages!apply_message_delta(d, e))
<1> DEFINE next == IF e.output = Messages!NoCount THEN d.output ELSE e.output
           b == [d EXCEPT !.output = next]
           counted == Messages!observe_output_usage(d, e.output)
           seen == [counted EXCEPT !.message_delta_seen = TRUE]
           cut == [seen EXCEPT !.incomplete = TRUE]
           event == [kind |-> "Incomplete"]
           h == Messages!Emit(cut, event)
           r == Messages!apply_message_delta(d, e)
<1>0. DOMAIN d = MessagesFields /\ IsSequence(d.events)
  BY DEF MessagesInv
<1>1. counted \in {Messages!Poison(d), Messages!refresh_usage_totals(b)}
  <2>1. b = [d EXCEPT !.output = IF e.output = Messages!NoCount THEN @ ELSE e.output]
    BY <1>0 DEF MessagesFields
  <2>2. counted = IF d.output # Messages!NoCount /\ e.output # Messages!NoCount /\ e.output < d.output
                  THEN Messages!Poison(d)
                  ELSE Messages!refresh_usage_totals([d EXCEPT !.output = IF e.output = Messages!NoCount THEN @ ELSE e.output])
    BY DEF Messages!observe_output_usage
  <2>3. QED
    BY <2>1, <2>2
<1>2. \/ r = Messages!Poison(d)
      \/ /\ d.active = <<>> /\ ~counted.poisoned
         /\ \/ r = seen
            \/ r = Messages!Poison(d)
            \/ r = h
  <2>1. r = IF \/ d.message_id = "none" \/ d.active # <<>> \/ d.message_delta_seen \/ ~e.valid
               \/ counted.poisoned
            THEN Messages!Poison(d)
            ELSE CASE e.reason = "end_turn" -> Messages!Step(~d.tool_call_seen, d, seen)
                   [] e.reason = "tool_use" -> Messages!Step(d.tool_call_seen, d, seen)
                   [] e.reason = "max_tokens" -> h
                   [] OTHER -> Messages!Poison(d)
    BY DEF Messages!apply_message_delta
  <2> HIDE DEF r, counted, seen, h
  <2>2. QED
    BY <2>1 DEF Messages!Step
<1> SUFFICES MessagesGood(r)
  OBVIOUS
<1> HIDE DEF r
<1>3. CASE r = Messages!Poison(d)
  BY <1>0, <1>3, MessagesPoison
<1>4. CASE d.active = <<>> /\ ~counted.poisoned /\ r \in {seen, h}
  <2>1. /\ DOMAIN b = MessagesFields /\ b.events = d.events /\ b.active = d.active
        /\ b.tool_call_seen = d.tool_call_seen /\ b.message_delta_seen = d.message_delta_seen
        /\ b.incomplete = d.incomplete /\ b.terminal = d.terminal
    BY <1>0 DEF MessagesFields
  <2> HIDE DEF b
  <2>2. Messages!Poison(d).poisoned = TRUE
    BY <1>0 DEF MessagesFields, Messages!Poison
  <2>3. counted = Messages!refresh_usage_totals(b)
    <3> HIDE DEF counted
    <3> QED BY <1>1, <1>4, <2>2
  <2>4. MessagesGood(counted) /\ counted.active = <<>> /\ counted.terminal = FALSE
    <3> HIDE DEF counted
    <3> QED BY <1>4, <2>1, <2>3, MessagesRefresh
  <2> HIDE DEF counted
  <2>5. MessagesInv(counted)
    BY <1>4, <2>4 DEF MessagesGood
  <2>6. DOMAIN counted = MessagesFields /\ IsSequence(counted.events)
    BY <2>5 DEF MessagesInv
  <2>7. /\ DOMAIN seen = MessagesFields /\ seen.events = counted.events /\ seen.active = <<>>
        /\ seen.tool_call_seen = counted.tool_call_seen /\ seen.message_delta_seen = TRUE
        /\ seen.incomplete = counted.incomplete /\ seen.terminal = FALSE
        /\ seen.total = counted.total /\ seen.input = counted.input /\ seen.output = counted.output
    BY <2>4, <2>6 DEF MessagesFields
  <2> HIDE DEF seen
  <2>8. ~ToolOpen(seen) /\ ~ToolOpen(counted)
    BY <2>4, <2>7 DEF ToolOpen
  <2>9. MessagesInv(seen)
    <3>1. /\ CountOf(seen.events, "FunctionCall") =
                IF seen.tool_call_seen = TRUE /\ ~ToolOpen(seen) THEN 1 ELSE 0
          /\ seen.incomplete = FALSE => CountOf(seen.events, "Incomplete") = 0
          /\ CountOf(seen.events, "Completed") = 0
      BY <2>4, <2>5, <2>7, <2>8 DEF MessagesInv
    <3>2. /\ seen.tool_call_seen \in BOOLEAN /\ seen.incomplete \in BOOLEAN
          /\ seen.total = Messages!total_tokens(seen.input, seen.output) /\ seen.total <= MaxU64
          /\ IsSequence(seen.events)
      BY <2>5, <2>7 DEF MessagesInv
    <3>3. QED
      BY <2>7, <2>8, <3>1, <3>2 DEF MessagesInv
  <2>10. /\ DOMAIN cut = MessagesFields /\ cut.events = counted.events /\ cut.active = <<>>
         /\ cut.tool_call_seen = counted.tool_call_seen /\ cut.message_delta_seen = TRUE
         /\ cut.incomplete = TRUE /\ cut.terminal = FALSE
         /\ cut.total = counted.total /\ cut.input = counted.input /\ cut.output = counted.output
    BY <2>7 DEF MessagesFields
  <2>11. event.kind = "Incomplete"
    OBVIOUS
  <2> HIDE DEF cut, event
  <2>12. SameMessage(h, cut) /\ OneMore(counted.events, h.events, "Incomplete")
    BY <2>6, <2>10, <2>11, MessagesEmit
  <2> HIDE DEF h
  <2>13. /\ CountOf(h.events, "FunctionCall") = CountOf(counted.events, "FunctionCall")
         /\ CountOf(h.events, "Completed") = CountOf(counted.events, "Completed")
         /\ IsSequence(h.events)
    BY <2>12 DEF OneMore
  <2>14. CountOf(counted.events, "Completed") = 0
    BY <2>4, <2>5 DEF MessagesInv
  <2>15. h.active = <<>> /\ ~ToolOpen(h)
    BY <2>10, <2>12 DEF SameMessage, ToolOpen
  <2>16. MessagesInv(h)
    BY <2>5, <2>8, <2>10, <2>12, <2>13, <2>14, <2>15 DEF SameMessage, MessagesInv
  <2>17. QED
    BY <1>4, <2>9, <2>16 DEF MessagesGood, MessagesInv
<1>5. QED
  BY <1>2, <1>3, <1>4

LEMMA MessagesStop ==
  ASSUME NEW d, MessagesInv(d), d.terminal = FALSE, NEW e
  PROVE  MessagesGood(Messages!stop_message(d, e))
<1> DEFINE done == [d EXCEPT !.terminal = TRUE]
           event == [kind |-> "Completed", total |-> d.total, id |-> d.message_id]
           h == Messages!Emit(done, event)
           r == Messages!stop_message(d, e)
<1>0. /\ DOMAIN d = MessagesFields /\ IsSequence(d.events) /\ d.incomplete \in BOOLEAN
      /\ CountOf(d.events, "Completed") = 0
  BY DEF MessagesInv
<1>1. \/ r = Messages!Poison(d)
      \/ d.active = <<>> /\ d.incomplete = TRUE /\ r = done
      \/ d.active = <<>> /\ d.incomplete = FALSE /\ r = h
  <2>1. r = IF ~d.message_delta_seen \/ d.active # <<>> THEN Messages!Poison(d)
            ELSE IF d.incomplete THEN done ELSE h
    BY DEF Messages!stop_message
  <2> HIDE DEF r, done, h
  <2>2. QED
    BY <1>0, <2>1
<1>2. /\ DOMAIN done = MessagesFields /\ done.events = d.events /\ done.active = d.active
      /\ done.tool_call_seen = d.tool_call_seen /\ done.message_delta_seen = d.message_delta_seen
      /\ done.incomplete = d.incomplete /\ done.terminal = TRUE
      /\ done.total = d.total /\ done.input = d.input /\ done.output = d.output
  BY <1>0 DEF MessagesFields
<1>3. event.kind = "Completed"
  OBVIOUS
<1> HIDE DEF done, event
<1>4. SameMessage(h, done) /\ OneMore(d.events, h.events, "Completed")
  BY <1>0, <1>2, <1>3, MessagesEmit
<1> HIDE DEF h
<1>5. MessagesGood(done)
  <2>1. ToolOpen(done) <=> ToolOpen(d)
    BY <1>2 DEF ToolOpen
  <2>2. MessagesInv(done)
    BY <1>0, <1>2, <2>1 DEF MessagesInv
  <2>3. QED
    BY <1>2, <2>2 DEF MessagesGood
<1>6. ASSUME d.active = <<>>, d.incomplete = FALSE PROVE MessagesGood(h)
  <2>1. /\ CountOf(h.events, "FunctionCall") = CountOf(d.events, "FunctionCall")
        /\ CountOf(h.events, "Incomplete") = CountOf(d.events, "Incomplete")
        /\ IsSequence(h.events)
    BY <1>4 DEF OneMore
  <2>2. ~ToolOpen(h) /\ ~ToolOpen(d) /\ h.active = <<>>
    BY <1>2, <1>4, <1>6 DEF SameMessage, ToolOpen
  <2>3. MessagesInv(h)
    BY <1>2, <1>4, <1>6, <2>1, <2>2 DEF SameMessage, MessagesInv
  <2>4. QED
    BY <2>3 DEF MessagesGood, MessagesInv
<1>7. QED
  BY <1>0, <1>1, <1>5, <1>6, MessagesPoison

LEMMA MessagesError ==
  ASSUME NEW d, MessagesInv(d), d.terminal = FALSE, NEW e
  PROVE  MessagesGood(Messages!observe_error(d, e))
<1> DEFINE done == [d EXCEPT !.terminal = TRUE]
           event == [kind |-> "Error"]
           h == Messages!Emit(done, event)
           r == Messages!observe_error(d, e)
<1>0. /\ DOMAIN d = MessagesFields /\ IsSequence(d.events) /\ CountOf(d.events, "Completed") = 0
  BY DEF MessagesInv
<1>1. r \in {Messages!Poison(d), h}
  BY DEF Messages!observe_error, Messages!Step
<1> SUFFICES MessagesGood(r)
  OBVIOUS
<1> HIDE DEF r
<1>2. /\ DOMAIN done = MessagesFields /\ done.events = d.events /\ done.active = d.active
      /\ done.tool_call_seen = d.tool_call_seen /\ done.message_delta_seen = d.message_delta_seen
      /\ done.incomplete = d.incomplete /\ done.terminal = TRUE
      /\ done.total = d.total /\ done.input = d.input /\ done.output = d.output
  BY <1>0 DEF MessagesFields
<1>3. event.kind = "Error"
  OBVIOUS
<1> HIDE DEF done, event
<1>4. SameMessage(h, done) /\ OneMore(d.events, h.events, "Error")
  BY <1>0, <1>2, <1>3, MessagesEmit
<1> HIDE DEF h
<1>5. /\ CountOf(h.events, "FunctionCall") = CountOf(d.events, "FunctionCall")
      /\ CountOf(h.events, "Incomplete") = CountOf(d.events, "Incomplete")
      /\ CountOf(h.events, "Completed") = CountOf(d.events, "Completed")
      /\ IsSequence(h.events)
  BY <1>4 DEF OneMore
<1>6. ToolOpen(h) <=> ToolOpen(d)
  BY <1>2, <1>4 DEF SameMessage, ToolOpen
<1>7. MessagesInv(h)
  BY <1>0, <1>2, <1>4, <1>5, <1>6 DEF SameMessage, MessagesInv
<1>8. MessagesGood(h)
  BY <1>7 DEF MessagesGood, MessagesInv
<1>9. MessagesGood(Messages!Poison(d))
  BY <1>0, MessagesPoison
<1>10. QED
  BY <1>1, <1>8, <1>9

MessagesKinds == {"message_start", "content_block_start", "content_block_delta", "content_block_stop",
                  "message_delta", "message_stop", "ping", "error"}

LEMMA MessagesWire == \A e \in Messages!Wire : e.kind \in MessagesKinds
  BY DEF Messages!Wire, MessagesKinds

LEMMA MessagesEvent ==
  ASSUME NEW d, MessagesInv(d), NEW e, e.kind \in MessagesKinds
  PROVE  MessagesGood(Messages!process_event(d, e))
<1> DEFINE r == Messages!process_event(d, e)
<1>0. DOMAIN d = MessagesFields /\ d.terminal \in BOOLEAN
  BY DEF MessagesInv
<1>1. r = IF d.terminal \/ ~e.known THEN Messages!Poison(d)
          ELSE CASE e.kind = "message_start" -> Messages!start_message(d, e)
                 [] e.kind = "content_block_start" -> Messages!start_block(d, e)
                 [] e.kind = "content_block_delta" -> Messages!apply_block_delta(d, e)
                 [] e.kind = "content_block_stop" -> Messages!stop_block(d, e)
                 [] e.kind = "message_delta" -> Messages!apply_message_delta(d, e)
                 [] e.kind = "message_stop" -> Messages!stop_message(d, e)
                 [] e.kind = "ping" -> d
                 [] e.kind = "error" -> Messages!observe_error(d, e)
  BY DEF Messages!process_event
<1> SUFFICES MessagesGood(r)
  OBVIOUS
<1> HIDE DEF r
<1>2. CASE d.terminal \/ ~e.known
  BY <1>0, <1>1, <1>2, MessagesPoison
<1>3. CASE ~(d.terminal \/ ~e.known)
  <2>0. d.terminal = FALSE
    BY <1>0, <1>3
  <2>1. CASE e.kind = "message_start"
    BY <1>1, <1>3, <2>1, MessagesStartMessage
  <2>2. CASE e.kind = "content_block_start"
    BY <1>1, <1>3, <2>0, <2>2, MessagesStartBlock
  <2>3. CASE e.kind = "content_block_delta"
    BY <1>1, <1>3, <2>3, MessagesDelta
  <2>4. CASE e.kind = "content_block_stop"
    BY <1>1, <1>3, <2>4, MessagesStopBlock
  <2>5. CASE e.kind = "message_delta"
    BY <1>1, <1>3, <2>0, <2>5, MessagesMessageDelta
  <2>6. CASE e.kind = "message_stop"
    BY <1>1, <1>3, <2>0, <2>6, MessagesStop
  <2>7. CASE e.kind = "ping"
    BY <1>0, <1>1, <1>3, <2>7 DEF MessagesGood
  <2>8. CASE e.kind = "error"
    BY <1>1, <1>3, <2>0, <2>8, MessagesError
  <2>9. QED
    BY <2>1, <2>2, <2>3, <2>4, <2>5, <2>6, <2>7, <2>8 DEF MessagesKinds
<1>4. QED
  BY <1>2, <1>3

LEMMA MessagesFramed ==
  ASSUME NEW d, MessagesInv(d), NEW e \in Messages!Wire, ~Messages!process_framed_event(d, e).poisoned
  PROVE  MessagesInv(Messages!process_framed_event(d, e))
<1> DEFINE next == Messages!process_event(d, e)
           counted == [next EXCEPT !.processed = @ + 1]
           r == Messages!process_framed_event(d, e)
<1>1. r = IF ~next.poisoned /\ d.processed + 1 <= MaxEvents THEN counted ELSE Messages!Poison(next)
  BY DEF Messages!process_framed_event, Messages!Step
<1>2. MessagesGood(next)
  BY MessagesEvent, MessagesWire
<1> HIDE DEF next
<1>3. Messages!Poison(next).poisoned = TRUE
  BY <1>2 DEF MessagesGood, MessagesFields, Messages!Poison
<1>4. ~next.poisoned /\ r = counted
  BY <1>1, <1>3
<1>5. MessagesInv(next)
  BY <1>2, <1>4 DEF MessagesGood
<1>6. DOMAIN next = MessagesFields
  BY <1>2 DEF MessagesGood
<1>7. SameMessage(counted, next) /\ counted.events = next.events
  BY <1>6 DEF MessagesFields, SameMessage
<1>8. MessagesGood(counted)
  BY <1>5, <1>7, MessagesSame
<1>9. ~counted.poisoned
  BY <1>4
<1>10. QED
  BY <1>4, <1>8, <1>9 DEF MessagesGood

-----------------------------------------------------------------------------
(* Responses.                                                                *)

\* Every text handed on is a length.
LengthsIn(s) == \A k \in DOMAIN s : s[k].kind = "TextDelta" => s[k].text \in Nat

\* TextOf adds up the weights of its deltas, in whatever order.
LEMMA TextIsMeasure ==
  ASSUME NEW s, NEW n \in Nat, DOMAIN s = 1..n, NEW w, NEW m, Measures(m, w, n),
         \A k \in 1..n : s[k].kind = "TextDelta" => w[k] = s[k].text, NEW i, NEW p
  PROVE  Responses!TextOf(s, i, p) = m[Responses!DeltasOf(s, i, p)]
<1> DEFINE S == Responses!DeltasOf(s, i, p)
           D(g) == g = [T \in SUBSET S |->
                  IF T = {} THEN 0
                  ELSE s[CHOOSE x \in T : TRUE].text + g[T \ {CHOOSE x \in T : TRUE}]]
<1>1. S \in SUBSET (1..n) /\ \A k \in S : w[k] = s[k].text
  BY DEF Responses!DeltasOf
<1>2. Responses!TextOf(s, i, p) = (CHOOSE g : D(g))[S]
  BY Zenon DEF Responses!TextOf, Responses!MapThenSumSet, Responses!MapThenFoldSet
<1>3. \A T \in SUBSET S : T # {} => w[CHOOSE x \in T : TRUE] = s[CHOOSE x \in T : TRUE].text
  BY <1>1
<1> HIDE DEF S
<1>4. \A g : D(g) <=> Picks(g, w, S)
  BY <1>3 DEF Picks
<1> HIDE DEF D
<1>5. /\ \E g : Picks(g, w, S)
      /\ \A g : Picks(g, w, S) => g[S] = m[S]
  BY <1>1, PicksMeasure
<1>6. D(CHOOSE g : D(g))
  BY <1>4, <1>5
<1>7. QED
  BY <1>2, <1>4, <1>5, <1>6 DEF S

\* One more event: the sums and counts it belongs to grow by it.
LEMMA EmittingText ==
  ASSUME NEW s, IsSequence(s), LengthsIn(s), NEW e, e.kind = "TextDelta" => e.text \in Nat, NEW i, NEW p
  PROVE  /\ Responses!TextOf(s, i, p) \in Nat
         /\ (e.kind = "TextDelta" /\ e.index = i /\ e.part = p) =>
               Responses!TextOf(Append(s, e), i, p) = Responses!TextOf(s, i, p) + e.text
         /\ ~(e.kind = "TextDelta" /\ e.index = i /\ e.part = p) =>
               Responses!TextOf(Append(s, e), i, p) = Responses!TextOf(s, i, p)
<1> DEFINE n == Len(s)
           t == Append(s, e)
           w == [k \in 1..(n + 1) |-> IF t[k].kind = "TextDelta" THEN t[k].text ELSE 0]
           here == e.kind = "TextDelta" /\ e.index = i /\ e.part = p
           S == Responses!DeltasOf(s, i, p)
           T == Responses!DeltasOf(t, i, p)
<1>1. /\ n \in Nat /\ DOMAIN s = 1..n /\ DOMAIN t = 1..(n + 1)
      /\ t[n + 1] = e /\ \A k \in 1..n : t[k] = s[k]
  BY Appended
<1> HIDE DEF n, t
<1>2. n + 1 \in Nat /\ 1..(n + 1) = (1..n) \cup {n + 1} /\ n + 1 \notin 1..n /\ n \in 0..(n + 1)
  BY <1>1
<1>3. \A k \in 1..(n + 1) : w[k] \in Nat /\ (t[k].kind = "TextDelta" => w[k] = t[k].text)
  BY <1>1, <1>2 DEF LengthsIn
<1>4. \A k \in 1..n : w[k] \in Nat /\ (s[k].kind = "TextDelta" => w[k] = s[k].text)
  BY <1>1, <1>2, <1>3
<1>5. w[n + 1] = IF e.kind = "TextDelta" THEN e.text ELSE 0
  BY <1>1, <1>2
<1> HIDE DEF w
<1>6. PICK m : Measures(m, w, n + 1)
  BY <1>2, <1>3, MeasuresExist
<1>7. PICK h : Measures(h, w, n)
  BY <1>1, <1>4, MeasuresExist
<1>8. \A U \in SUBSET (1..n) : h[U] = m[U]
  BY <1>2, <1>6, <1>7, MeasuresAgree
<1>9. Responses!TextOf(s, i, p) = h[S]
  BY <1>1, <1>4, <1>7, TextIsMeasure
<1>10. Responses!TextOf(t, i, p) = m[T]
  BY <1>1, <1>2, <1>3, <1>6, TextIsMeasure
<1>11. S \in SUBSET (1..n)
  BY <1>1 DEF Responses!DeltasOf
<1>12. T = IF here THEN S \cup {n + 1} ELSE S
  <2>1. \A k \in 1..n : k \in T <=> k \in S
    BY <1>1, <1>2 DEF Responses!DeltasOf
  <2>2. n + 1 \in T <=> here
    BY <1>1, <1>2 DEF Responses!DeltasOf
  <2>3. T \subseteq 1..(n + 1)
    BY <1>1 DEF Responses!DeltasOf
  <2> HIDE DEF T, S, here
  <2>4. \A k : k \in T <=> (k \in S \/ (k = n + 1 /\ here))
    BY <1>2, <1>11, <2>1, <2>2, <2>3
  <2>5. CASE here
    BY <2>4, <2>5
  <2>6. CASE ~here
    BY <2>4, <2>6
  <2>7. QED
    BY <2>5, <2>6
<1>13. h[S] \in Nat /\ h[S] = m[S]
  BY <1>7, <1>8, <1>11 DEF Measures
<1> HIDE DEF S, T
<1>14. CASE here
  <2> DEFINE U == S \cup {n + 1}
  <2>1. U \in SUBSET (1..(n + 1)) /\ n + 1 \in U /\ U \ {n + 1} = S
    BY <1>2, <1>11
  <2> HIDE DEF U
  <2>2. m[U] = w[n + 1] + m[U \ {n + 1}]
    BY <1>6, <2>1 DEF Measures
  <2>3. m[T] = e.text + m[S]
    BY <1>5, <1>12, <1>14, <2>1, <2>2 DEF U
  <2>4. e.text \in Nat
    BY <1>14
  <2>5. QED
    BY <1>9, <1>10, <1>13, <1>14, <2>3, <2>4 DEF t
<1>15. CASE ~here
  BY <1>9, <1>10, <1>12, <1>13, <1>15 DEF t
<1>16. QED
  BY <1>14, <1>15

LEMMA NoText ==
  ASSUME NEW s, IsSequence(s), LengthsIn(s), NEW i, NEW p,
         \A k \in DOMAIN s : ~(s[k].kind = "TextDelta" /\ s[k].index = i /\ s[k].part = p)
  PROVE  Responses!TextOf(s, i, p) = 0
<1> DEFINE n == Len(s)
           w == [k \in 1..n |-> IF s[k].kind = "TextDelta" THEN s[k].text ELSE 0]
<1>1. n \in Nat /\ DOMAIN s = 1..n
  BY Appended
<1> HIDE DEF n
<1>2. \A k \in 1..n : w[k] \in Nat /\ (s[k].kind = "TextDelta" => w[k] = s[k].text)
  BY <1>1 DEF LengthsIn
<1> HIDE DEF w
<1>3. PICK m : Measures(m, w, n)
  BY <1>1, <1>2, MeasuresExist
<1>4. Responses!TextOf(s, i, p) = m[Responses!DeltasOf(s, i, p)]
  BY <1>1, <1>2, <1>3, TextIsMeasure
<1>5. Responses!DeltasOf(s, i, p) = {}
  BY DEF Responses!DeltasOf
<1>6. QED
  BY <1>3, <1>4, <1>5 DEF Measures

CallsIn(s, i) == Cardinality(Responses!CallsOf(s, i))

LEMMA EmittingCall ==
  ASSUME NEW s, IsSequence(s), NEW e, NEW i
  PROVE  /\ CallsIn(s, i) \in Nat
         /\ (e.kind = "FunctionCall" /\ e.index = i) => CallsIn(Append(s, e), i) = CallsIn(s, i) + 1
         /\ ~(e.kind = "FunctionCall" /\ e.index = i) => CallsIn(Append(s, e), i) = CallsIn(s, i)
<1> DEFINE n == Len(s)
           t == Append(s, e)
           here == e.kind = "FunctionCall" /\ e.index = i
           S == Responses!CallsOf(s, i)
           T == Responses!CallsOf(t, i)
<1>1. /\ n \in Nat /\ DOMAIN s = 1..n /\ DOMAIN t = 1..(n + 1)
      /\ t[n + 1] = e /\ \A k \in 1..n : t[k] = s[k]
  BY Appended
<1> HIDE DEF n, t
<1>2. 1..(n + 1) = (1..n) \cup {n + 1} /\ n + 1 \notin 1..n
  BY <1>1
<1>3. S \subseteq 1..n /\ n + 1 \notin S /\ T \subseteq 1..(n + 1)
  BY <1>1, <1>2 DEF Responses!CallsOf
<1>4. IsFiniteSet(S)
  <2>1. 1 \in Int /\ n \in Int
    BY <1>1
  <2>2. IsFiniteSet(1..n)
    BY <2>1, FS_Interval, Zenon
  <2>3. QED
    BY <1>3, <2>2, FS_Subset
<1>5. (\A k \in 1..n : k \in T <=> k \in S) /\ (n + 1 \in T <=> here)
  BY <1>1, <1>2 DEF Responses!CallsOf
<1> HIDE DEF S, T, here
<1>6. \A k : k \in T <=> (k \in S \/ (k = n + 1 /\ here))
  BY <1>2, <1>3, <1>5
<1>7. Cardinality(S) \in Nat /\ Cardinality(S \cup {n + 1}) = Cardinality(S) + 1
  BY <1>3, <1>4, FS_CardinalityType, FS_AddElement
<1>8. CASE here
  <2>1. T = S \cup {n + 1}
    BY <1>6, <1>8
  <2>2. QED
    BY <1>7, <1>8, <2>1 DEF CallsIn, S, T, t, here
<1>9. CASE ~here
  <2>1. T = S
    BY <1>6, <1>9
  <2>2. QED
    BY <1>7, <1>9, <2>1 DEF CallsIn, S, T, t, here
<1>10. QED
  BY <1>8, <1>9

LEMMA NoCalls ==
  ASSUME NEW s, NEW i, \A k \in DOMAIN s : ~(s[k].kind = "FunctionCall" /\ s[k].index = i)
  PROVE  CallsIn(s, i) = 0
<1>1. Responses!CallsOf(s, i) = {}
  BY DEF Responses!CallsOf
<1>2. QED
  BY <1>1, FS_EmptySet DEF CallsIn

LEMMA TextIsLength ==
  ASSUME NEW s, IsSequence(s), LengthsIn(s), NEW i, NEW p
  PROVE  Responses!TextOf(s, i, p) \in Nat
<1>1. PICK e : e = [kind |-> "Created"]
  OBVIOUS
<1>2. e.kind # "TextDelta"
  BY <1>1
<1>3. QED
  BY <1>2, EmittingText

ResponsesFields == {"response_id", "items", "started", "total_text", "processed", "terminal",
                    "poisoned", "events"}
ItemFields == {"type", "id", "parts", "arguments", "arguments_done", "done"}
PartFields == {"text", "given", "output_done", "content_done"}

\* The deltas of a message part make up its text, less what it began with.
PartIsHandedOn(part, type, i, p, events) ==
    /\ DOMAIN part = PartFields /\ part.text \in Nat /\ part.given \in Nat
    /\ type = "message" => part.text = part.given + Responses!TextOf(events, i, p)

\* A function call is handed on when its item is done.
ItemIsHandedOn(item, i, events) ==
    /\ DOMAIN item = ItemFields /\ item.done \in BOOLEAN
    /\ item.type = "function_call" => CallsIn(events, i) = IF item.done = TRUE THEN 1 ELSE 0
    /\ item.parts = [p \in DOMAIN item.parts |-> item.parts[p]]
    /\ \A p \in DOMAIN item.parts : PartIsHandedOn(item.parts[p], item.type, i, p, events)

\* An event is of an item, and of a part, that was announced.
EventIsOfItem(event, items) ==
    /\ event.kind = "FunctionCall" => event.index \in DOMAIN items
    /\ event.kind = "TextDelta" =>
          /\ event.index \in DOMAIN items /\ event.part \in DOMAIN items[event.index].parts
          /\ event.text \in Nat

HasCompleted(events) == \E k \in DOMAIN events : events[k].kind = "Completed"

ResponsesInv(d) ==
    /\ DOMAIN d = ResponsesFields /\ IsSequence(d.events) /\ d.terminal \in BOOLEAN
    /\ d.items = [i \in DOMAIN d.items |-> d.items[i]]
    /\ \A i \in DOMAIN d.items : ItemIsHandedOn(d.items[i], i, d.events)
    /\ \A k \in DOMAIN d.events : EventIsOfItem(d.events[k], d.items)
    /\ HasCompleted(d.events) => d.terminal = TRUE /\ \A i \in DOMAIN d.items : d.items[i].done = TRUE

ResponsesGood(d) == DOMAIN d = ResponsesFields /\ (d.poisoned = TRUE \/ ResponsesInv(d))

LEMMA ResponsesWhole == \A d : ResponsesInv(d) => Responses!CompletedIsWhole(d)
<1>1. \A S : Responses!Cardinality(S) = Cardinality(S)
  BY Zenon DEF Cardinality, Responses!Cardinality
<1> SUFFICES ASSUME NEW d, ResponsesInv(d), d.events # <<>>, d.events[Len(d.events)].kind = "Completed",
                    NEW i \in DOMAIN d.items
             PROVE  /\ d.items[i].done
                    /\ d.items[i].type = "function_call" =>
                          Responses!Cardinality(Responses!CallsOf(d.events, i)) = 1
                    /\ d.items[i].type = "message" =>
                          \A p \in DOMAIN d.items[i].parts :
                              Responses!TextOf(d.events, i, p) = d.items[i].parts[p].text - d.items[i].parts[p].given
  BY DEF Responses!CompletedIsWhole
<1>2. Len(d.events) \in DOMAIN d.events
  <2>1. IsSequence(d.events)
    BY DEF ResponsesInv
  <2>2. Len(d.events) \in Nat /\ DOMAIN d.events = 1..Len(d.events) /\ Len(d.events) # 0
    BY <2>1 DEF IsSequence
  <2>3. QED
    BY <2>2
<1>3. HasCompleted(d.events)
  BY <1>2 DEF HasCompleted
<1>4. d.items[i].done = TRUE /\ ItemIsHandedOn(d.items[i], i, d.events)
  BY <1>3 DEF ResponsesInv
<1>5. d.items[i].type = "function_call" => Responses!Cardinality(Responses!CallsOf(d.events, i)) = 1
  BY <1>1, <1>4 DEF ItemIsHandedOn, CallsIn
<1>6. ASSUME d.items[i].type = "message", NEW p \in DOMAIN d.items[i].parts
      PROVE  Responses!TextOf(d.events, i, p) = d.items[i].parts[p].text - d.items[i].parts[p].given
  <2>1. PartIsHandedOn(d.items[i].parts[p], "message", i, p, d.events)
    BY <1>4, <1>6 DEF ItemIsHandedOn
  <2>2. Responses!TextOf(d.events, i, p) \in Nat
    <3>1. LengthsIn(d.events) /\ IsSequence(d.events)
      BY DEF LengthsIn, ResponsesInv, EventIsOfItem
    <3>2. QED
      BY <3>1, TextIsLength
  <2>3. QED
    BY <2>1, <2>2 DEF PartIsHandedOn
<1>7. QED
  BY <1>4, <1>5, <1>6

LEMMA ResponsesStart == ResponsesInv(Responses!Start)
<1>1. /\ DOMAIN Responses!Start = ResponsesFields /\ Responses!Start.events = <<>>
      /\ Responses!Start.items = <<>> /\ Responses!Start.terminal = FALSE
  BY DEF Responses!Start, ResponsesFields
<1>2. DOMAIN <<>> = {} /\ <<>> = [i \in DOMAIN <<>> |-> <<>>[i]]
  OBVIOUS
<1>3. QED
  BY <1>1, <1>2, NothingEmitted DEF ResponsesInv, HasCompleted

LEMMA ResponsesPoison ==
  ASSUME NEW d, DOMAIN d = ResponsesFields
  PROVE  ResponsesGood(Responses!Poison(d))
  BY DEF ResponsesGood, ResponsesFields, Responses!Poison

LEMMA ResponsesOf ==
  ASSUME NEW d, ResponsesInv(d)
  PROVE  /\ DOMAIN d = ResponsesFields /\ IsSequence(d.events) /\ LengthsIn(d.events)
         /\ (d.terminal = FALSE => ~HasCompleted(d.events))
  BY DEF ResponsesInv, LengthsIn, EventIsOfItem

LEMMA ResponsesEmit ==
  ASSUME NEW d, DOMAIN d = ResponsesFields, NEW event
  PROVE  /\ DOMAIN Responses!Emit(d, event) = ResponsesFields
         /\ Responses!Emit(d, event).events = Append(d.events, event)
         /\ Responses!Emit(d, event).items = d.items
         /\ Responses!Emit(d, event).terminal = d.terminal
  BY DEF ResponsesFields, Responses!Emit

\* What an item was handed on as does not change when others' events are.
LEMMA ItemKept ==
  ASSUME NEW s, IsSequence(s), LengthsIn(s), NEW e, e.kind = "TextDelta" => e.text \in Nat,
         NEW item, NEW i, ItemIsHandedOn(item, i, s),
         e.kind \in {"FunctionCall", "TextDelta"} => e.index # i
  PROVE  ItemIsHandedOn(item, i, Append(s, e))
<1>1. CallsIn(Append(s, e), i) = CallsIn(s, i)
  BY EmittingCall
<1>2. ASSUME NEW p PROVE Responses!TextOf(Append(s, e), i, p) = Responses!TextOf(s, i, p)
  BY EmittingText
<1>3. \A p \in DOMAIN item.parts : PartIsHandedOn(item.parts[p], item.type, i, p, Append(s, e))
  BY <1>2 DEF ItemIsHandedOn, PartIsHandedOn
<1>4. QED
  BY <1>1, <1>3 DEF ItemIsHandedOn

\* An event that is neither a call nor a delta, and announces no completion.
LEMMA ResponsesNote ==
  ASSUME NEW d, ResponsesInv(d), d.terminal = FALSE, NEW event,
         event.kind \notin {"FunctionCall", "TextDelta", "Completed"},
         NEW r, DOMAIN r = ResponsesFields, r.items = d.items, r.terminal \in BOOLEAN,
         r.events = Append(d.events, event)
  PROVE  ResponsesInv(r)
<1>1. IsSequence(d.events) /\ LengthsIn(d.events) /\ ~HasCompleted(d.events)
  BY ResponsesOf
<1>2. /\ IsSequence(r.events) /\ DOMAIN d.events = 1..Len(d.events) /\ Len(d.events) \in Nat
      /\ DOMAIN r.events = 1..(Len(d.events) + 1) /\ r.events[Len(d.events) + 1] = event
      /\ \A k \in 1..Len(d.events) : r.events[k] = d.events[k]
  BY <1>1, Appended
<1>3. \A i \in DOMAIN r.items : ItemIsHandedOn(r.items[i], i, r.events)
  BY <1>1, ItemKept DEF ResponsesInv
<1>4. \A k \in DOMAIN r.events : EventIsOfItem(r.events[k], r.items)
  <2>1. EventIsOfItem(event, r.items)
    BY DEF EventIsOfItem
  <2>2. \A k \in 1..Len(d.events) : EventIsOfItem(r.events[k], r.items)
    BY <1>2 DEF ResponsesInv
  <2>3. \A k \in 1..(Len(d.events) + 1) : k \in 1..Len(d.events) \/ k = Len(d.events) + 1
    BY <1>2
  <2>4. QED
    BY <1>2, <2>1, <2>2, <2>3
<1>5. ~HasCompleted(r.events)
  <2>1. \A k \in 1..(Len(d.events) + 1) : k \in 1..Len(d.events) \/ k = Len(d.events) + 1
    BY <1>2
  <2>2. QED
    BY <1>1, <1>2, <2>1 DEF HasCompleted
<1>6. QED
  BY <1>2, <1>3, <1>4, <1>5 DEF ResponsesInv

\* One item changes, without a word to the caller.
ItemChange(d, r, i, item) ==
    /\ ResponsesInv(d) /\ d.terminal = FALSE /\ i \in DOMAIN d.items
    /\ ItemIsHandedOn(item, i, d.events)
    /\ DOMAIN d.items[i].parts \subseteq DOMAIN item.parts
    /\ DOMAIN r = ResponsesFields /\ r.items = [d.items EXCEPT ![i] = item]
    /\ r.terminal = FALSE /\ r.events = d.events

LEMMA ResponsesItem ==
  ASSUME NEW d, NEW r, NEW i, NEW item, ItemChange(d, r, i, item)
  PROVE  ResponsesInv(r)
<1> USE DEF ItemChange
<1>0. ResponsesInv(d) /\ d.terminal = FALSE
  OBVIOUS
<1>1. IsSequence(d.events) /\ ~HasCompleted(d.events)
  BY <1>0, ResponsesOf
<1>2. /\ DOMAIN r.items = DOMAIN d.items /\ r.items[i] = item
      /\ \A j \in DOMAIN d.items : j # i => r.items[j] = d.items[j]
      /\ r.items = [j \in DOMAIN r.items |-> r.items[j]]
  BY DEF ResponsesInv
<1>3. \A j \in DOMAIN r.items : ItemIsHandedOn(r.items[j], j, r.events)
  BY <1>2 DEF ResponsesInv
<1>4. \A j \in DOMAIN d.items : DOMAIN d.items[j].parts \subseteq DOMAIN r.items[j].parts
  BY <1>2
<1>5. \A k \in DOMAIN r.events : EventIsOfItem(r.events[k], r.items)
  BY <1>2, <1>4 DEF ResponsesInv, EventIsOfItem
<1>6. QED
  BY <1>1, <1>2, <1>3, <1>5 DEF ResponsesInv

\* One item changes and an event of it is handed on.
ItemEvent(d, r, i, item, event) ==
    /\ ResponsesInv(d) /\ d.terminal = FALSE /\ i \in DOMAIN d.items
    /\ event.kind \in {"FunctionCall", "TextDelta"} /\ event.index = i
    /\ event.kind = "TextDelta" => event.text \in Nat /\ event.part \in DOMAIN item.parts
    /\ ItemIsHandedOn(item, i, Append(d.events, event))
    /\ DOMAIN d.items[i].parts \subseteq DOMAIN item.parts
    /\ DOMAIN r = ResponsesFields /\ r.items = [d.items EXCEPT ![i] = item]
    /\ r.terminal = FALSE /\ r.events = Append(d.events, event)

LEMMA ResponsesItemEvent ==
  ASSUME NEW d, NEW r, NEW i, NEW item, NEW event, ItemEvent(d, r, i, item, event)
  PROVE  ResponsesInv(r)
<1> USE DEF ItemEvent
<1>0. ResponsesInv(d) /\ d.terminal = FALSE
  OBVIOUS
<1>1. IsSequence(d.events) /\ LengthsIn(d.events) /\ ~HasCompleted(d.events)
  BY <1>0, ResponsesOf
<1>2. /\ DOMAIN r.items = DOMAIN d.items /\ r.items[i] = item
      /\ \A j \in DOMAIN d.items : j # i => r.items[j] = d.items[j]
      /\ r.items = [j \in DOMAIN r.items |-> r.items[j]]
  BY DEF ResponsesInv
<1>3. /\ IsSequence(r.events) /\ DOMAIN d.events = 1..Len(d.events) /\ Len(d.events) \in Nat
      /\ DOMAIN r.events = 1..(Len(d.events) + 1) /\ r.events[Len(d.events) + 1] = event
      /\ \A k \in 1..Len(d.events) : r.events[k] = d.events[k]
  BY <1>1, Appended
<1>4. \A k \in 1..(Len(d.events) + 1) : k \in 1..Len(d.events) \/ k = Len(d.events) + 1
  BY <1>3
<1>5. ASSUME NEW j \in DOMAIN r.items PROVE ItemIsHandedOn(r.items[j], j, r.events)
  <2>1. CASE j = i
    BY <1>2, <2>1
  <2>2. CASE j # i
    <3>1. ItemIsHandedOn(d.items[j], j, d.events)
      BY <1>2 DEF ResponsesInv
    <3>2. ItemIsHandedOn(d.items[j], j, Append(d.events, event))
      BY <1>1, <2>2, <3>1, ItemKept
    <3>3. QED
      BY <1>2, <2>2, <3>2
  <2>3. QED
    BY <2>1, <2>2
<1>6. \A j \in DOMAIN d.items : DOMAIN d.items[j].parts \subseteq DOMAIN r.items[j].parts
  BY <1>2
<1>7. \A k \in DOMAIN r.events : EventIsOfItem(r.events[k], r.items)
  <2>1. EventIsOfItem(event, r.items)
    BY <1>2 DEF EventIsOfItem
  <2>2. \A k \in 1..Len(d.events) : EventIsOfItem(d.events[k], r.items)
    BY <1>2, <1>3, <1>6 DEF ResponsesInv, EventIsOfItem
  <2>3. QED
    BY <1>3, <1>4, <2>1, <2>2
<1>8. ~HasCompleted(r.events)
  BY <1>1, <1>3, <1>4 DEF HasCompleted
<1>9. QED
  BY <1>2, <1>3, <1>5, <1>7, <1>8 DEF ResponsesInv

\* An item whose parts change keeps the rest.
LEMMA ItemWithParts ==
  ASSUME NEW item, NEW i, NEW s, ItemIsHandedOn(item, i, s), NEW t, CallsIn(t, i) = CallsIn(s, i),
         NEW parts, parts = [p \in DOMAIN parts |-> parts[p]],
         \A p \in DOMAIN parts : PartIsHandedOn(parts[p], item.type, i, p, t)
  PROVE  ItemIsHandedOn([item EXCEPT !.parts = parts], i, t)
<1>1. PICK n : n = [item EXCEPT !.parts = parts]
  OBVIOUS
<1>2. /\ DOMAIN n = ItemFields /\ n.type = item.type /\ n.done = item.done /\ n.parts = parts
  BY <1>1 DEF ItemIsHandedOn, ItemFields
<1>3. ItemIsHandedOn(n, i, t)
  BY <1>2 DEF ItemIsHandedOn
<1>4. QED
  BY <1>1, <1>3

\* r is d with this part.
PartIsSet(d, e, part, r) ==
    /\ DOMAIN r = ResponsesFields /\ r.events = d.events /\ r.terminal = d.terminal
    /\ r.items = [d.items EXCEPT ![e.index] =
                    [d.items[e.index] EXCEPT !.parts = [d.items[e.index].parts EXCEPT ![e.part] = part]]]

LEMMA ResponsesSetPart ==
  ASSUME NEW d, DOMAIN d = ResponsesFields, NEW e, NEW part
  PROVE  PartIsSet(d, e, part, Responses!SetPart(d, e, part))
<1>2. PICK i, p : i = e.index /\ p = e.part
  OBVIOUS
<1>3. Responses!SetPart(d, e, part) = [d EXCEPT !.items[i].parts[p] = part]
  BY <1>2 DEF Responses!SetPart
<1>4. PICK r : r = [d EXCEPT !.items[i].parts[p] = part]
  OBVIOUS
<1>5. /\ DOMAIN r = ResponsesFields /\ r.events = d.events /\ r.terminal = d.terminal
      /\ r.items = [d.items EXCEPT ![i] = [d.items[i] EXCEPT !.parts = [d.items[i].parts EXCEPT ![p] = part]]]
  BY <1>4 DEF ResponsesFields
<1>6. QED
  BY <1>2, <1>3, <1>4, <1>5 DEF PartIsSet

\* A part that keeps its texts, in an item that keeps the rest.
LEMMA ResponsesFlag ==
  ASSUME NEW d, ResponsesInv(d), d.terminal = FALSE, NEW e, e.index \in DOMAIN d.items,
         e.part \in DOMAIN d.items[e.index].parts, NEW part, DOMAIN part = PartFields,
         part.text = d.items[e.index].parts[e.part].text,
         part.given = d.items[e.index].parts[e.part].given
  PROVE  ResponsesGood(Responses!SetPart(d, e, part))
<1> DEFINE item == d.items[e.index]
           parts == [item.parts EXCEPT ![e.part] = part]
           next == [item EXCEPT !.parts = parts]
           r == Responses!SetPart(d, e, part)
<1>1. /\ DOMAIN r = ResponsesFields /\ r.events = d.events /\ r.terminal = FALSE
      /\ r.items = [d.items EXCEPT ![e.index] = next]
  <2>1. DOMAIN d = ResponsesFields
    BY DEF ResponsesInv
  <2> HIDE DEF r
  <2>2. r = Responses!SetPart(d, e, part)
    BY DEF r
  <2>3. PartIsSet(d, e, part, r)
    BY <2>1, <2>2, ResponsesSetPart
  <2> HIDE DEF next, parts, item
  <2>4. next = [d.items[e.index] EXCEPT !.parts = [d.items[e.index].parts EXCEPT ![e.part] = part]]
    BY DEF next, parts, item
  <2>5. r.items = [d.items EXCEPT ![e.index] = next] /\ r.events = d.events
        /\ DOMAIN r = ResponsesFields /\ r.terminal = FALSE
    BY <2>3, <2>4 DEF PartIsSet
  <2>6. QED
    BY <2>5
<1>2. ItemIsHandedOn(item, e.index, d.events)
  BY DEF ResponsesInv
<1> HIDE DEF item
<1>3. e.part \in DOMAIN item.parts /\ part.text = item.parts[e.part].text /\ part.given = item.parts[e.part].given
  BY DEF item
<1>4. item.parts = [p \in DOMAIN item.parts |-> item.parts[p]]
      /\ \A p \in DOMAIN item.parts : PartIsHandedOn(item.parts[p], item.type, e.index, p, d.events)
  BY <1>2 DEF ItemIsHandedOn
<1>5. /\ DOMAIN parts = DOMAIN item.parts /\ parts[e.part] = part
      /\ \A p \in DOMAIN item.parts : p # e.part => parts[p] = item.parts[p]
      /\ parts = [p \in DOMAIN parts |-> parts[p]]
  BY <1>3, <1>4
<1> HIDE DEF parts
<1>6. PartIsHandedOn(part, item.type, e.index, e.part, d.events)
  BY <1>3, <1>4 DEF PartIsHandedOn
<1>7. \A p \in DOMAIN parts : PartIsHandedOn(parts[p], item.type, e.index, p, d.events)
  BY <1>4, <1>5, <1>6
<1>8. ItemIsHandedOn(next, e.index, d.events)
  BY <1>2, <1>5, <1>7, ItemWithParts
<1>9. next.parts = parts
  BY <1>2 DEF ItemIsHandedOn, ItemFields
<1>10. DOMAIN d.items[e.index].parts \subseteq DOMAIN next.parts
  BY <1>5, <1>9 DEF item
<1> HIDE DEF next, r
<1>11. ResponsesInv(r)
  <2>1. ItemChange(d, r, e.index, next)
    BY <1>1, <1>8, <1>10 DEF ItemChange
  <2>2. QED
    BY <2>1, ResponsesItem
<1>12. QED
  BY <1>1, <1>11 DEF ResponsesGood, r

LEMMA ResponsesCreated ==
  ASSUME NEW d, ResponsesInv(d), d.terminal = FALSE, NEW e
  PROVE  ResponsesGood(Responses!created(d, e)) /\ ResponsesGood(Responses!in_progress(d, e))
<1> DEFINE named == [d EXCEPT !.response_id = e.id]
           event == [kind |-> "Created", id |-> e.id]
           h == Responses!Emit(named, event)
<1>0. DOMAIN d = ResponsesFields
  BY ResponsesOf
<1>1. Responses!created(d, e) \in {Responses!Poison(d), h} /\ Responses!in_progress(d, e) \in {Responses!Poison(d), d}
  BY DEF Responses!created, Responses!in_progress, Responses!Step
<1>2. DOMAIN named = ResponsesFields /\ named.items = d.items /\ named.terminal = FALSE /\ named.events = d.events
  BY <1>0 DEF ResponsesFields
<1>3. event.kind = "Created"
  OBVIOUS
<1> HIDE DEF named, event
<1>4. /\ DOMAIN h = ResponsesFields /\ h.events = Append(d.events, event)
      /\ h.items = d.items /\ h.terminal = FALSE
  BY <1>2, ResponsesEmit
<1> HIDE DEF h
<1>5. ResponsesInv(h)
  BY <1>3, <1>4, ResponsesNote
<1>6. ResponsesGood(h) /\ ResponsesGood(d)
  BY <1>0, <1>4, <1>5 DEF ResponsesGood
<1>7. QED
  BY <1>0, <1>1, <1>6, ResponsesPoison

LEMMA ResponsesItemAdded ==
  ASSUME NEW d, ResponsesInv(d), d.terminal = FALSE, NEW e
  PROVE  ResponsesGood(Responses!output_item_added(d, e))
<1> DEFINE item == [type |-> e.type, id |-> e.id, parts |-> <<>>, arguments |-> e.text,
                    arguments_done |-> FALSE, done |-> FALSE]
           items == [x \in DOMAIN d.items \cup {e.index} |-> IF x = e.index THEN item ELSE d.items[x]]
           f == [d EXCEPT !.items = items]
           r == Responses!output_item_added(d, e)
<1>0. DOMAIN d = ResponsesFields /\ IsSequence(d.events) /\ ~HasCompleted(d.events)
  BY ResponsesOf
<1>1. r = Responses!Poison(d) \/ (e.index \notin DOMAIN d.items /\ r = f)
  <2>1. f = [d EXCEPT !.items = Responses!Update(@, e.index, item)]
    BY <1>0 DEF ResponsesFields, Responses!Update
  <2>2. QED
    BY <2>1 DEF Responses!output_item_added, Responses!Step
<1>2. ASSUME e.index \notin DOMAIN d.items PROVE ResponsesGood(f)
  <2>1. /\ DOMAIN item = ItemFields /\ item.type = e.type /\ item.done = FALSE /\ item.parts = <<>>
    BY DEF ItemFields
  <2> HIDE DEF item
  <2>2. CallsIn(d.events, e.index) = 0
    BY <1>2, NoCalls DEF ResponsesInv, EventIsOfItem
  <2>3. DOMAIN item.parts = {} /\ item.parts = [p \in DOMAIN item.parts |-> item.parts[p]]
    BY <2>1
  <2>4. ItemIsHandedOn(item, e.index, d.events)
    BY <2>1, <2>2, <2>3 DEF ItemIsHandedOn
  <2>5. /\ DOMAIN items = DOMAIN d.items \cup {e.index} /\ items[e.index] = item
        /\ \A x \in DOMAIN d.items : items[x] = d.items[x]
        /\ items = [x \in DOMAIN items |-> items[x]]
    BY <1>2
  <2> HIDE DEF items
  <2>6. DOMAIN f = ResponsesFields /\ f.items = items /\ f.events = d.events /\ f.terminal = FALSE
    BY <1>0 DEF ResponsesFields
  <2> HIDE DEF f
  <2>7. \A x \in DOMAIN f.items : ItemIsHandedOn(f.items[x], x, f.events)
    BY <2>4, <2>5, <2>6 DEF ResponsesInv
  <2>8. \A k \in DOMAIN f.events : EventIsOfItem(f.events[k], f.items)
    BY <2>5, <2>6 DEF ResponsesInv, EventIsOfItem
  <2>9. ResponsesInv(f)
    BY <1>0, <2>5, <2>6, <2>7, <2>8 DEF ResponsesInv
  <2>10. QED
    BY <2>6, <2>9 DEF ResponsesGood
<1>3. QED
  BY <1>0, <1>1, <1>2, ResponsesPoison

LEMMA ResponsesPartAdded ==
  ASSUME NEW d, ResponsesInv(d), d.terminal = FALSE, NEW e, e.text \in Nat
  PROVE  ResponsesGood(Responses!content_part_added(d, e))
<1> DEFINE part == [text |-> e.text, given |-> e.text, output_done |-> FALSE, content_done |-> FALSE]
           item == d.items[e.index]
           parts == [x \in DOMAIN item.parts \cup {e.part} |-> IF x = e.part THEN part ELSE item.parts[x]]
           next == [item EXCEPT !.parts = parts]
           f == [d EXCEPT !.total_text = @ + e.text, !.items[e.index].parts = parts]
           r == Responses!content_part_added(d, e)
<1>0. DOMAIN d = ResponsesFields /\ IsSequence(d.events) /\ LengthsIn(d.events)
  BY ResponsesOf
<1>1. r = Responses!Poison(d) \/ (e.index \in DOMAIN d.items /\ e.part \notin DOMAIN item.parts /\ r = f)
  <2>1. f = [d EXCEPT !.total_text = @ + e.text, !.items[e.index].parts = Responses!Update(@, e.part, part)]
    <3>1. parts = Responses!Update(item.parts, e.part, part)
      BY DEF Responses!Update
    <3> HIDE DEF parts
    <3>2. QED
      BY <1>0, <3>1 DEF ResponsesFields
  <2> HIDE DEF f
  <2>2. r = f \/ r = Responses!Poison(d)
    BY <2>1 DEF Responses!content_part_added, Responses!Step
  <2>3. r # Responses!Poison(d) => Responses!text_item(d, e, e.type) /\ e.part \notin DOMAIN item.parts
    BY DEF Responses!content_part_added, Responses!Step
  <2>4. QED
    BY <2>2, <2>3 DEF Responses!text_item
<1>2. ASSUME e.index \in DOMAIN d.items, e.part \notin DOMAIN item.parts PROVE ResponsesGood(f)
  <2>1. DOMAIN part = PartFields /\ part.text = e.text /\ part.given = e.text
    BY DEF PartFields
  <2> HIDE DEF part
  <2>2. ItemIsHandedOn(item, e.index, d.events)
    BY <1>2 DEF ResponsesInv
  <2>3. Responses!TextOf(d.events, e.index, e.part) = 0
    BY <1>0, <1>2, NoText DEF ResponsesInv, EventIsOfItem
  <2>4. PartIsHandedOn(part, item.type, e.index, e.part, d.events)
    BY <2>1, <2>3 DEF PartIsHandedOn
  <2>5. f.items = [d.items EXCEPT ![e.index] = next] /\ DOMAIN f = ResponsesFields
        /\ f.events = d.events /\ f.terminal = FALSE
    <3> HIDE DEF parts
    <3>1. PICK i : i = e.index
      OBVIOUS
    <3>2. [d.items EXCEPT ![i].parts = parts] = [d.items EXCEPT ![i] = [d.items[i] EXCEPT !.parts = parts]]
      OBVIOUS
    <3>3. f = [d EXCEPT !.total_text = @ + e.text, !.items[i].parts = parts]
      BY <3>1
    <3> HIDE DEF f
    <3>4. f.items = [d.items EXCEPT ![i].parts = parts] /\ DOMAIN f = ResponsesFields
        /\ f.events = d.events /\ f.terminal = FALSE
      BY <1>0, <3>3 DEF ResponsesFields
    <3>5. QED
      BY <3>1, <3>2, <3>4
  <2> HIDE DEF item
  <2>6. /\ DOMAIN parts = DOMAIN item.parts \cup {e.part} /\ parts[e.part] = part
        /\ \A x \in DOMAIN item.parts : parts[x] = item.parts[x]
        /\ parts = [x \in DOMAIN parts |-> parts[x]]
    BY <1>2
  <2> HIDE DEF parts
  <2>7. \A p \in DOMAIN parts : PartIsHandedOn(parts[p], item.type, e.index, p, d.events)
    BY <2>2, <2>4, <2>6 DEF ItemIsHandedOn
  <2>8. ItemIsHandedOn(next, e.index, d.events)
    BY <2>2, <2>6, <2>7, ItemWithParts
  <2>9. next.parts = parts
    BY <2>2 DEF ItemIsHandedOn, ItemFields
  <2>10. DOMAIN d.items[e.index].parts \subseteq DOMAIN next.parts
    BY <2>6, <2>9 DEF item
  <2> HIDE DEF next, f
  <2>11. ResponsesInv(f)
    <3>1. ItemChange(d, f, e.index, next)
      BY <1>2, <2>5, <2>8, <2>10 DEF ItemChange
    <3>2. QED
      BY <3>1, ResponsesItem
  <2>12. QED
    BY <2>5, <2>11 DEF ResponsesGood
<1>3. QED
  BY <1>0, <1>1, <1>2, ResponsesPoison

LEMMA ResponsesTextDelta ==
  ASSUME NEW d, ResponsesInv(d), d.terminal = FALSE, NEW e, e.text \in Nat,
         NEW type \in {"message", "reasoning"}
  PROVE  ResponsesGood(Responses!text_delta(d, e, type))
<1> DEFINE taken == [d EXCEPT !.total_text = @ + e.text]
           item == d.items[e.index]
           old == item.parts[e.part]
           part == [old EXCEPT !.text = @ + e.text]
           parts == [item.parts EXCEPT ![e.part] = part]
           next == [item EXCEPT !.parts = parts]
           f == Responses!SetPart(taken, e, part)
           event == [kind |-> "TextDelta", index |-> e.index, part |-> e.part, text |-> e.text]
           g == Responses!Emit(f, event)
           r == Responses!text_delta(d, e, type)
<1>0. DOMAIN d = ResponsesFields /\ IsSequence(d.events) /\ LengthsIn(d.events)
  BY ResponsesOf
<1>1. \/ r = Responses!Poison(d)
      \/ /\ e.index \in DOMAIN d.items /\ e.part \in DOMAIN item.parts /\ item.type = type
         /\ r = IF type = "message" THEN g ELSE f
  <2> HIDE DEF g, f
  <2>1. f = Responses!SetPart(taken, e, [Responses!Part(d, e) EXCEPT !.text = @ + e.text])
    BY DEF f, Responses!Part
  <2> HIDE DEF taken, event
  <2>2. r = Responses!Poison(d) \/ (Responses!text_part(d, e, type) /\ r = IF type = "message" THEN g ELSE f)
    BY <2>1 DEF Responses!text_delta, Responses!Step, g, taken, event
  <2>3. QED
    BY <2>2 DEF Responses!text_part, Responses!text_item
<1>2. ASSUME e.index \in DOMAIN d.items, e.part \in DOMAIN item.parts, item.type = type
      PROVE  (type = "reasoning" => ResponsesGood(f)) /\ (type = "message" => ResponsesGood(g))
  <2>1. DOMAIN taken = ResponsesFields /\ taken.items = d.items /\ taken.events = d.events /\ taken.terminal = FALSE
    BY <1>0 DEF ResponsesFields
  <2> HIDE DEF taken
  <2>2. /\ DOMAIN f = ResponsesFields /\ f.events = d.events /\ f.terminal = FALSE
        /\ f.items = [d.items EXCEPT ![e.index] = next]
    <3> HIDE DEF part, f
    <3>1. f = Responses!SetPart(taken, e, part)
      BY DEF f
    <3>2. PartIsSet(taken, e, part, f)
      BY <2>1, <3>1, ResponsesSetPart
    <3> HIDE DEF next, parts, item
    <3>3. next = [d.items[e.index] EXCEPT !.parts = [d.items[e.index].parts EXCEPT ![e.part] = part]]
      BY DEF next, parts, item
    <3>4. QED
      BY <2>1, <3>2, <3>3 DEF PartIsSet
  <2> HIDE DEF f
  <2>3. ItemIsHandedOn(item, e.index, d.events)
    BY <1>2 DEF ResponsesInv
  <2>4. item.parts = [p \in DOMAIN item.parts |-> item.parts[p]]
      /\ \A p \in DOMAIN item.parts : PartIsHandedOn(item.parts[p], item.type, e.index, p, d.events)
    BY <2>3 DEF ItemIsHandedOn
  <2>5. PartIsHandedOn(old, type, e.index, e.part, d.events)
    BY <1>2, <2>4
  <2> HIDE DEF item
  <2>6. /\ DOMAIN parts = DOMAIN item.parts /\ parts[e.part] = part
        /\ \A p \in DOMAIN item.parts : p # e.part => parts[p] = item.parts[p]
        /\ parts = [p \in DOMAIN parts |-> parts[p]]
    BY <1>2, <2>4
  <2> HIDE DEF parts, old
  <2>7. DOMAIN part = PartFields /\ part.text = old.text + e.text /\ part.given = old.given
    BY <2>5 DEF PartIsHandedOn, PartFields
  <2>8. old.text \in Nat /\ old.given \in Nat /\ part.text \in Nat
        /\ (type = "message" => old.text = old.given + Responses!TextOf(d.events, e.index, e.part))
    BY <2>5, <2>7 DEF PartIsHandedOn
  <2> HIDE DEF part
  <2>9. DOMAIN next = ItemFields /\ next.parts = parts /\ next.type = type /\ next.done = item.done
    BY <1>2, <2>3 DEF ItemIsHandedOn, ItemFields
  <2>10. DOMAIN d.items[e.index].parts \subseteq DOMAIN next.parts /\ e.part \in DOMAIN next.parts
    BY <1>2, <2>6, <2>9 DEF item
  <2>11. CASE type = "reasoning"
    <3>1. PartIsHandedOn(part, item.type, e.index, e.part, d.events)
      BY <1>2, <2>7, <2>8, <2>11 DEF PartIsHandedOn
    <3>2. \A p \in DOMAIN parts : PartIsHandedOn(parts[p], item.type, e.index, p, d.events)
      BY <2>4, <2>6, <3>1
    <3>3. ItemIsHandedOn(next, e.index, d.events)
      BY <2>3, <2>6, <3>2, ItemWithParts
    <3> HIDE DEF next
    <3>4. ResponsesInv(f)
      <4>1. ItemChange(d, f, e.index, next)
        BY <1>2, <2>2, <2>10, <3>3 DEF ItemChange
      <4>2. QED
        BY <4>1, ResponsesItem
    <3>5. QED
      BY <2>2, <2>11, <3>4 DEF ResponsesGood
  <2>12. CASE type = "message"
    <3>1. /\ event.kind = "TextDelta" /\ event.index = e.index /\ event.part = e.part /\ event.text = e.text
      OBVIOUS
    <3> HIDE DEF event, next
    <3>2. /\ DOMAIN g = ResponsesFields /\ g.events = Append(d.events, event)
          /\ g.items = [d.items EXCEPT ![e.index] = next] /\ g.terminal = FALSE
      BY <2>2, ResponsesEmit
    <3> HIDE DEF g
    <3>3. \A p : Responses!TextOf(Append(d.events, event), e.index, p) =
                   Responses!TextOf(d.events, e.index, p) + (IF p = e.part THEN e.text ELSE 0)
      <4> SUFFICES ASSUME NEW p
                   PROVE  Responses!TextOf(Append(d.events, event), e.index, p) =
                            Responses!TextOf(d.events, e.index, p) + (IF p = e.part THEN e.text ELSE 0)
        OBVIOUS
      <4>1. Responses!TextOf(d.events, e.index, p) \in Nat
        BY <1>0, TextIsLength
      <4>2. CASE p = e.part
        <5>1. Responses!TextOf(Append(d.events, event), e.index, p) = Responses!TextOf(d.events, e.index, p) + event.text
          BY <1>0, <3>1, <4>2, EmittingText
        <5>2. QED
          BY <3>1, <4>2, <5>1
      <4>3. CASE p # e.part
        <5>1. Responses!TextOf(Append(d.events, event), e.index, p) = Responses!TextOf(d.events, e.index, p)
          BY <1>0, <3>1, <4>3, EmittingText
        <5>2. QED
          BY <4>1, <4>3, <5>1
      <4>4. QED
        BY <4>2, <4>3
    <3>4. CallsIn(Append(d.events, event), e.index) = CallsIn(d.events, e.index)
      BY <1>0, <3>1, EmittingCall
    <3>5. ASSUME NEW p \in DOMAIN parts
          PROVE  PartIsHandedOn(parts[p], type, e.index, p, Append(d.events, event))
      <4>1. Responses!TextOf(d.events, e.index, p) \in Nat
        BY <1>0, TextIsLength
      <4>2. CASE p = e.part
        <5>1. part.text = part.given + (Responses!TextOf(d.events, e.index, p) + e.text)
          BY <2>7, <2>8, <2>12, <4>1, <4>2
        <5>2. QED
          BY <2>6, <2>7, <2>8, <3>3, <4>2, <5>1 DEF PartIsHandedOn
      <4>3. CASE p # e.part
        <5>1. PartIsHandedOn(item.parts[p], type, e.index, p, d.events) /\ parts[p] = item.parts[p]
          BY <1>2, <2>4, <2>6, <4>3
        <5>2. QED
          BY <3>3, <4>1, <4>3, <5>1 DEF PartIsHandedOn
      <4>4. QED
        BY <4>2, <4>3
    <3>6. ItemIsHandedOn(next, e.index, Append(d.events, event))
      BY <2>3, <2>6, <2>9, <2>12, <3>5 DEF ItemIsHandedOn
    <3>7. ResponsesInv(g)
      <4>1. ItemEvent(d, g, e.index, next, event)
        BY <1>2, <2>10, <3>1, <3>2, <3>6 DEF ItemEvent
      <4>2. QED
        BY <4>1, ResponsesItemEvent
    <3>8. ResponsesGood(g)
      BY <3>2, <3>7 DEF ResponsesGood
    <3>9. QED
      BY <2>12, <3>8
  <2>13. QED
    BY <2>11, <2>12
<1>3. QED
  BY <1>0, <1>1, <1>2, ResponsesPoison

LEMMA ResponsesTextDone ==
  ASSUME NEW d, ResponsesInv(d), d.terminal = FALSE, NEW e, NEW type
  PROVE  ResponsesGood(Responses!text_done(d, e, type)) /\ ResponsesGood(Responses!content_part_done(d, e))
<1> DEFINE old == d.items[e.index].parts[e.part]
           p1 == [old EXCEPT !.output_done = TRUE]
           p2 == [old EXCEPT !.content_done = TRUE]
<1>0. DOMAIN d = ResponsesFields
  BY ResponsesOf
<1>1. \/ Responses!text_done(d, e, type) = Responses!Poison(d)
      \/ /\ Responses!text_part(d, e, type)
         /\ Responses!text_done(d, e, type) = Responses!SetPart(d, e, p1)
  BY DEF Responses!text_done, Responses!Step, Responses!Part
<1>2. \/ Responses!content_part_done(d, e) = Responses!Poison(d)
      \/ /\ Responses!text_part(d, e, e.type)
         /\ Responses!content_part_done(d, e) = Responses!SetPart(d, e, p2)
  BY DEF Responses!content_part_done, Responses!Step, Responses!Part
<1>3. ASSUME NEW t, Responses!text_part(d, e, t)
      PROVE  ResponsesGood(Responses!SetPart(d, e, p1)) /\ ResponsesGood(Responses!SetPart(d, e, p2))
  <2>1. e.index \in DOMAIN d.items /\ e.part \in DOMAIN d.items[e.index].parts
    BY <1>3 DEF Responses!text_part, Responses!text_item
  <2>2. DOMAIN old = PartFields
    BY <2>1 DEF ResponsesInv, ItemIsHandedOn, PartIsHandedOn
  <2>3. /\ DOMAIN p1 = PartFields /\ p1.text = old.text /\ p1.given = old.given
        /\ DOMAIN p2 = PartFields /\ p2.text = old.text /\ p2.given = old.given
    BY <2>2 DEF PartFields
  <2> HIDE DEF p1, p2
  <2> HIDE DEF old
  <2>4. ResponsesGood(Responses!SetPart(d, e, p1))
    BY <2>1, <2>3, ResponsesFlag, Zenon DEF old
  <2>5. ResponsesGood(Responses!SetPart(d, e, p2))
    BY <2>1, <2>3, ResponsesFlag, Zenon DEF old
  <2>6. QED
    BY <2>4, <2>5
<1> HIDE DEF p1, p2
<1>4. QED
  BY <1>0, <1>1, <1>2, <1>3, ResponsesPoison

\* An item that keeps its parts and is not finished by this event.
Touched(d, r, i, item) ==
    /\ ResponsesInv(d) /\ d.terminal = FALSE /\ i \in DOMAIN d.items
    /\ DOMAIN item = ItemFields /\ item.type = d.items[i].type /\ item.parts = d.items[i].parts
    /\ item.done \in BOOLEAN /\ (item.done = d.items[i].done \/ item.type # "function_call")
    /\ DOMAIN r = ResponsesFields /\ r.items = [d.items EXCEPT ![i] = item]
    /\ r.terminal = FALSE /\ r.events = d.events

LEMMA ResponsesTouch ==
  ASSUME NEW d, NEW r, NEW i, NEW item, Touched(d, r, i, item)
  PROVE  ResponsesInv(r)
<1>1. ItemIsHandedOn(d.items[i], i, d.events)
  BY DEF ResponsesInv, Touched
<1>2. ItemIsHandedOn(item, i, d.events)
  BY <1>1 DEF ItemIsHandedOn, Touched
<1>3. QED
  <2>1. ItemChange(d, r, i, item)
    BY <1>2 DEF ItemChange, Touched
  <2>2. QED
    BY <2>1, ResponsesItem

LEMMA ResponsesArguments ==
  ASSUME NEW d, ResponsesInv(d), d.terminal = FALSE, NEW e
  PROVE  ResponsesGood(Responses!function_arguments_delta(d, e))
         /\ ResponsesGood(Responses!function_arguments_done(d, e))
<1> DEFINE r1 == [d EXCEPT !.items[e.index].arguments = @ + e.text]
           r2 == [d EXCEPT !.items[e.index].arguments_done = TRUE]
           i1 == [d.items[e.index] EXCEPT !.arguments = @ + e.text]
           i2 == [d.items[e.index] EXCEPT !.arguments_done = TRUE]
<1>0. DOMAIN d = ResponsesFields
  BY ResponsesOf
<1>1. \/ Responses!function_arguments_delta(d, e) = Responses!Poison(d)
      \/ Responses!function(d, e) /\ Responses!function_arguments_delta(d, e) = r1
  BY DEF Responses!function_arguments_delta, Responses!Step
<1>2. \/ Responses!function_arguments_done(d, e) = Responses!Poison(d)
      \/ Responses!function(d, e) /\ Responses!function_arguments_done(d, e) = r2
  BY DEF Responses!function_arguments_done, Responses!Step
<1>3. ASSUME Responses!function(d, e) PROVE ResponsesGood(r1) /\ ResponsesGood(r2)
  <2>1. e.index \in DOMAIN d.items
    BY <1>3 DEF Responses!function, Responses!text_item
  <2>2. DOMAIN d.items[e.index] = ItemFields /\ d.items[e.index].done \in BOOLEAN
    BY <2>1 DEF ResponsesInv, ItemIsHandedOn
  <2>3. /\ DOMAIN i1 = ItemFields /\ i1.type = d.items[e.index].type /\ i1.parts = d.items[e.index].parts
        /\ i1.done = d.items[e.index].done
        /\ DOMAIN i2 = ItemFields /\ i2.type = d.items[e.index].type /\ i2.parts = d.items[e.index].parts
        /\ i2.done = d.items[e.index].done
    BY <2>2 DEF ItemFields
  <2>4. /\ DOMAIN r1 = ResponsesFields /\ r1.items = [d.items EXCEPT ![e.index] = i1]
        /\ r1.terminal = FALSE /\ r1.events = d.events
    BY <1>0 DEF ResponsesFields
  <2>5. /\ DOMAIN r2 = ResponsesFields /\ r2.items = [d.items EXCEPT ![e.index] = i2]
        /\ r2.terminal = FALSE /\ r2.events = d.events
    BY <1>0 DEF ResponsesFields
  <2> HIDE DEF i1, i2, r1, r2
  <2>6. ResponsesInv(r1) /\ ResponsesInv(r2)
    <3>1. Touched(d, r1, e.index, i1) /\ Touched(d, r2, e.index, i2)
      BY <2>1, <2>2, <2>3, <2>4, <2>5 DEF Touched
    <3>2. QED
      BY <3>1, ResponsesTouch
  <2>7. QED
    BY <2>4, <2>5, <2>6 DEF ResponsesGood
<1> HIDE DEF r1, r2
<1>4. QED
  BY <1>0, <1>1, <1>2, <1>3, ResponsesPoison

LEMMA ResponsesItemDone ==
  ASSUME NEW d, ResponsesInv(d), d.terminal = FALSE, NEW e
  PROVE  ResponsesGood(Responses!output_item_done(d, e))
<1> DEFINE item == d.items[e.index]
           next == [item EXCEPT !.done = TRUE]
           f == [d EXCEPT !.items[e.index].done = TRUE]
           event == [kind |-> "FunctionCall", index |-> e.index, id |-> item.id]
           g == Responses!Emit(f, event)
           r == Responses!output_item_done(d, e)
<1>0. DOMAIN d = ResponsesFields /\ IsSequence(d.events) /\ LengthsIn(d.events)
  BY ResponsesOf
<1>1. \/ r = Responses!Poison(d)
      \/ /\ e.index \in DOMAIN d.items
         /\ \/ item.type = "function_call" /\ ~item.done /\ r = g
            \/ item.type # "function_call" /\ r = f
  BY DEF Responses!output_item_done, Responses!Step
<1>2. ASSUME e.index \in DOMAIN d.items, item.type # "function_call" PROVE ResponsesGood(f)
  <2>1. DOMAIN item = ItemFields
    BY <1>2 DEF ResponsesInv, ItemIsHandedOn
  <2>2. DOMAIN next = ItemFields /\ next.type = item.type /\ next.parts = item.parts /\ next.done = TRUE
    BY <2>1 DEF ItemFields
  <2>3. DOMAIN f = ResponsesFields /\ f.items = [d.items EXCEPT ![e.index] = next]
        /\ f.terminal = FALSE /\ f.events = d.events
    BY <1>0 DEF ResponsesFields
  <2> HIDE DEF next, f
  <2>4. ResponsesInv(f)
    <3>1. Touched(d, f, e.index, next)
      BY <1>2, <2>2, <2>3 DEF Touched
    <3>2. QED
      BY <3>1, ResponsesTouch
  <2>5. QED
    BY <2>3, <2>4 DEF ResponsesGood
<1>3. ASSUME e.index \in DOMAIN d.items, item.type = "function_call", ~item.done PROVE ResponsesGood(g)
  <2>1. ItemIsHandedOn(item, e.index, d.events)
    BY <1>3 DEF ResponsesInv
  <2>2. DOMAIN item = ItemFields /\ item.done = FALSE /\ CallsIn(d.events, e.index) = 0
    BY <1>3, <2>1 DEF ItemIsHandedOn
  <2>3. DOMAIN next = ItemFields /\ next.type = "function_call" /\ next.parts = item.parts /\ next.done = TRUE
    BY <1>3, <2>2 DEF ItemFields
  <2>4. DOMAIN f = ResponsesFields /\ f.items = [d.items EXCEPT ![e.index] = next]
        /\ f.terminal = FALSE /\ f.events = d.events
    BY <1>0 DEF ResponsesFields
  <2>5. event.kind = "FunctionCall" /\ event.index = e.index
    OBVIOUS
  <2> HIDE DEF f, event
  <2>6. DOMAIN g = ResponsesFields /\ g.events = Append(d.events, event)
        /\ g.items = [d.items EXCEPT ![e.index] = next] /\ g.terminal = FALSE
    BY <2>4, ResponsesEmit
  <2> HIDE DEF g
  <2>7. CallsIn(Append(d.events, event), e.index) = 1
    <3>1. CallsIn(Append(d.events, event), e.index) = CallsIn(d.events, e.index) + 1
      BY <1>0, <2>5, EmittingCall
    <3>2. QED
      BY <2>2, <3>1
  <2>8. \A p : Responses!TextOf(Append(d.events, event), e.index, p) = Responses!TextOf(d.events, e.index, p)
    <3>1. event.kind # "TextDelta"
      BY <2>5
    <3>2. QED
      BY <1>0, <3>1, EmittingText
  <2> HIDE DEF next
  <2>9. \A p \in DOMAIN next.parts : PartIsHandedOn(next.parts[p], next.type, e.index, p, Append(d.events, event))
    BY <1>3, <2>1, <2>3, <2>8 DEF ItemIsHandedOn, PartIsHandedOn
  <2>10. next.parts = [p \in DOMAIN next.parts |-> next.parts[p]]
    BY <2>1, <2>3 DEF ItemIsHandedOn
  <2>11. ItemIsHandedOn(next, e.index, Append(d.events, event))
    BY <2>3, <2>7, <2>9, <2>10 DEF ItemIsHandedOn
  <2>12. event.kind # "TextDelta" /\ event.kind \in {"FunctionCall", "TextDelta"}
    BY <2>5
  <2>13. DOMAIN d.items[e.index].parts \subseteq DOMAIN next.parts
    BY <2>3
  <2>14. ResponsesInv(g)
    <3>1. ItemEvent(d, g, e.index, next, event)
      BY <1>3, <2>5, <2>6, <2>11, <2>12, <2>13 DEF ItemEvent
    <3>2. QED
      BY <3>1, ResponsesItemEvent
  <2>15. QED
    BY <2>6, <2>14 DEF ResponsesGood
<1> HIDE DEF f, g
<1>4. QED
  BY <1>0, <1>1, <1>2, <1>3, ResponsesPoison

\* An event that may end the stream.
EndsBy(d, event) ==
    /\ ResponsesInv(d) /\ d.terminal = FALSE
    /\ event.kind \in {"Completed", "Failed", "Error"}
    /\ event.kind = "Completed" => \A i \in DOMAIN d.items : d.items[i].done

LEMMA ResponsesTerminal ==
  ASSUME NEW d, NEW event, EndsBy(d, event)
  PROVE  ResponsesGood(Responses!Terminal(d, event))
<1> DEFINE ended == [d EXCEPT !.terminal = TRUE]
           r == Responses!Terminal(d, event)
<1> USE DEF EndsBy
<1>0. DOMAIN d = ResponsesFields /\ IsSequence(d.events) /\ LengthsIn(d.events) /\ ~HasCompleted(d.events)
  BY ResponsesOf
<1>1. DOMAIN ended = ResponsesFields /\ ended.items = d.items /\ ended.events = d.events /\ ended.terminal = TRUE
  BY <1>0 DEF ResponsesFields
<1>2. r = Responses!Emit(ended, event)
  BY DEF Responses!Terminal
<1> HIDE DEF ended, r
<1>3. /\ DOMAIN r = ResponsesFields /\ r.events = Append(d.events, event)
      /\ r.items = d.items /\ r.terminal = TRUE
  BY <1>1, <1>2, ResponsesEmit
<1>4. CASE event.kind # "Completed"
  <2>1. event.kind \notin {"FunctionCall", "TextDelta", "Completed"} /\ r.terminal \in BOOLEAN
    BY <1>3, <1>4
  <2>2. ResponsesInv(r)
    BY <1>3, <2>1, ResponsesNote
  <2>3. QED
    BY <1>3, <2>2 DEF ResponsesGood, r
<1>5. CASE event.kind = "Completed"
  <2>1. /\ IsSequence(r.events) /\ DOMAIN d.events = 1..Len(d.events) /\ Len(d.events) \in Nat
        /\ DOMAIN r.events = 1..(Len(d.events) + 1) /\ r.events[Len(d.events) + 1] = event
        /\ \A k \in 1..Len(d.events) : r.events[k] = d.events[k]
    BY <1>0, <1>3, Appended
  <2>2. \A i \in DOMAIN r.items : ItemIsHandedOn(r.items[i], i, r.events)
    <3>1. event.kind \notin {"FunctionCall", "TextDelta"}
      BY <1>5
    <3>2. QED
      BY <1>0, <1>3, <3>1, ItemKept DEF ResponsesInv
  <2>3. \A k \in DOMAIN r.events : EventIsOfItem(r.events[k], r.items)
    <3>1. EventIsOfItem(event, r.items)
      BY <1>5 DEF EventIsOfItem
    <3>2. \A k \in 1..Len(d.events) : EventIsOfItem(r.events[k], r.items)
      BY <1>3, <2>1 DEF ResponsesInv
    <3>3. \A k \in 1..(Len(d.events) + 1) : k \in 1..Len(d.events) \/ k = Len(d.events) + 1
      BY <2>1
    <3>4. QED
      BY <2>1, <3>1, <3>2, <3>3
  <2>4. \A i \in DOMAIN r.items : r.items[i].done = TRUE
    BY <1>3, <1>5 DEF ResponsesInv, ItemIsHandedOn
  <2>5. r.items = [i \in DOMAIN r.items |-> r.items[i]]
    BY <1>3 DEF ResponsesInv
  <2>6. ResponsesInv(r)
    BY <1>3, <2>1, <2>2, <2>3, <2>4, <2>5 DEF ResponsesInv
  <2>7. QED
    BY <1>3, <2>6 DEF ResponsesGood, r
<1>6. QED
  BY <1>4, <1>5

LEMMA ResponsesCompleted ==
  ASSUME NEW d, ResponsesInv(d), d.terminal = FALSE, NEW e
  PROVE  /\ ResponsesGood(Responses!completed(d, e))
         /\ ResponsesGood(Responses!failed(d, e))
         /\ ResponsesGood(Responses!error(d, e))
<1> DEFINE c == [kind |-> "Completed", id |-> e.id]
           f == [kind |-> "Failed"]
           g == [kind |-> "Error"]
<1>0. DOMAIN d = ResponsesFields
  BY ResponsesOf
<1>1. /\ Responses!completed(d, e) = Responses!Poison(d) \/ (/\ \A i \in DOMAIN d.items : d.items[i].done
                                                            /\ Responses!completed(d, e) = Responses!Terminal(d, c))
      /\ Responses!failed(d, e) \in {Responses!Poison(d), Responses!Terminal(d, f)}
      /\ Responses!error(d, e) \in {Responses!Poison(d), Responses!Terminal(d, g)}
  BY DEF Responses!completed, Responses!failed, Responses!error, Responses!Step
<1>2. c.kind = "Completed" /\ f.kind = "Failed" /\ g.kind = "Error"
  OBVIOUS
<1> HIDE DEF c, f, g
<1>3. (\A i \in DOMAIN d.items : d.items[i].done) => ResponsesGood(Responses!Terminal(d, c))
  <2> SUFFICES ASSUME \A i \in DOMAIN d.items : d.items[i].done PROVE ResponsesGood(Responses!Terminal(d, c))
    OBVIOUS
  <2>1. EndsBy(d, c)
    BY <1>2 DEF EndsBy
  <2>2. QED
    BY <2>1, ResponsesTerminal
<1>4. ResponsesGood(Responses!Terminal(d, f)) /\ ResponsesGood(Responses!Terminal(d, g))
  <2>1. ResponsesGood(Responses!Terminal(d, f))
    <3>1. EndsBy(d, f)
      BY <1>2 DEF EndsBy
    <3>2. QED
      BY <3>1, ResponsesTerminal
  <2>2. ResponsesGood(Responses!Terminal(d, g))
    <3>1. EndsBy(d, g)
      BY <1>2 DEF EndsBy
    <3>2. QED
      BY <3>1, ResponsesTerminal
  <2>3. QED
    BY <2>1, <2>2
<1>5. ResponsesGood(Responses!Poison(d))
  BY <1>0, ResponsesPoison
<1>6. ResponsesGood(Responses!completed(d, e))
  BY <1>1, <1>3, <1>5
<1>7. QED
  BY <1>1, <1>4, <1>5, <1>6

\* The counters of a decoder do not matter to what it hands on.
LEMMA ResponsesCounted ==
  ASSUME NEW d, ResponsesGood(d), NEW r, DOMAIN r = ResponsesFields, r.items = d.items, r.events = d.events,
         r.terminal = d.terminal, r.poisoned = d.poisoned
  PROVE  ResponsesGood(r)
<1>1. CASE d.poisoned = TRUE
  BY <1>1 DEF ResponsesGood
<1>2. CASE ResponsesInv(d)
  <2>1. ResponsesInv(r)
    BY <1>2 DEF ResponsesInv
  <2>2. QED
    BY <2>1 DEF ResponsesGood
<1>3. QED
  BY <1>1, <1>2 DEF ResponsesGood

ResponsesKinds == {"response.created", "response.in_progress", "response.output_item.added",
    "response.content_part.added", "response.output_text.delta", "response.output_text.done",
    "response.reasoning_text.delta", "response.reasoning_text.done", "response.content_part.done",
    "response.function_call_arguments.delta", "response.function_call_arguments.done",
    "response.output_item.done", "response.completed", "response.failed", "response.incomplete", "error"}

OnTheWire(e) ==
    /\ e.kind \in ResponsesKinds
    /\ e.kind \in {"response.content_part.added", "response.output_text.delta", "response.reasoning_text.delta"} =>
          e.text \in Nat

LEMMA ResponsesWire ==
  ASSUME NEW e \in Responses!Wire
  PROVE  OnTheWire(e)
<1> DEFINE W1 == {Responses!Message(f, [kind |-> k, id |-> i]) : f \in Responses!Faults, i \in Responses!Ids,
                   k \in {"response.created", "response.completed", "response.failed"}}
           W2 == {Responses!Message(f, [kind |-> "error"]) : f \in Responses!Faults}
           W3 == {Responses!Message(Responses!Plain, [kind |-> k, id |-> "a"]) :
                   k \in {"response.in_progress", "response.incomplete"}}
           W4 == {Responses!Message(Responses!Plain, [kind |-> "response.output_item.added", index |-> x, id |-> "a",
                   type |-> t, text |-> 0]) :
                   x \in OutputIndexes, t \in Responses!Types \cup {"other"}}
           W5 == {Responses!Message(Responses!Plain, [kind |-> k, index |-> x, id |-> i, part |-> p, type |-> t, text |-> n]) :
                   x \in OutputIndexes, i \in Responses!Ids, p \in ContentIndexes,
                   t \in Responses!Types \ {"function_call"}, n \in Responses!Texts,
                   k \in {"response.content_part.added", "response.content_part.done"}}
           M6(x, p, n, k) == Responses!Message(Responses!Plain, [kind |-> k, index |-> x, id |-> "a", part |-> p, text |-> n])
           W6 == {M6(x, p, n, k) :
                   x \in OutputIndexes, p \in ContentIndexes, n \in Responses!Texts,
                   k \in {"response.output_text.delta", "response.output_text.done",
                   "response.reasoning_text.delta", "response.reasoning_text.done"}}
           W7 == {Responses!Message(Responses!Plain, [kind |-> k, index |-> x, id |-> "a", text |-> n]) :
                   x \in OutputIndexes, n \in 0..(MaxArguments + 1),
                   k \in {"response.function_call_arguments.delta", "response.function_call_arguments.done"}}
           M8(x, t, n, c) == Responses!Message(Responses!Plain, [kind |-> "response.output_item.done", index |-> x,
                                          id |-> "a", type |-> t, text |-> n, content |-> c])
           W8 == {M8(x, t, n, c) :
                   x \in OutputIndexes, t \in Responses!Types, n \in 0..MaxArguments,
                   c \in {<<>>} \cup {<<m>> : m \in Responses!Texts}}
<1>0. e \in W1 \cup W2 \cup W3 \cup W4 \cup W5 \cup W6 \cup W7 \cup W8
  <2>1. Responses!Wire = W1 \cup W2 \cup W3 \cup W4 \cup W5 \cup W6 \cup W7 \cup W8
    BY SMT DEF Responses!Wire
  <2> HIDE DEF W1, W2, W3, W4, W5, W6, W7, W8
  <2>2. QED
    BY <2>1
<1> HIDE DEF W1, W2, W3, W4, W5, W6, W7, W8, M6, M8
<1>1. ASSUME NEW f, NEW fields, "kind" \in DOMAIN fields
      PROVE  /\ Responses!Message(f, fields).kind = fields.kind
             /\ "text" \in DOMAIN fields => Responses!Message(f, fields).text = fields.text
  BY <1>1 DEF Responses!Message
<1>2. \A n \in Responses!Texts : n \in Nat
  BY TransportAssumption DEF Responses!Texts
<1>3. CASE e \in W1
  <2> USE DEF W1
  <2>1. PICK f \in Responses!Faults, i \in Responses!Ids, k \in {"response.created", "response.completed", "response.failed"} :
             e = Responses!Message(f, [kind |-> k, id |-> i])
    BY <1>3
  <2>2. e.kind = k
    BY <1>1, <2>1
  <2>3. QED
    BY <2>2 DEF OnTheWire, ResponsesKinds
<1>4. CASE e \in W2
  <2> USE DEF W2
  <2>1. PICK f \in Responses!Faults : e = Responses!Message(f, [kind |-> "error"])
    BY <1>4
  <2>2. e.kind = "error"
    BY <1>1, <2>1
  <2>3. QED
    BY <2>2 DEF OnTheWire, ResponsesKinds
<1>5. CASE e \in W3
  <2> USE DEF W3
  <2>1. PICK k \in {"response.in_progress", "response.incomplete"} :
             e = Responses!Message(Responses!Plain, [kind |-> k, id |-> "a"])
    BY <1>5
  <2>2. e.kind = k
    BY <1>1, <2>1
  <2>3. QED
    BY <2>2 DEF OnTheWire, ResponsesKinds
<1>6. CASE e \in W4
  <2> USE DEF W4
  <2>1. PICK x \in OutputIndexes, t \in Responses!Types \cup {"other"} :
             e = Responses!Message(Responses!Plain, [kind |-> "response.output_item.added", index |-> x,
                                                          id |-> "a", type |-> t, text |-> 0])
    BY <1>6
  <2>2. e.kind = "response.output_item.added"
    BY <1>1, <2>1
  <2>3. QED
    BY <2>2 DEF OnTheWire, ResponsesKinds
<1>7. CASE e \in W5
  <2> USE DEF W5
  <2>1. PICK x \in OutputIndexes, i \in Responses!Ids, p \in ContentIndexes,
             t \in Responses!Types \ {"function_call"}, n \in Responses!Texts, k \in {"response.content_part.added", "response.content_part.done"} :
             e = Responses!Message(Responses!Plain, [kind |-> k, index |-> x, id |-> i, part |-> p, type |-> t, text |-> n])
    BY <1>7
  <2>2. e.kind = k /\ e.text = n
    BY <1>1, <2>1
  <2>3. QED
    BY <1>2, <2>2 DEF OnTheWire, ResponsesKinds
<1>8. CASE e \in W6
  <2> USE DEF W6
  <2>1. PICK x \in OutputIndexes, p \in ContentIndexes, n \in Responses!Texts, k \in {"response.output_text.delta", "response.output_text.done",
                                               "response.reasoning_text.delta", "response.reasoning_text.done"} :
             e = M6(x, p, n, k)
    BY <1>8
  <2>2. e.kind = k /\ e.text = n
    BY <1>1, <2>1 DEF M6
  <2>3. QED
    BY <1>2, <2>2 DEF OnTheWire, ResponsesKinds
<1>9. CASE e \in W7
  <2> USE DEF W7
  <2>1. PICK x \in OutputIndexes, n \in 0..(MaxArguments + 1), k \in {"response.function_call_arguments.delta", "response.function_call_arguments.done"} :
             e = Responses!Message(Responses!Plain, [kind |-> k, index |-> x, id |-> "a", text |-> n])
    BY <1>9
  <2>2. e.kind = k
    BY <1>1, <2>1
  <2>3. QED
    BY <2>2 DEF OnTheWire, ResponsesKinds
<1>10. CASE e \in W8
  <2> USE DEF W8
  <2>1. PICK x \in OutputIndexes, t \in Responses!Types, n \in 0..MaxArguments,
             c \in {<<>>} \cup {<<m>> : m \in Responses!Texts} : e = M8(x, t, n, c)
    BY <1>10
  <2>2. e.kind = "response.output_item.done"
    BY <1>1, <2>1 DEF M8
  <2>3. QED
    BY <2>2 DEF OnTheWire, ResponsesKinds
<1>11. QED
  BY <1>0, <1>3, <1>4, <1>5, <1>6, <1>7, <1>8, <1>9, <1>10

LEMMA ResponsesEvent ==
  ASSUME NEW d, ResponsesInv(d), NEW e, OnTheWire(e)
  PROVE  ResponsesGood(Responses!process_event(d, e))
<1> DEFINE next ==
             CASE e.kind = "response.created" -> Responses!created(d, e)
               [] e.kind = "response.in_progress" -> Responses!in_progress(d, e)
               [] e.kind = "response.output_item.added" -> Responses!output_item_added(d, e)
               [] e.kind = "response.content_part.added" -> Responses!content_part_added(d, e)
               [] e.kind = "response.output_text.delta" -> Responses!text_delta(d, e, "message")
               [] e.kind = "response.output_text.done" -> Responses!text_done(d, e, "message")
               [] e.kind = "response.reasoning_text.delta" -> Responses!text_delta(d, e, "reasoning")
               [] e.kind = "response.reasoning_text.done" -> Responses!text_done(d, e, "reasoning")
               [] e.kind = "response.content_part.done" -> Responses!content_part_done(d, e)
               [] e.kind = "response.function_call_arguments.delta" -> Responses!function_arguments_delta(d, e)
               [] e.kind = "response.function_call_arguments.done" -> Responses!function_arguments_done(d, e)
               [] e.kind = "response.output_item.done" -> Responses!output_item_done(d, e)
               [] e.kind = "response.completed" -> Responses!completed(d, e)
               [] e.kind \in {"response.failed", "response.incomplete"} -> Responses!failed(d, e)
               [] e.kind = "error" -> Responses!error(d, e)
           started == [next EXCEPT !.started = TRUE]
           r == Responses!process_event(d, e)
<1>0. DOMAIN d = ResponsesFields /\ d.terminal \in BOOLEAN
  BY DEF ResponsesInv
<1>1. \/ r = Responses!Poison(d)
      \/ ~d.terminal /\ r = IF next.poisoned THEN next ELSE started
  <2>1. r = IF d.terminal \/ ~e.known \/ (d.started /\ ~e.increasing) THEN Responses!Poison(d)
            ELSE IF next.poisoned THEN next ELSE started
    BY DEF Responses!process_event
  <2> HIDE DEF next, r
  <2>2. QED
    BY <2>1
<1>2. ASSUME d.terminal = FALSE PROVE ResponsesGood(next)
  <2>0. e.kind \in ResponsesKinds
    BY DEF OnTheWire
  <2>1. CASE e.kind = "response.created"
    <3>1. next = Responses!created(d, e)
      BY <2>1
    <3> HIDE DEF next
    <3>2. QED
      BY <1>2, <3>1, ResponsesCreated
  <2>2. CASE e.kind = "response.in_progress"
    <3>1. next = Responses!in_progress(d, e)
      BY <2>2
    <3> HIDE DEF next
    <3>2. QED
      BY <1>2, <3>1, ResponsesCreated
  <2>3. CASE e.kind = "response.output_item.added"
    <3>1. next = Responses!output_item_added(d, e)
      BY <2>3
    <3> HIDE DEF next
    <3>2. QED
      BY <1>2, <3>1, ResponsesItemAdded
  <2>4. CASE e.kind = "response.content_part.added"
    <3>1. next = Responses!content_part_added(d, e)
      BY <2>4
    <3>2. e.text \in Nat
      BY <2>4 DEF OnTheWire
    <3> HIDE DEF next
    <3>3. QED
      BY <1>2, <3>1, <3>2, ResponsesPartAdded
  <2>5. CASE e.kind \in {"response.output_text.delta", "response.reasoning_text.delta"}
    <3>1. next \in {Responses!text_delta(d, e, "message"), Responses!text_delta(d, e, "reasoning")}
      BY <2>5
    <3>2. e.text \in Nat
      BY <2>5 DEF OnTheWire
    <3> HIDE DEF next
    <3>3. ResponsesGood(Responses!text_delta(d, e, "message")) /\ ResponsesGood(Responses!text_delta(d, e, "reasoning"))
      BY <1>2, <3>2, ResponsesTextDelta
    <3>4. QED
      BY <3>1, <3>3
  <2>6. CASE e.kind \in {"response.output_text.done", "response.reasoning_text.done"}
    <3>1. \E t : next = Responses!text_done(d, e, t)
      BY <2>6
    <3> HIDE DEF next
    <3>2. QED
      BY <1>2, <3>1, ResponsesTextDone
  <2>7. CASE e.kind = "response.content_part.done"
    <3>1. next = Responses!content_part_done(d, e)
      BY <2>7
    <3> HIDE DEF next
    <3>2. QED
      BY <1>2, <3>1, ResponsesTextDone
  <2>8. CASE e.kind \in {"response.function_call_arguments.delta", "response.function_call_arguments.done"}
    <3>1. next \in {Responses!function_arguments_delta(d, e), Responses!function_arguments_done(d, e)}
      BY <2>8
    <3> HIDE DEF next
    <3>2. QED
      BY <1>2, <3>1, ResponsesArguments
  <2>9. CASE e.kind = "response.output_item.done"
    <3>1. next = Responses!output_item_done(d, e)
      BY <2>9
    <3> HIDE DEF next
    <3>2. QED
      BY <1>2, <3>1, ResponsesItemDone
  <2>10. CASE e.kind \in {"response.completed", "response.failed", "response.incomplete", "error"}
    <3>1. next \in {Responses!completed(d, e), Responses!failed(d, e), Responses!error(d, e)}
      BY <2>10
    <3> HIDE DEF next
    <3>2. QED
      BY <1>2, <3>1, ResponsesCompleted
  <2> HIDE DEF next
  <2>11. QED
    BY <2>0, <2>1, <2>2, <2>3, <2>4, <2>5, <2>6, <2>7, <2>8, <2>9, <2>10 DEF ResponsesKinds
<1> HIDE DEF next
<1>3. ASSUME d.terminal = FALSE PROVE ResponsesGood(started)
  <2>1. DOMAIN next = ResponsesFields
    BY <1>2, <1>3 DEF ResponsesGood
  <2>2. /\ DOMAIN started = ResponsesFields /\ started.items = next.items /\ started.events = next.events
        /\ started.terminal = next.terminal /\ started.poisoned = next.poisoned
    BY <2>1 DEF ResponsesFields
  <2> HIDE DEF started
  <2>3. QED
    BY <1>2, <1>3, <2>2, ResponsesCounted
<1> HIDE DEF started, r
<1>4. ResponsesGood(Responses!Poison(d))
  BY <1>0, ResponsesPoison
<1>5. QED
  BY <1>0, <1>1, <1>2, <1>3, <1>4 DEF r

LEMMA ResponsesFramed ==
  ASSUME NEW d, ResponsesInv(d), NEW e \in Responses!Wire, ~Responses!process_framed_event(d, e).poisoned
  PROVE  ResponsesInv(Responses!process_framed_event(d, e))
<1> DEFINE next == Responses!process_event(d, e)
           counted == [next EXCEPT !.processed = @ + 1]
           r == Responses!process_framed_event(d, e)
<1>1. r = IF ~next.poisoned /\ d.processed + 1 <= MaxEvents THEN counted ELSE Responses!Poison(next)
  BY DEF Responses!process_framed_event, Responses!Step
<1>2. ResponsesGood(next)
  BY ResponsesEvent, ResponsesWire
<1> HIDE DEF next
<1>3. DOMAIN next = ResponsesFields /\ Responses!Poison(next).poisoned = TRUE
  BY <1>2 DEF ResponsesGood, ResponsesFields, Responses!Poison
<1>4. ~next.poisoned /\ r = counted
  BY <1>1, <1>3
<1>5. /\ DOMAIN counted = ResponsesFields /\ counted.items = next.items /\ counted.events = next.events
      /\ counted.terminal = next.terminal /\ counted.poisoned = next.poisoned
  BY <1>3 DEF ResponsesFields
<1> HIDE DEF counted, r
<1>6. ResponsesGood(counted)
  BY <1>2, <1>5, ResponsesCounted
<1>7. ~counted.poisoned
  BY <1>4, <1>5
<1>8. QED
  BY <1>4, <1>6, <1>7 DEF ResponsesGood, r

-----------------------------------------------------------------------------
(* The decoder of the stream that is being read is in order.                *)

DecoderInv(dialect, d) ==
    /\ dialect = "responses" => ResponsesInv(d)
    /\ dialect = "chat_completions" => ChatInv(d)
    /\ dialect = "messages" => MessagesInv(d)

StreamInv ==
    /\ TransportInv
    /\ exchange.phase = "reading" =>
          /\ DOMAIN exchange = {"phase", "initial", "call", "decoder"}
          /\ DecoderInv(provider.dialect, exchange.decoder)

LEMMA StreamStarts ==
  ASSUME NEW dialect \in Dialects
  PROVE  DecoderInv(dialect, NewDecoder(dialect))
<1>1. CASE dialect = "responses"
  BY <1>1, ResponsesStart DEF DecoderInv, NewDecoder
<1>2. CASE dialect = "chat_completions"
  BY <1>2, ChatStart DEF DecoderInv, NewDecoder
<1>3. CASE dialect = "messages"
  BY <1>3, MessagesStart DEF DecoderInv, NewDecoder
<1>4. QED
  BY <1>1, <1>2, <1>3 DEF Dialects

LEMMA StreamReads ==
  ASSUME provider.dialect \in Dialects, NEW d, DecoderInv(provider.dialect, d), NEW e \in Wire,
         ~Decode(d, e).poisoned
  PROVE  DecoderInv(provider.dialect, Decode(d, e))
<1>1. CASE provider.dialect = "responses"
  <2>1. ResponsesInv(d) /\ e \in Responses!Wire /\ Decode(d, e) = Responses!process_framed_event(d, e)
    BY <1>1 DEF DecoderInv, Wire, Decode
  <2>2. ResponsesInv(Responses!process_framed_event(d, e))
    BY <2>1, ResponsesFramed
  <2>3. QED
    BY <1>1, <2>1, <2>2 DEF DecoderInv
<1>2. CASE provider.dialect = "chat_completions"
  <2>1. ChatInv(d) /\ Decode(d, e) = Chat!process_framed_event(d, e)
    BY <1>2 DEF DecoderInv, Decode
  <2>2. ChatInv(Chat!process_framed_event(d, e))
    BY <2>1, ChatFramed
  <2>3. QED
    BY <1>2, <2>1, <2>2 DEF DecoderInv
<1>3. CASE provider.dialect = "messages"
  <2>1. MessagesInv(d) /\ e \in Messages!Wire /\ Decode(d, e) = Messages!process_framed_event(d, e)
    BY <1>3 DEF DecoderInv, Wire, Decode
  <2>2. MessagesInv(Messages!process_framed_event(d, e))
    BY <2>1, MessagesFramed
  <2>3. QED
    BY <1>3, <2>1, <2>2 DEF DecoderInv
<1>4. QED
  BY <1>1, <1>2, <1>3 DEF Dialects

LEMMA StreamStep ==
  ASSUME StreamInv, [TransportNext]_transport_vars
  PROVE  StreamInv'
<1>1. TransportInv /\ TransportInv'
  BY TransportStep DEF StreamInv
<1> DEFINE Reading == /\ DOMAIN exchange = {"phase", "initial", "call", "decoder"}
                      /\ DecoderInv(provider.dialect, exchange.decoder)
<1> SUFFICES ASSUME exchange'.phase = "reading" PROVE Reading'
  BY <1>1 DEF StreamInv
<1>2. CASE exchange.phase = "reading" /\ exchange' = exchange /\ provider' = provider
  BY <1>2 DEF StreamInv
<1>3. CASE Configure
  <2>1. exchange.phase = "idle"
    BY <1>1, <1>3 DEF Configure, TransportInv, ProviderShape
  <2>2. exchange' = exchange
    BY <1>3 DEF Configure
  <2>3. QED
    BY <2>1, <2>2
<1>4. CASE \E request : Run(request)
  <2>1. exchange' = exchange \/ exchange' = [phase |-> "sending", initial |-> TRUE, call |-> <<>>]
    BY <1>4 DEF Run
  <2>2. exchange = NoExchange
    BY <1>4 DEF Run
  <2>3. QED
    BY <2>1, <2>2 DEF NoExchange
<1>5. CASE \E request, call : ContinueAfterTool(request, call)
  <2>1. exchange' = exchange \/ \E call : exchange' = [phase |-> "sending", initial |-> FALSE, call |-> <<call>>]
    BY <1>5 DEF ContinueAfterTool
  <2>2. exchange = NoExchange
    BY <1>5 DEF ContinueAfterTool
  <2>3. QED
    BY <2>1, <2>2 DEF NoExchange
<1>6. CASE \E e : Fail(e)
  BY <1>6 DEF Fail, NoExchange
<1>7. CASE SendSucceeds
  <2>1. provider' = provider /\ exchange.phase # "idle"
    BY <1>7 DEF SendSucceeds
  <2>2. provider.dialect \in Dialects
    BY <1>1, <2>1 DEF TransportInv, ProviderShape
  <2>3. exchange' = [phase |-> "reading", initial |-> exchange.initial, call |-> exchange.call,
                     decoder |-> NewDecoder(provider.dialect)]
    BY <1>7 DEF SendSucceeds
  <2>4. DOMAIN exchange' = {"phase", "initial", "call", "decoder"} /\ exchange'.decoder = NewDecoder(provider.dialect)
    BY <2>3
  <2>5. QED
    BY <2>1, <2>2, <2>4, StreamStarts
<1>8. CASE exchange.phase = "reading" /\ \E e \in Wire : Read(e)
  <2>1. PICK e \in Wire : Read(e)
    BY <1>8
  <2> DEFINE next == Decode(exchange.decoder, e)
  <2>2. \/ Fail("InvalidResponse")
        \/ ~next.poisoned /\ exchange' = [exchange EXCEPT !.decoder = next] /\ provider' = provider
    BY <2>1 DEF Read
  <2>3. /\ DOMAIN exchange = {"phase", "initial", "call", "decoder"}
        /\ DecoderInv(provider.dialect, exchange.decoder) /\ provider.dialect \in Dialects
    BY <1>1, <1>8 DEF StreamInv, TransportInv, ProviderShape
  <2>4. ~next.poisoned => DecoderInv(provider.dialect, next)
    BY <2>3, StreamReads
  <2> HIDE DEF next
  <2>5. CASE ~next.poisoned /\ exchange' = [exchange EXCEPT !.decoder = next] /\ provider' = provider
    <3>1. DOMAIN exchange' = {"phase", "initial", "call", "decoder"} /\ exchange'.decoder = next
      BY <2>3, <2>5
    <3>2. QED
      BY <2>4, <2>5, <3>1
  <2>6. QED
    BY <1>6, <2>2, <2>5
<1>9. CASE ReadFails
  BY <1>6, <1>9 DEF ReadFails
<1>10. CASE SendFails
  <2>1. \E answer : Fail(SendError(answer))
    BY <1>10 DEF SendFails
  <2>2. QED
    BY <1>6, <2>1
<1>11. CASE \E partial, known_tool : EndOfStream(partial, known_tool)
  <2>1. (\E e : Fail(e)) \/ exchange' = NoExchange
    BY <1>11 DEF EndOfStream
  <2>2. QED
    BY <1>6, <2>1 DEF NoExchange
<1>12. CASE UNCHANGED transport_vars
  BY <1>2, <1>12 DEF transport_vars
<1>13. QED
  BY <1>3, <1>4, <1>5, <1>7, <1>8, <1>9, <1>10, <1>11, <1>12 DEF TransportNext

\* A response that ends completed was handed on whole, in each of the three
\* dialects (the decoders' process_framed_event).
THEOREM CompletedStreams == TransportSpec => []CompletedStreamIsWhole
<1>1. TransportInit => StreamInv
  BY TransportStart DEF TransportInit, StreamInv, NoExchange
<1>2. StreamInv /\ [TransportNext]_transport_vars => StreamInv'
  BY StreamStep
<1>3. StreamInv => CompletedStreamIsWhole
  <2> SUFFICES ASSUME StreamInv, exchange.phase = "reading"
               PROVE  CASE provider.dialect = "responses" -> Responses!CompletedIsWhole(exchange.decoder)
                        [] provider.dialect = "chat_completions" -> Chat!CompletedIsWhole(exchange.decoder)
                        [] provider.dialect = "messages" -> Messages!CompletedIsWhole(exchange.decoder)
    BY DEF CompletedStreamIsWhole
  <2>1. provider.dialect \in Dialects /\ DecoderInv(provider.dialect, exchange.decoder)
    BY DEF StreamInv, TransportInv, ProviderShape
  <2>2. CASE provider.dialect = "responses"
    BY <2>1, <2>2, ResponsesWhole DEF DecoderInv
  <2>3. CASE provider.dialect = "chat_completions"
    BY <2>1, <2>3, ChatWhole DEF DecoderInv
  <2>4. CASE provider.dialect = "messages"
    BY <2>1, <2>4, MessagesWhole DEF DecoderInv
  <2>5. QED
    BY <2>1, <2>2, <2>3, <2>4 DEF Dialects
<1>4. QED
  BY <1>1, <1>2, <1>3, PTL DEF TransportSpec
-----------------------------------------------------------------------------
(* The App Server's connection.                                             *)

ConnectionSpec == ConnectionInit /\ [][ConnectionNext]_<<reader_vars, draft_vars>>

Bytes(bytes) == {bytes[i] : i \in DOMAIN bytes}
Consumed == Len(stream) - Len(sent)

\* What is left of the bytes after a position.
IsRest(bytes, pos, rest) ==
    /\ bytes \in Seq(Bytes(bytes)) /\ pos \in Nat /\ pos <= Len(bytes)
    /\ rest = SubSeq(bytes, pos + 1, Len(bytes))

\* Where the line begins that goes on at a position.
IsLineStart(bytes, b, pos) ==
    /\ b \in 1..pos + 1
    /\ b = 1 \/ b - 1 \in Newline(bytes)
    /\ \A j \in b..pos : j \notin Newline(bytes)

\* The newlines up to a position, and the line ends.
ReadTo(bytes, pos) == {i \in Newline(bytes) : i <= pos}
EndsTo(bytes, e) == {f \in Ends(bytes) : f <= e}

LineFrame(bytes, b, e) ==
    IF e - b > MaxRequest THEN TooLong ELSE Frame(SubSeq(bytes, b, e - 1))

\* What the loop keeps of the line that goes on.
IsKept(bytes, b, pos, l, long) ==
    IF pos - b + 1 > MaxRequest THEN long = TRUE /\ l = <<>>
    ELSE long = FALSE /\ l = SubSeq(bytes, b, pos)

\* Either the line that goes on is kept, after a frame for each newline, or the
\* input has ended and every line is a frame.
Reading ==
    /\ Len(frames) = Cardinality(ReadTo(stream, Consumed))
    /\ \E b \in Int : IsLineStart(stream, b, Consumed) /\ IsKept(stream, b, Consumed, line, too_long)
AllRead ==
    /\ sent = <<>> /\ line = <<>> /\ too_long = FALSE
    /\ Len(frames) = Cardinality(Ends(stream))

ReaderInv ==
    /\ IsRest(stream, Consumed, sent)
    /\ Len(frames) \in Nat /\ Len(frames) <= Cardinality(Ends(stream))
    /\ frames = [k \in 1..Len(frames) |-> Lines(stream)[k]]
    /\ Reading \/ AllRead

\* The number of a draft is its own, and what was committed keeps its number.
DraftsInv ==
    /\ next_draft_id \in Nat
    /\ \A d \in DOMAIN drafts : d \in Nat /\ d < next_draft_id
    /\ \A w \in rewritten :
        /\ w[2] = w[3]
        /\ w[1] \in Nat /\ w[1] < next_draft_id /\ w[1] \notin DOMAIN drafts
    /\ \A w, v \in rewritten : w[1] = v[1] => w = v

ConnectionInv == ReaderInv /\ DraftsInv

LEMMA SequenceIsFunction ==
    ASSUME NEW S, NEW s \in Seq(S)
    PROVE  Len(s) \in Nat /\ s = [k \in 1..Len(s) |-> s[k]]
  OBVIOUS

LEMMA SameSequence ==
    ASSUME NEW S, NEW u \in Seq(S), NEW v \in Seq(S), Len(u) = Len(v),
           \A k \in 1..Len(u) : u[k] = v[k]
    PROVE  u = v
  OBVIOUS

LEMMA PartOfBytes ==
    ASSUME NEW bytes, bytes \in Seq(Bytes(bytes)), NEW a \in Int, NEW b \in Int,
           0 <= a, a <= b, b <= Len(bytes)
    PROVE  /\ SubSeq(bytes, a + 1, b) \in Seq(Bytes(bytes)) /\ Len(SubSeq(bytes, a + 1, b)) = b - a
           /\ \A k \in 1..b - a : SubSeq(bytes, a + 1, b)[k] = bytes[a + k]
<1>1. \A k \in a + 1..b : bytes[k] \in Bytes(bytes)
  BY DEF Bytes
<1>2. /\ SubSeq(bytes, a + 1, b) \in Seq(Bytes(bytes))
      /\ Len(SubSeq(bytes, a + 1, b)) = IF a + 1 <= b THEN b - (a + 1) + 1 ELSE 0
      /\ \A k \in 1..b - (a + 1) + 1 : SubSeq(bytes, a + 1, b)[k] = bytes[(a + 1) + k - 1]
  BY <1>1, SubSeqProperties
<1>3. b - (a + 1) + 1 = b - a /\ \A k \in Int : (a + 1) + k - 1 = a + k
  OBVIOUS
<1> QED
  BY <1>2, <1>3

LEMMA RestFacts ==
    ASSUME NEW bytes, NEW pos, NEW rest, IsRest(bytes, pos, rest)
    PROVE  /\ rest \in Seq(Bytes(bytes)) /\ Len(rest) = Len(bytes) - pos
           /\ \A k \in 1..Len(bytes) - pos : rest[k] = bytes[pos + k]
<1>1. Len(bytes) \in Nat /\ pos \in Nat /\ pos <= Len(bytes) /\ bytes \in Seq(Bytes(bytes))
  BY DEF IsRest
<1> QED
  BY <1>1, PartOfBytes DEF IsRest

LEMMA RestParts ==
    ASSUME NEW bytes, NEW pos, NEW rest, IsRest(bytes, pos, rest), NEW n \in Nat, pos + n <= Len(bytes)
    PROVE  /\ SubSeq(rest, 1, n) = SubSeq(bytes, pos + 1, pos + n)
           /\ IsRest(bytes, pos + n, SubSeq(rest, n + 1, Len(rest)))
<1>1. Len(bytes) \in Nat /\ pos \in Nat /\ bytes \in Seq(Bytes(bytes))
  BY DEF IsRest
<1>2. /\ rest \in Seq(Bytes(bytes)) /\ Len(rest) = Len(bytes) - pos
      /\ \A k \in 1..Len(bytes) - pos : rest[k] = bytes[pos + k]
  BY RestFacts
<1>3. SubSeq(rest, 1, n) = SubSeq(bytes, pos + 1, pos + n)
  <2> DEFINE u == SubSeq(rest, 1, n)
             v == SubSeq(bytes, pos + 1, pos + n)
  <2>1. u \in Seq(Bytes(bytes)) /\ Len(u) = n /\ \A i \in 1..n : u[i] = rest[i]
    BY <1>1, <1>2, SubSeqProperties
  <2>2. v \in Seq(Bytes(bytes)) /\ Len(v) = n /\ \A i \in 1..n : v[i] = bytes[pos + i]
    BY <1>1, PartOfBytes
  <2>3. \A i \in 1..n : rest[i] = bytes[pos + i]
    BY <1>1, <1>2
  <2> HIDE DEF u, v
  <2>4. Len(u) = Len(v) /\ \A i \in 1..Len(u) : u[i] = v[i]
    BY <2>1, <2>2, <2>3
  <2>5. u = v
    BY <2>1, <2>2, <2>4, SameSequence
  <2> QED
    BY <2>5 DEF u, v
<1>4. SubSeq(rest, n + 1, Len(rest)) = SubSeq(bytes, pos + n + 1, Len(bytes))
  <2> DEFINE u == SubSeq(rest, n + 1, Len(rest))
             v == SubSeq(bytes, pos + n + 1, Len(bytes))
             m == Len(rest) - n
  <2>1. u \in Seq(Bytes(bytes)) /\ Len(u) = m /\ \A i \in 1..m : u[i] = rest[n + i]
    BY <1>1, <1>2, SubSeqProperties
  <2>2. v \in Seq(Bytes(bytes)) /\ Len(v) = m /\ \A i \in 1..m : v[i] = bytes[pos + n + i]
    BY <1>1, <1>2, PartOfBytes
  <2>3. ASSUME NEW i \in 1..m PROVE rest[n + i] = bytes[pos + n + i]
    <3>1. n + i \in 1..Len(bytes) - pos /\ pos + (n + i) = pos + n + i
      <4>1. Len(bytes) \in Nat /\ pos \in Nat /\ n \in Nat /\ i \in 1..(Len(bytes) - pos) - n
        BY <1>1, <1>2
      <4> QED
        BY <4>1
    <3> QED
      BY <1>2, <3>1
  <2> HIDE DEF u, v, m
  <2>4. Len(u) = Len(v) /\ \A i \in 1..Len(u) : u[i] = v[i]
    BY <2>1, <2>2, <2>3
  <2>5. u = v
    BY <2>1, <2>2, <2>4, SameSequence
  <2> QED
    BY <2>5 DEF u, v
<1> QED
  BY <1>1, <1>3, <1>4 DEF IsRest

LEMMA EndsAreFinite ==
    ASSUME NEW bytes, bytes \in Seq(Bytes(bytes))
    PROVE  /\ Newline(bytes) \subseteq 1..Len(bytes) /\ Ends(bytes) \subseteq 1..Len(bytes) + 1
           /\ Newline(bytes) \subseteq Ends(bytes)
           /\ IsFiniteSet(Newline(bytes)) /\ IsFiniteSet(Ends(bytes))
           /\ Cardinality(Ends(bytes)) \in Nat
<1>1. Len(bytes) \in Nat /\ DOMAIN bytes = 1..Len(bytes)
  OBVIOUS
<1>2. Newline(bytes) \subseteq 1..Len(bytes) /\ Newline(bytes) \subseteq Ends(bytes)
  BY <1>1 DEF Newline, Ends
<1>3. Ends(bytes) \subseteq 1..Len(bytes) + 1
  BY <1>1, <1>2 DEF Ends
<1>4. IsFiniteSet(1..Len(bytes) + 1)
  BY <1>1, FS_Interval
<1>5. IsFiniteSet(Ends(bytes))
  BY <1>3, <1>4, FS_Subset
<1>6. IsFiniteSet(Newline(bytes))
  BY <1>2, <1>5, FS_Subset
<1> QED
  BY <1>2, <1>3, <1>5, <1>6, FS_CardinalityType

\* Counting the ends up to one of them gives it its number.
LEMMA EndHasNumber ==
    ASSUME NEW bytes, bytes \in Seq(Bytes(bytes)), NEW e \in Ends(bytes)
    PROVE  /\ Nth(Ends(bytes), Cardinality(EndsTo(bytes, e))) = e
           /\ Cardinality(EndsTo(bytes, e)) \in 1..Cardinality(Ends(bytes))
<1> DEFINE s == Ends(bytes)
<1>1. s \subseteq 1..Len(bytes) + 1 /\ IsFiniteSet(s) /\ Cardinality(s) \in Nat /\ Len(bytes) \in Nat
  BY EndsAreFinite
<1>2. \A f : EndsTo(bytes, f) \subseteq s
  BY DEF EndsTo
<1>3. \A f : IsFiniteSet(EndsTo(bytes, f)) /\ Cardinality(EndsTo(bytes, f)) \in Nat
             /\ Cardinality(EndsTo(bytes, f)) <= Cardinality(s)
  BY <1>1, <1>2, FS_Subset, FS_CardinalityType
<1>4. ASSUME NEW x \in s, NEW y \in s, x < y
      PROVE  Cardinality(EndsTo(bytes, x)) # Cardinality(EndsTo(bytes, y))
  <2>1. EndsTo(bytes, x) \subseteq EndsTo(bytes, y)
    BY <1>1, <1>4 DEF EndsTo
  <2>2. y \in EndsTo(bytes, y) /\ y \notin EndsTo(bytes, x)
    BY <1>1, <1>4 DEF EndsTo
  <2> QED
    BY <1>3, <2>1, <2>2, FS_Subset
<1>5. \A x \in s : Cardinality(EndsTo(bytes, x)) = Cardinality(EndsTo(bytes, e)) => x = e
  BY <1>1, <1>4
<1>6. Nth(s, Cardinality(EndsTo(bytes, e))) = e
  BY <1>5 DEF Nth, EndsTo
<1>7. Cardinality(EndsTo(bytes, e)) # 0
  <2>1. e \in EndsTo(bytes, e)
    BY <1>1 DEF EndsTo
  <2> QED
    BY <1>3, <2>1, FS_EmptySet
<1> QED
  BY <1>1, <1>3, <1>6, <1>7

\* The line a client ended at e, by its number.
LEMMA NumberedLine ==
    ASSUME NEW bytes, bytes \in Seq(Bytes(bytes)), NEW e \in Ends(bytes), NEW b \in Int,
           IsLineStart(bytes, b, e - 1)
    PROVE  Lines(bytes)[Cardinality(EndsTo(bytes, e))] = LineFrame(bytes, b, e)
<1> DEFINE before == {i \in Newline(bytes) : i < e}
           top == CHOOSE i \in before : \A j \in before : j <= i
           start == IF before = {} THEN 1 ELSE 1 + top
<1>1. Newline(bytes) \subseteq 1..Len(bytes) /\ e \in 1..Len(bytes) + 1 /\ Len(bytes) \in Nat
  BY EndsAreFinite
<1>2. b \in 1..e /\ (b = 1 \/ b - 1 \in Newline(bytes)) /\ \A j \in b..e - 1 : j \notin Newline(bytes)
  BY <1>1 DEF IsLineStart
<1>3. \A j \in before : j <= b - 1
  BY <1>1, <1>2
<1>4. start = b
  <2>1. CASE b = 1
    <3>1. before = {}
      BY <1>1, <1>3, <2>1
    <3> QED
      BY <2>1, <3>1
  <2>2. CASE b # 1
    <3>1. b - 1 \in before
      BY <1>1, <1>2, <2>2
    <3>2. top = b - 1
      <4>1. \A i \in before : (\A j \in before : j <= i) => i = b - 1
        BY <1>1, <1>2, <1>3, <3>1
      <4> QED
        BY <1>3, <3>1, <4>1
    <3>3. before # {}
      BY <3>1
    <3> HIDE DEF before, top
    <3>4. 1 + (b - 1) = b
      BY <1>2
    <3> QED
      BY <3>2, <3>3, <3>4
  <2> QED
    BY <2>1, <2>2
<1>5. LineEnding(bytes, e) = SubSeq(bytes, b, e - 1)
  <2>1. LineEnding(bytes, e) = SubSeq(bytes, start, e - 1)
    BY Zenon DEF LineEnding
  <2> HIDE DEF start
  <2> QED
    BY <1>4, <2>1
<1>6. Len(SubSeq(bytes, b, e - 1)) = e - b
  <2>1. b \in Nat /\ e \in Nat /\ b <= e /\ e - 1 \in Int
    BY <1>1, <1>2
  <2> QED
    BY <1>1, <2>1, SubSeqProperties
<1>7. /\ Nth(Ends(bytes), Cardinality(EndsTo(bytes, e))) = e
      /\ Cardinality(EndsTo(bytes, e)) \in 1..Cardinality(Ends(bytes))
  BY EndHasNumber
<1> QED
  BY <1>5, <1>6, <1>7 DEF Lines, LineFrame

\* No newline among the next bytes: the line goes on.
LEMMA LineGoesOn ==
    ASSUME NEW bytes, bytes \in Seq(Bytes(bytes)), NEW pos \in Nat, NEW n \in Nat,
           pos + n <= Len(bytes), \A j \in pos + 1..pos + n : j \notin Newline(bytes),
           NEW b \in Int, IsLineStart(bytes, b, pos)
    PROVE  IsLineStart(bytes, b, pos + n) /\ ReadTo(bytes, pos + n) = ReadTo(bytes, pos)
<1>1. Newline(bytes) \subseteq 1..Len(bytes) /\ Len(bytes) \in Nat
  BY EndsAreFinite
<1>2. IsLineStart(bytes, b, pos + n)
  BY <1>1 DEF IsLineStart
<1>3. ReadTo(bytes, pos + n) = ReadTo(bytes, pos)
  BY <1>1 DEF ReadTo
<1> QED
  BY <1>2, <1>3

\* A newline, the first of the bytes that come next, ends the line.
LEMMA LineIsEnded ==
    ASSUME NEW bytes, bytes \in Seq(Bytes(bytes)), NEW pos \in Nat, NEW e \in Newline(bytes),
           pos < e, \A j \in pos + 1..e - 1 : j \notin Newline(bytes)
    PROVE  /\ IsLineStart(bytes, e + 1, e)
           /\ Cardinality(ReadTo(bytes, e)) = Cardinality(ReadTo(bytes, pos)) + 1
           /\ EndsTo(bytes, e) = ReadTo(bytes, e)
<1>1. /\ Newline(bytes) \subseteq 1..Len(bytes) /\ Len(bytes) \in Nat /\ IsFiniteSet(Newline(bytes))
      /\ Newline(bytes) \subseteq Ends(bytes)
  BY EndsAreFinite
<1>2. IsLineStart(bytes, e + 1, e)
  BY <1>1 DEF IsLineStart
<1>3. ReadTo(bytes, e) = ReadTo(bytes, pos) \cup {e} /\ e \notin ReadTo(bytes, pos)
  BY <1>1 DEF ReadTo
<1>4. IsFiniteSet(ReadTo(bytes, pos))
  <2>1. ReadTo(bytes, pos) \subseteq Newline(bytes)
    BY DEF ReadTo
  <2> QED
    BY <1>1, <2>1, FS_Subset
<1>5. Cardinality(ReadTo(bytes, e)) = Cardinality(ReadTo(bytes, pos)) + 1
  BY <1>3, <1>4, FS_AddElement
<1>6. EndsTo(bytes, e) = ReadTo(bytes, e)
  BY <1>1 DEF EndsTo, ReadTo, Ends
<1> QED
  BY <1>2, <1>5, <1>6

\* What the loop keeps, when the next bytes have no newline.
LEMMA KeptGoesOn ==
    ASSUME NEW bytes, bytes \in Seq(Bytes(bytes)), NEW pos \in Nat, NEW n \in Nat,
           pos + n <= Len(bytes), NEW b \in Int, IsLineStart(bytes, b, pos),
           IsKept(bytes, b, pos, line, too_long), NEW payload,
           payload = SubSeq(bytes, pos + 1, pos + n)
    PROVE  IsKept(bytes, b, pos + n, kept(payload), overflow(payload))
<1>1. Len(bytes) \in Nat /\ b \in 1..pos + 1 /\ MaxRequest \in Nat
  BY ConnectionAssumption DEF IsLineStart
<1>2. Len(payload) = n /\ payload \in Seq(Bytes(bytes))
  BY <1>1, SubSeqProperties DEF Bytes
<1>3. CASE pos - b + 1 > MaxRequest
  <2>1. too_long = TRUE /\ pos + n - b + 1 > MaxRequest
    BY <1>1, <1>3 DEF IsKept
  <2> QED
    BY <2>1 DEF IsKept, kept, overflow
<1>4. CASE ~(pos - b + 1 > MaxRequest)
  <2>1. too_long = FALSE /\ line = SubSeq(bytes, b, pos)
    BY <1>4 DEF IsKept
  <2>2. Len(line) = pos - b + 1
    BY <1>1, <2>1, SubSeqProperties DEF Bytes
  <2>3. Len(line) + Len(payload) > MaxRequest <=> pos + n - b + 1 > MaxRequest
    BY <1>1, <1>2, <2>2
  <2>4. line \o payload = SubSeq(bytes, b, pos + n)
    BY <1>1, <2>1, ConcatAdjacentSubSeq
  <2>5. CASE pos + n - b + 1 > MaxRequest
    BY <2>1, <2>3, <2>5 DEF IsKept, kept, overflow
  <2>6. CASE ~(pos + n - b + 1 > MaxRequest)
    <3>1. ~too_long /\ ~(Len(line) + Len(payload) > MaxRequest)
      BY <2>1, <2>3, <2>6
    <3>2. overflow(payload) = FALSE
      BY <3>1 DEF overflow
    <3>3. kept(payload) = SubSeq(bytes, b, pos + n)
      BY <2>4, <3>1 DEF kept
    <3> QED
      BY <2>6, <3>2, <3>3 DEF IsKept
  <2> QED
    BY <2>5, <2>6
<1> QED
  BY <1>3, <1>4

\* The frame of what is kept is the frame of the line.
LEMMA KeptIsFramed ==
    ASSUME NEW bytes, NEW b \in Int, NEW pos \in Int, NEW l, NEW long, IsKept(bytes, b, pos, l, long)
    PROVE  (IF long THEN TooLong ELSE Frame(l)) = LineFrame(bytes, b, pos + 1)
<1>1. (pos + 1) - b > MaxRequest <=> pos - b + 1 > MaxRequest
  BY (pos + 1) - b = pos - b + 1
<1>2. (pos + 1) - 1 = pos
  OBVIOUS
<1> QED
  BY <1>1, <1>2 DEF IsKept, LineFrame

\* One more frame, for the line that ends at e.
LEMMA OneMoreFrame ==
    ASSUME ReaderInv, NEW e \in Ends(stream), NEW b \in Int, IsLineStart(stream, b, e - 1),
           Cardinality(EndsTo(stream, e)) = Len(frames) + 1,
           UNCHANGED stream, frames' = Append(frames, LineFrame(stream, b, e))
    PROVE  /\ Len(frames') = Len(frames) + 1 /\ Len(frames') <= Cardinality(Ends(stream))
           /\ frames' = [k \in 1..Len(frames') |-> Lines(stream)[k]]
<1> DEFINE n == Len(frames)
<1>1. stream \in Seq(Bytes(stream)) /\ n \in Nat /\ frames = [k \in 1..n |-> Lines(stream)[k]]
  BY DEF ReaderInv, IsRest
<1>2. Lines(stream)[n + 1] = LineFrame(stream, b, e)
  BY <1>1, NumberedLine
<1>3. n + 1 \in 1..Cardinality(Ends(stream))
  BY <1>1, EndHasNumber
<1>4. frames' = [k \in 1..n + 1 |-> IF k = n + 1 THEN LineFrame(stream, b, e) ELSE Lines(stream)[k]]
  <2> DEFINE v == LineFrame(stream, b, e)
             S == {Lines(stream)[k] : k \in 1..n} \cup {v}
  <2>1. frames \in Seq(S)
    BY <1>1
  <2>2. v \in S
    OBVIOUS
  <2>3. /\ frames' \in Seq(S) /\ Len(frames') = n + 1 /\ frames'[n + 1] = v
        /\ \A k \in 1..n : frames'[k] = frames[k]
    <3> HIDE DEF S, v
    <3>1. frames' = Append(frames, v)
      BY DEF v
    <3> QED
      BY <2>1, <2>2, <3>1, AppendProperties
  <2>4. \A k \in 1..n : frames[k] = Lines(stream)[k]
    BY <1>1
  <2> HIDE DEF S, v
  <2>5. frames' = [k \in 1..n + 1 |-> frames'[k]]
    <3>1. frames' = [k \in 1..Len(frames') |-> frames'[k]]
      BY <2>3, SequenceIsFunction
    <3> QED
      BY <2>3, <3>1
  <2>6. \A k \in 1..n + 1 : frames'[k] = IF k = n + 1 THEN v ELSE Lines(stream)[k]
    BY <1>1, <2>3, <2>4
  <2> QED
    BY <2>5, <2>6 DEF v
<1>5. frames' = [k \in 1..n + 1 |-> Lines(stream)[k]]
  BY <1>1, <1>2, <1>4
<1>6. Len(frames') = n + 1
  BY <1>1, <1>5
<1> QED
  BY <1>1, <1>3, <1>5, <1>6, EndsAreFinite

\* The newlines of the bytes that come next are the stream's.
LEMMA AvailableNewlines ==
    ASSUME NEW bytes, NEW pos, NEW rest, IsRest(bytes, pos, rest), NEW n \in Nat, n <= Len(rest)
    PROVE  /\ pos \in Nat /\ pos + n <= Len(bytes) /\ Len(bytes) \in Nat
           /\ bytes \in Seq(Bytes(bytes)) /\ Len(SubSeq(rest, 1, n)) = n
           /\ Newline(SubSeq(rest, 1, n)) = {j \in 1..n : pos + j \in Newline(bytes)}
<1>1. Len(bytes) \in Nat /\ pos \in Nat /\ pos <= Len(bytes) /\ bytes \in Seq(Bytes(bytes))
      /\ DOMAIN bytes = 1..Len(bytes)
  BY DEF IsRest
<1>2. Len(rest) = Len(bytes) - pos
  BY RestFacts
<1>3. pos + n <= Len(bytes)
  BY <1>1, <1>2
<1> DEFINE u == SubSeq(rest, 1, n)
<1>4. u = SubSeq(bytes, pos + 1, pos + n)
  BY <1>3, RestParts
<1> HIDE DEF u
<1>5. u \in Seq(Bytes(bytes)) /\ Len(u) = n /\ \A k \in 1..n : u[k] = bytes[pos + k]
  <2> DEFINE w == SubSeq(bytes, pos + 1, pos + n)
  <2>1. 0 <= pos /\ pos <= pos + n /\ pos + n \in Int /\ pos \in Int /\ (pos + n) - pos = n
    BY <1>1
  <2>2. /\ w \in Seq(Bytes(bytes)) /\ Len(w) = (pos + n) - pos
        /\ \A k \in 1..(pos + n) - pos : w[k] = bytes[pos + k]
    BY <1>1, <1>3, <2>1, PartOfBytes
  <2> HIDE DEF w
  <2>3. u = w
    BY <1>4 DEF w
  <2> QED
    BY <2>1, <2>2, <2>3
<1>6. DOMAIN u = 1..n
  BY <1>1, <1>5
<1>7. Newline(u) = {j \in 1..n : pos + j \in Newline(bytes)}
  BY <1>1, <1>3, <1>5, <1>6 DEF Newline
<1> QED
  BY <1>1, <1>3, <1>5, <1>6, <1>7 DEF u

LEMMA AvailableIsBytes ==
    ASSUME NEW bytes, NEW pos, NEW rest, IsRest(bytes, pos, rest), NEW n \in Nat, n <= Len(rest)
    PROVE  SubSeq(rest, 1, n) \in Seq(Bytes(bytes))
<1>1. rest \in Seq(Bytes(bytes))
  BY RestFacts
<1>2. \A k \in 1..n : rest[k] \in Bytes(bytes)
  BY <1>1
<1> QED
  BY <1>2, SubSeqProperties

LEMMA LineGoesOnKeeps ==
    ASSUME ReaderInv, Reading, NEW n \in 1..Len(sent), Newline(SubSeq(sent, 1, n)) = {},
           stream' = stream, frames' = frames, sent' = SubSeq(sent, n + 1, Len(sent)),
           line' = kept(SubSeq(sent, 1, n)), too_long' = overflow(SubSeq(sent, 1, n))
    PROVE  ReaderInv'
<1> DEFINE pos == Consumed
<1>1. IsRest(stream, pos, sent)
  BY DEF ReaderInv
<1>2. PICK b \in Int : IsLineStart(stream, b, pos) /\ IsKept(stream, b, pos, line, too_long)
  BY DEF Reading
<1>3. Len(frames) = Cardinality(ReadTo(stream, pos))
  BY DEF Reading
<1>4. Len(sent) = Len(stream) - pos
  BY <1>1, RestFacts
<1> HIDE DEF pos
<1>5. n \in Nat /\ n <= Len(sent)
  BY <1>1, RestFacts
<1>6. /\ pos \in Nat /\ pos + n <= Len(stream) /\ Len(stream) \in Nat /\ stream \in Seq(Bytes(stream))
      /\ {j \in 1..n : pos + j \in Newline(stream)} = {}
  BY <1>1, <1>5, AvailableNewlines
<1>7. SubSeq(sent, 1, n) = SubSeq(stream, pos + 1, pos + n) /\ IsRest(stream, pos + n, sent')
  <2>1. pos + n <= Len(stream)
    BY <1>6
  <2>2. /\ SubSeq(sent, 1, n) = SubSeq(stream, pos + 1, pos + n)
        /\ IsRest(stream, pos + n, SubSeq(sent, n + 1, Len(sent)))
    BY <1>1, <1>5, <2>1, RestParts
  <2>3. sent' = SubSeq(sent, n + 1, Len(sent))
    OBVIOUS
  <2> QED
    BY <2>2, <2>3
<1>8. Consumed' = pos + n
  <2>1. Len(sent') = Len(stream) - (pos + n)
    BY <1>7, RestFacts
  <2>2. Consumed' = Len(stream) - Len(sent')
    BY DEF Consumed
  <2>3. pos + n \in Int /\ Len(stream) \in Int
    BY <1>5, <1>6
  <2> QED
    BY <2>1, <2>2, <2>3
<1>9. \A j \in pos + 1..pos + n : j \notin Newline(stream)
  <2>1. ASSUME NEW j \in pos + 1..pos + n PROVE j \notin Newline(stream)
    <3>1. j - pos \in 1..n /\ pos + (j - pos) = j
      BY <1>5, <1>6
    <3> QED
      BY <1>6, <3>1
  <2> QED
    BY <2>1
<1>10. IsLineStart(stream, b, pos + n) /\ ReadTo(stream, pos + n) = ReadTo(stream, pos)
  BY <1>2, <1>5, <1>6, <1>9, LineGoesOn
<1>11. IsKept(stream, b, pos + n, line', too_long')
  BY <1>2, <1>5, <1>6, <1>7, KeptGoesOn
<1>12. Reading'
  BY <1>3, <1>8, <1>10, <1>11 DEF Reading
<1> QED
  BY <1>7, <1>8, <1>12 DEF ReaderInv

LEMMA LineEndsKeeps ==
    ASSUME ReaderInv, Reading, NEW n \in 1..Len(sent), NEW i \in Newline(SubSeq(sent, 1, n)),
           \A j \in Newline(SubSeq(sent, 1, n)) : i <= j,
           NEW payload, payload = SubSeq(SubSeq(sent, 1, n), 1, i - 1),
           stream' = stream, sent' = SubSeq(sent, i + 1, Len(sent)), line' = <<>>, too_long' = FALSE,
           frames' = Append(frames, IF overflow(payload) THEN TooLong ELSE Frame(kept(payload)))
    PROVE  ReaderInv'
<1> DEFINE pos == Consumed
           e == pos + i
<1>1. IsRest(stream, pos, sent)
  BY DEF ReaderInv
<1>2. PICK b \in Int : IsLineStart(stream, b, pos) /\ IsKept(stream, b, pos, line, too_long)
  BY DEF Reading
<1>3. Len(frames) = Cardinality(ReadTo(stream, pos))
  BY DEF Reading
<1>4. Len(sent) = Len(stream) - pos
  BY <1>1, RestFacts
<1> HIDE DEF pos
<1>5. n \in Nat /\ n <= Len(sent)
  BY <1>1, RestFacts
<1>6. /\ pos \in Nat /\ pos + n <= Len(stream) /\ Len(stream) \in Nat /\ stream \in Seq(Bytes(stream))
      /\ Newline(SubSeq(sent, 1, n)) = {j \in 1..n : pos + j \in Newline(stream)}
  BY <1>1, <1>5, AvailableNewlines
<1>7. i \in 1..n /\ e \in Newline(stream) /\ \A j \in 1..n : pos + j \in Newline(stream) => i <= j
  BY <1>6
<1>8. /\ e \in Nat /\ pos < e /\ e <= Len(stream) /\ e - 1 = pos + (i - 1) /\ (e - 1) + 1 = e
      /\ i \in Nat /\ i - 1 \in Nat /\ pos + i = e /\ pos + (i - 1) <= Len(stream)
  BY <1>5, <1>6, <1>7
<1> HIDE DEF e
<1>9. payload = SubSeq(stream, pos + 1, pos + (i - 1))
  <2>1. IsRest(sent, 0, sent)
    <3>1. sent \in Seq(Bytes(stream))
      BY <1>1, RestFacts
    <3>2. sent \in Seq(Bytes(sent)) /\ Len(sent) \in Nat
      BY <3>1 DEF Bytes
    <3>3. SubSeq(sent, 1, Len(sent)) = sent
      BY <3>2, SubSeqFull
    <3> QED
      BY <3>2, <3>3 DEF IsRest
  <2> DEFINE m == i - 1
             u == SubSeq(SubSeq(sent, 1, n), 1, m)
             v == SubSeq(sent, 1, m)
  <2>2. /\ SubSeq(sent, 1, n) \in Seq(Bytes(sent)) /\ Len(SubSeq(sent, 1, n)) = n
        /\ \A k \in 1..n : SubSeq(sent, 1, n)[k] = sent[k]
    <3>1. sent \in Seq(Bytes(sent))
      BY <2>1 DEF IsRest
    <3> QED
      BY <1>5, <3>1, SubSeqProperties
  <2>3. u \in Seq(Bytes(sent)) /\ Len(u) = m /\ \A k \in 1..m : u[k] = sent[k]
    <3> DEFINE w == SubSeq(sent, 1, n)
    <3> HIDE DEF w
    <3>1. w \in Seq(Bytes(sent)) /\ Len(w) = n /\ \A k \in 1..n : w[k] = sent[k]
      BY <2>2 DEF w
    <3>2. \A k \in 1..m : w[k] \in Bytes(sent) /\ w[k] = sent[k]
      <4>1. 1..m \subseteq 1..n
        BY <1>5, <1>7
      <4>2. \A k \in 1..n : w[k] \in Bytes(sent)
        BY <3>1
      <4> QED
        BY <3>1, <4>1, <4>2
    <3>3. /\ SubSeq(w, 1, m) \in Seq(Bytes(sent)) /\ Len(SubSeq(w, 1, m)) = m
          /\ \A k \in 1..m : SubSeq(w, 1, m)[k] = w[k]
      BY <1>8, <3>2, SubSeqProperties
    <3> QED
      BY <3>2, <3>3 DEF w
  <2>4. v \in Seq(Bytes(sent)) /\ Len(v) = m /\ \A k \in 1..m : v[k] = sent[k]
    <3>1. sent \in Seq(Bytes(sent))
      BY <2>1 DEF IsRest
    <3>2. \A k \in 1..m : sent[k] \in Bytes(sent)
      <4>1. 1..m \subseteq 1..Len(sent) /\ Len(sent) \in Nat
        BY <1>5, <1>7, <3>1
      <4>2. \A k \in 1..Len(sent) : sent[k] \in Bytes(sent)
        BY <3>1
      <4> QED
        BY <4>1, <4>2
    <3>3. m \in Nat
      BY <1>8
    <3> HIDE DEF m
    <3> QED
      BY <3>2, <3>3, SubSeqProperties
  <2>5. u = v
    <3> HIDE DEF u, v, m
    <3>1. Len(u) = Len(v) /\ \A k \in 1..Len(u) : u[k] = v[k]
      BY <2>3, <2>4
    <3> QED
      BY <2>3, <2>4, <3>1, SameSequence
  <2>6. v = SubSeq(stream, pos + 1, pos + m)
    <3>1. m \in Nat /\ pos + m <= Len(stream)
      BY <1>8
    <3> HIDE DEF m
    <3> QED
      BY <1>1, <3>1, RestParts
  <2>7. payload = u
    OBVIOUS
  <2> HIDE DEF u, v
  <2> QED
    BY <2>5, <2>6, <2>7
<1>10. IsRest(stream, e, sent')
  BY <1>1, <1>8, RestParts
<1>11. Consumed' = e
  <2>1. Len(sent') = Len(stream) - e
    BY <1>10, RestFacts
  <2>2. Consumed' = Len(stream) - Len(sent')
    BY DEF Consumed
  <2>3. e \in Int /\ Len(stream) \in Int
    BY <1>6, <1>8
  <2> QED
    BY <2>1, <2>2, <2>3
<1>12. \A j \in pos + 1..e - 1 : j \notin Newline(stream)
  <2>1. ASSUME NEW j \in pos + 1..e - 1, j \in Newline(stream) PROVE FALSE
    <3>1. j - pos \in 1..n /\ pos + (j - pos) = j /\ j - pos < i
      BY <1>5, <1>6, <1>7, <1>8
    <3>2. i <= j - pos
      BY <1>7, <2>1, <3>1
    <3> QED
      BY <1>6, <1>8, <3>1, <3>2
  <2> QED
    BY <2>1
<1>13. /\ IsLineStart(stream, e + 1, e) /\ Cardinality(ReadTo(stream, e)) = Len(frames) + 1
       /\ Cardinality(EndsTo(stream, e)) = Len(frames) + 1
  BY <1>3, <1>6, <1>7, <1>8, <1>12, LineIsEnded
<1>14. IsLineStart(stream, b, e - 1)
  BY <1>2, <1>6, <1>8, <1>12, LineGoesOn
<1>15. IsKept(stream, b, e - 1, kept(payload), overflow(payload))
  BY <1>2, <1>6, <1>8, <1>9, KeptGoesOn
<1>16. frames' = Append(frames, LineFrame(stream, b, e))
  <2>1. e - 1 \in Int
    BY <1>8
  <2>2. (IF overflow(payload) THEN TooLong ELSE Frame(kept(payload))) = LineFrame(stream, b, (e - 1) + 1)
    BY <1>15, <2>1, KeptIsFramed
  <2> QED
    BY <1>8, <2>2
<1>17. e \in Ends(stream)
  BY <1>6, <1>7, EndsAreFinite
<1>18. /\ Len(frames') = Len(frames) + 1 /\ Len(frames') <= Cardinality(Ends(stream))
       /\ frames' = [k \in 1..Len(frames') |-> Lines(stream)[k]]
  BY <1>13, <1>14, <1>16, <1>17, OneMoreFrame
<1>19. IsKept(stream, e + 1, e, line', too_long')
  <2>1. e - (e + 1) + 1 = 0
    BY <1>8
  <2>2. SubSeq(stream, e + 1, e) = <<>>
    BY <1>8, SubSeqEmpty
  <2>3. ~(0 > MaxRequest)
    BY ConnectionAssumption
  <2> QED
    BY <2>1, <2>2, <2>3 DEF IsKept
<1>20. Reading'
  <2>1. e + 1 \in Int
    BY <1>8
  <2> QED
    BY <1>11, <1>13, <1>18, <1>19, <2>1 DEF Reading
<1>21. Len(frames) \in Nat
  BY DEF ReaderInv
<1> QED
  BY <1>10, <1>11, <1>18, <1>20, <1>21 DEF ReaderInv

LEMMA FillKeeps ==
    ASSUME ReaderInv, NEW n \in 1..Len(sent), FillBuf(n)
    PROVE  ReaderInv'
<1> DEFINE available == SubSeq(sent, 1, n)
           ends == Newline(available)
           i == First(ends)
           payload == IF ends = {} THEN available ELSE SubSeq(available, 1, i - 1)
           rest == IF ends = {} THEN Len(payload) + 1 ELSE Len(payload) + 2
<1>1. /\ sent' = SubSeq(sent, rest, Len(sent)) /\ stream' = stream
      /\ IF ends = {}
         THEN line' = kept(payload) /\ too_long' = overflow(payload) /\ frames' = frames
         ELSE /\ frames' = Append(frames, IF overflow(payload) THEN TooLong ELSE Frame(kept(payload)))
              /\ line' = <<>> /\ too_long' = FALSE
  BY Zenon DEF FillBuf
<1>2. IsRest(stream, Consumed, sent)
  BY DEF ReaderInv
<1>3. n \in Nat /\ n <= Len(sent) /\ n # 0
  BY <1>2, RestFacts
<1>4. Reading
  <2>1. sent # <<>>
    BY <1>3
  <2> QED
    BY <2>1 DEF ReaderInv, AllRead
<1>5. Len(available) = n /\ ends \subseteq 1..n
  BY <1>2, <1>3, AvailableNewlines
<1>6. CASE ends = {}
  <2>1. payload = available
    BY <1>6
  <2>2. rest = n + 1
    BY <1>5, <1>6
  <2> HIDE DEF rest, payload
  <2> QED
    BY <1>1, <1>4, <1>6, <2>1, <2>2, LineGoesOnKeeps
<1>7. CASE ends # {}
  <2>1. i \in ends /\ \A j \in ends : i <= j
    <3>1. ends \subseteq Nat
      BY <1>5
    <3>2. \E j \in ends : \A k \in ends : j <= k
      BY <1>7, <3>1, LeastNat
    <3> QED
      BY <3>2 DEF First
  <2>2. payload = SubSeq(available, 1, i - 1)
    BY <1>7
  <2>3. rest = i + 1
    <3> HIDE DEF payload, i, available, ends
    <3>1. i \in 1..n
      BY <1>5, <2>1
    <3>2. available \in Seq(Bytes(stream))
      BY <1>2, <1>3, AvailableIsBytes DEF available
    <3>3. Len(payload) = i - 1
      BY <1>3, <1>5, <2>2, <3>1, <3>2, SubSeqProperties
    <3> QED
      BY <1>7, <3>1, <3>3 DEF rest
  <2> HIDE DEF rest, payload, i
  <2> QED
    BY <1>1, <1>4, <1>7, <2>1, <2>2, <2>3, LineEndsKeeps
<1> QED
  BY <1>6, <1>7

LEMMA EndOfInputKeeps ==
    ASSUME ReaderInv, EndOfInput
    PROVE  ReaderInv'
<1> DEFINE e == Len(stream) + 1
<1>1. /\ sent = <<>> /\ (line # <<>> \/ too_long)
      /\ frames' = Append(frames, IF too_long THEN TooLong ELSE Frame(line))
      /\ line' = <<>> /\ too_long' = FALSE /\ sent' = sent /\ stream' = stream
  BY DEF EndOfInput
<1>2. stream \in Seq(Bytes(stream)) /\ Consumed = Len(stream) /\ Len(stream) \in Nat
  BY <1>1 DEF ReaderInv, IsRest, Consumed
<1>3. Reading
  BY <1>1 DEF ReaderInv, AllRead
<1>4. PICK b \in Int : IsLineStart(stream, b, Len(stream)) /\ IsKept(stream, b, Len(stream), line, too_long)
  BY <1>2, <1>3 DEF Reading
<1>5. b <= Len(stream)
  <2>1. CASE Len(stream) - b + 1 > MaxRequest
    BY <1>2, <2>1, ConnectionAssumption
  <2>2. CASE ~(Len(stream) - b + 1 > MaxRequest)
    <3>1. line # <<>> /\ line = SubSeq(stream, b, Len(stream))
      BY <1>1, <1>4, <2>2 DEF IsKept
    <3> QED
      BY <1>2, <3>1, SubSeqEmpty
  <2> QED
    BY <2>1, <2>2
<1>6. /\ Newline(stream) \subseteq 1..Len(stream) /\ IsFiniteSet(Newline(stream))
  BY <1>2, EndsAreFinite
<1>7. Ends(stream) = Newline(stream) \cup {e}
  <2>1. stream # <<>> /\ Len(stream) \notin Newline(stream)
    BY <1>2, <1>4, <1>5 DEF IsLineStart
  <2>2. stream[Len(stream)] # "nl"
    BY <1>2, <1>4, <1>5, <2>1 DEF Newline, IsLineStart
  <2> QED
    BY <2>1, <2>2 DEF Ends
<1>8. EndsTo(stream, e) = Ends(stream) /\ ReadTo(stream, Len(stream)) = Newline(stream)
  BY <1>2, <1>6, <1>7 DEF EndsTo, ReadTo
<1>9. Cardinality(Ends(stream)) = Len(frames) + 1
  <2>1. e \notin Newline(stream)
    BY <1>2, <1>6
  <2>2. Cardinality(Ends(stream)) = Cardinality(Newline(stream)) + 1
    BY <1>6, <1>7, <2>1, FS_AddElement
  <2> QED
    BY <1>2, <1>3, <1>8, <2>2 DEF Reading
<1>10. frames' = Append(frames, LineFrame(stream, b, e))
  BY <1>1, <1>2, <1>4, KeptIsFramed
<1>11. e - 1 = Len(stream) /\ e \in Ends(stream)
  BY <1>2, <1>7
<1>12. /\ Len(frames') = Len(frames) + 1 /\ Len(frames') <= Cardinality(Ends(stream))
       /\ frames' = [k \in 1..Len(frames') |-> Lines(stream)[k]]
  BY <1>1, <1>4, <1>8, <1>9, <1>10, <1>11, OneMoreFrame
<1>13. AllRead'
  BY <1>1, <1>9, <1>12 DEF AllRead
<1> QED
  BY <1>1, <1>12, <1>13 DEF ReaderInv, Consumed

LEMMA DraftsKept ==
    ASSUME DraftsInv,
           \/ \E staged \in Values : store_draft(staged)
           \/ \E value \in Values : OtherCommit(value)
           \/ \E d \in DOMAIN drafts, value \in Values : DraftSet(d, value)
           \/ \E d \in DOMAIN drafts : DraftCommit(d)
    PROVE  DraftsInv'
<1>1. CASE \E staged \in Values : store_draft(staged)
  <2>1. /\ DOMAIN drafts' = DOMAIN drafts \cup {next_draft_id}
        /\ next_draft_id' = next_draft_id + 1 /\ rewritten' = rewritten
    BY <1>1 DEF store_draft
  <2> QED
    BY <2>1 DEF DraftsInv
<1>2. CASE \E value \in Values : OtherCommit(value)
  BY <1>2 DEF DraftsInv, OtherCommit
<1>3. CASE \E d \in DOMAIN drafts, value \in Values : DraftSet(d, value)
  <2>1. DOMAIN drafts' = DOMAIN drafts /\ next_draft_id' = next_draft_id /\ rewritten' = rewritten
    BY <1>3 DEF DraftSet
  <2> QED
    BY <2>1 DEF DraftsInv
<1>4. ASSUME NEW d \in DOMAIN drafts, DraftCommit(d) PROVE DraftsInv'
  <2>1. next_draft_id' = next_draft_id
    BY <1>4 DEF DraftCommit
  <2>2. CASE UNCHANGED <<drafts, rewritten>>
    BY <2>1, <2>2 DEF DraftsInv
  <2>3. CASE drafts' = Without(d) /\ rewritten' = rewritten
    <3>1. DOMAIN drafts' = DOMAIN drafts \ {d}
      BY <2>3 DEF Without
    <3> QED
      BY <2>1, <2>3, <3>1 DEF DraftsInv
  <2>4. CASE /\ drafts[d].base = file.revision /\ drafts' = Without(d)
             /\ rewritten' = rewritten \cup {<<d, drafts[d].base, file.revision>>}
    <3>1. DOMAIN drafts' = DOMAIN drafts \ {d}
      BY <2>4 DEF Without
    <3> DEFINE new == <<d, drafts[d].base, file.revision>>
    <3>2. new[1] = d /\ new[2] = new[3]
      BY <2>4
    <3>3. rewritten' = rewritten \cup {new}
      BY <2>4
    <3> HIDE DEF new
    <3> QED
      BY <2>1, <3>1, <3>2, <3>3 DEF DraftsInv
  <2> QED
    BY <1>4, <2>2, <2>3, <2>4 DEF DraftCommit
<1> QED
  BY <1>1, <1>2, <1>3, <1>4

LEMMA ConnectionInitially == ConnectionInit => ConnectionInv
<1>1. SUFFICES ASSUME ConnectionInit PROVE ConnectionInv
  OBVIOUS
<1>2. /\ stream \in Input /\ sent = stream /\ line = <<>> /\ too_long = FALSE /\ frames = <<>>
      /\ drafts = [d \in {} |-> 0] /\ next_draft_id = 1 /\ rewritten = {}
  BY <1>1 DEF ConnectionInit
<1>3. stream \in Seq(Bytes(stream))
  BY <1>2, ConnectionAssumption DEF Bytes
<1>4. Consumed = 0 /\ Len(stream) \in Nat
  BY <1>2, <1>3 DEF Consumed
<1>5. IsRest(stream, Consumed, sent)
  BY <1>2, <1>3, <1>4, SubSeqFull DEF IsRest
<1>6. ReadTo(stream, 0) = {}
  BY <1>3, EndsAreFinite DEF ReadTo
<1>7. IsLineStart(stream, 1, 0)
  BY DEF IsLineStart
<1>8. IsKept(stream, 1, 0, line, too_long)
  <2>1. 0 - 1 + 1 = 0 /\ ~(0 > MaxRequest)
    BY ConnectionAssumption
  <2>2. SubSeq(stream, 1, 0) = <<>>
    BY SubSeqEmpty
  <2> QED
    BY <1>2, <2>1, <2>2 DEF IsKept
<1>9. Len(frames) = 0
  BY <1>2
<1>10. Reading
  BY <1>4, <1>6, <1>7, <1>8, <1>9, FS_EmptySet DEF Reading
<1>11. frames = [k \in 1..Len(frames) |-> Lines(stream)[k]]
  BY <1>2, <1>9
<1>12. ReaderInv
  BY <1>3, <1>5, <1>9, <1>10, <1>11, EndsAreFinite DEF ReaderInv
<1>13. DraftsInv
  BY <1>2 DEF DraftsInv
<1> QED
  BY <1>12, <1>13 DEF ConnectionInv

LEMMA ConnectionStep ==
    ConnectionInv /\ [ConnectionNext]_<<reader_vars, draft_vars>> => ConnectionInv'
<1>1. SUFFICES ASSUME ConnectionInv, [ConnectionNext]_<<reader_vars, draft_vars>> PROVE ConnectionInv'
  OBVIOUS
<1>2. ASSUME UNCHANGED reader_vars PROVE ReaderInv'
  <2>1. ReaderInv
    BY <1>1 DEF ConnectionInv
  <2>2. UNCHANGED <<sent, line, too_long, frames, stream>>
    BY <1>2 DEF reader_vars
  <2>3. Consumed' = Consumed
    BY <2>2 DEF Consumed
  <2> QED
    BY <2>1, <2>2, <2>3 DEF ReaderInv, Reading, AllRead
<1>3. ASSUME UNCHANGED draft_vars PROVE DraftsInv'
  BY <1>1, <1>3 DEF ConnectionInv, DraftsInv, draft_vars
<1>4. CASE UNCHANGED <<reader_vars, draft_vars>>
  BY <1>2, <1>3, <1>4 DEF ConnectionInv
<1>5. CASE ((\E n \in 1..Len(sent) : FillBuf(n)) \/ EndOfInput) /\ UNCHANGED draft_vars
  BY <1>1, <1>3, <1>5, FillKeeps, EndOfInputKeeps DEF ConnectionInv
<1>6. CASE UNCHANGED reader_vars /\ ~UNCHANGED <<reader_vars, draft_vars>> /\ ConnectionNext
  <2>1. \/ \E staged \in Values : store_draft(staged)
        \/ \E value \in Values : OtherCommit(value)
        \/ \E d \in DOMAIN drafts, value \in Values : DraftSet(d, value)
        \/ \E d \in DOMAIN drafts : DraftCommit(d)
    BY <1>6 DEF ConnectionNext
  <2> QED
    BY <1>1, <1>2, <1>6, <2>1, DraftsKept DEF ConnectionInv
<1> QED
  BY <1>1, <1>4, <1>5, <1>6 DEF ConnectionNext

\* The invariant the next theorem needs: the line that goes on is kept whole or
\* known to be over the limit, a frame was answered for every newline passed,
\* and no number of a draft was used before.
THEOREM ConnectionInvariant == ConnectionSpec => []ConnectionInv
<1>1. ConnectionInit => ConnectionInv
  BY ConnectionInitially
<1>2. ConnectionInv /\ [ConnectionNext]_<<reader_vars, draft_vars>> => ConnectionInv'
  BY ConnectionStep
<1> QED
  BY <1>1, <1>2, PTL DEF ConnectionSpec

LEMMA ConnectionInvSuffices == ConnectionInv => ConnectionIsFaithful
<1>1. SUFFICES ASSUME ConnectionInv PROVE ConnectionIsFaithful
  OBVIOUS
<1>2. /\ IsRest(stream, Consumed, sent) /\ Len(frames) \in Nat /\ Len(frames) <= Cardinality(Ends(stream))
      /\ frames = [k \in 1..Len(frames) |-> Lines(stream)[k]] /\ (Reading \/ AllRead)
  BY <1>1 DEF ConnectionInv, ReaderInv
<1>3. stream \in Seq(Bytes(stream)) /\ Len(stream) \in Nat
  BY <1>2 DEF IsRest
<1>4. Cardinality(Ends(stream)) \in Nat
  BY <1>3, EndsAreFinite
<1>5. Len(Lines(stream)) = Cardinality(Ends(stream))
  BY <1>4 DEF Lines
<1>6. frames = SubSeq(Lines(stream), 1, Len(frames))
  <2> DEFINE l == Lines(stream)
             n == Len(frames)
             S == {l[k] : k \in 1..n}
  <2> HIDE DEF l
  <2>1. \A k \in 1..n : l[k] \in S
    OBVIOUS
  <2>2. n \in Nat /\ frames = [k \in 1..n |-> l[k]]
    BY <1>2 DEF l
  <2> HIDE DEF S, n
  <2>3. /\ SubSeq(l, 1, n) \in Seq(S) /\ Len(SubSeq(l, 1, n)) = n
        /\ \A k \in 1..n : SubSeq(l, 1, n)[k] = l[k]
    BY <2>1, <2>2, SubSeqProperties
  <2>4. SubSeq(l, 1, n) = [k \in 1..n |-> SubSeq(l, 1, n)[k]]
    BY <2>3, SequenceIsFunction
  <2>5. frames = SubSeq(l, 1, n)
    BY <2>2, <2>3, <2>4
  <2> QED
    BY <2>5 DEF l, n
<1>7. ASSUME sent = <<>>, line = <<>>, ~too_long PROVE Len(frames) = Cardinality(Ends(stream))
  <2>1. Consumed = Len(stream)
    BY <1>3, <1>7 DEF Consumed
  <2>2. CASE AllRead
    BY <2>2 DEF AllRead
  <2>3. CASE Reading
    <3>1. PICK b \in Int : /\ IsLineStart(stream, b, Len(stream))
                           /\ IsKept(stream, b, Len(stream), line, too_long)
      BY <2>1, <2>3 DEF Reading
    <3>2. b \in 1..Len(stream) + 1 /\ line = SubSeq(stream, b, Len(stream))
      BY <1>3, <1>7, <3>1 DEF IsLineStart, IsKept
    <3>3. b = Len(stream) + 1
      <4>1. \A k \in b..Len(stream) : stream[k] \in Bytes(stream)
        <5>1. b..Len(stream) \subseteq 1..Len(stream)
          BY <1>3, <3>2
        <5>2. DOMAIN stream = 1..Len(stream)
          BY <1>3
        <5> QED
          BY <5>1, <5>2 DEF Bytes
      <4>2. Len(line) = IF b <= Len(stream) THEN Len(stream) - b + 1 ELSE 0
        BY <1>3, <3>2, <4>1, SubSeqProperties
      <4> QED
        BY <1>3, <1>7, <3>2, <4>2
    <3>4. stream = <<>> \/ Len(stream) \in Newline(stream)
      <4>1. CASE b = 1
        BY <1>3, <3>3, <4>1
      <4>2. CASE b # 1
        BY <1>3, <3>1, <3>3, <4>2 DEF IsLineStart
      <4> QED
        BY <4>1, <4>2
    <3>5. Ends(stream) = Newline(stream)
      BY <3>4 DEF Ends, Newline
    <3>6. ReadTo(stream, Len(stream)) = Newline(stream)
      BY <1>3, EndsAreFinite DEF ReadTo
    <3> QED
      BY <2>1, <2>3, <3>5, <3>6 DEF Reading
  <2> QED
    BY <1>2, <2>2, <2>3
<1>8. FramesAreLines
  BY <1>2, <1>5, <1>6, <1>7 DEF FramesAreLines
<1>9. DraftsReplaceTheirBase
  BY <1>1 DEF ConnectionInv, DraftsInv, DraftsReplaceTheirBase
<1> QED
  BY <1>8, <1>9 DEF ConnectionIsFaithful

\* For any input, cut anywhere, and any limit: every line gets one answer in
\* order, one that is too long is refused whole, and a draft is written over the
\* revision it began from or not at all.
THEOREM ConnectionsAreFaithful == ConnectionSpec => []ConnectionIsFaithful
BY ConnectionInvariant, ConnectionInvSuffices, PTL
=============================================================================
