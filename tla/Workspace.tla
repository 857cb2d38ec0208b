----------------------------- MODULE Workspace -----------------------------
(***************************************************************************)
(* Workspace roots, Leases and Read Sets (greentyper-core workspace.rs,     *)
(* Unix) and the commands that use them (cli.rs run_workspace).  A root is  *)
(* a directory with an identity; a Lease is an advisory lock on it.  Other  *)
(* programs edit files, and replace the directory, without a Lease.  A file *)
(* is its content: digests are taken to be injective.                       *)
(***************************************************************************)
EXTENDS Integers, FiniteSets

CONSTANTS
    Workers,        \* processes running workspace commands
    Files,          \* valid relative paths
    Contents,       \* contents of regular files, "large" past the read limit
    MaxEdits,       \* bound: changes ever made by programs without a Lease
    MaxSaved        \* bound: Read Sets written out

ASSUME WorkspaceAssumption == MaxEdits \in Nat /\ MaxSaved \in Nat

VARIABLES
    root,       \* the directory at the path: its identity and files
    lease,      \* command -> "none", "ReadOnly" or "ReadWrite", and on which directory
    command,    \* command -> where it is
    saved,      \* Read Sets written out by captures
    edits,      \* changes made so far without a Lease
    edited      \* ghost: commands that saw such a change

workspace_vars == <<root, lease, command, saved, edits, edited>>

\* read_entry: a path with no regular file (missing, a link) and a large file
\* are not read.
Special == {"missing", "large"}
Readable(c) == c \notin Special
\* A file whose absence or kind makes an entry stale, rather than the command fail.
MakesStale(c) == c # "large"

NoLease == [access |-> "none", inode |-> 0]
Idle == [step |-> "idle"]
NoEntries == [f \in {} |-> "none"]
Entry(f, c) == [x \in {f} |-> c]
With(entries, more) == [x \in DOMAIN entries \cup DOMAIN more |->
                            IF x \in DOMAIN more THEN more[x] ELSE entries[x]]

Running == {p \in Workers : command[p].step # "idle"}
Set(p, c) == command' = [command EXCEPT ![p] = c]
Done(p) == /\ Set(p, Idle) /\ lease' = [lease EXCEPT ![p] = NoLease]

-----------------------------------------------------------------------------
\* WorkspaceRoot::open: the identity of the directory now at the path.
Open(p, kind) ==
    /\ command[p].step = "idle"
    /\ Set(p, [step |-> "opened", kind |-> kind, inode |-> root.inode])
    /\ edited' = edited \ {p}
    /\ UNCHANGED <<root, lease, saved, edits>>

\* acquire_lease: the directory must still be the one opened, and the lock is
\* tried, never waited for.
Access(kind) == IF kind = "apply" THEN "ReadWrite" ELSE "ReadOnly"
Compatible(p, access) ==
    \A q \in Workers \ {p} :
        lease[q].inode = root.inode =>
            \/ lease[q].access = "none"
            \/ access = "ReadOnly" /\ lease[q].access = "ReadOnly"
Acquire(p) ==
    LET access == Access(command[p].kind) IN
    /\ command[p].step = "opened"
    /\ IF command[p].inode = root.inode /\ Compatible(p, access)
       THEN /\ lease' = [lease EXCEPT ![p] = [access |-> access, inode |-> root.inode]]
            /\ Set(p, [command[p] EXCEPT !.step = "leased"])
       ELSE Done(p)
    /\ UNCHANGED <<root, saved, edits, edited>>

\* ReadSet::capture reads the paths one by one, through the opened directory.
BeginCapture(p, paths) ==
    /\ command[p].step = "leased" /\ command[p].kind = "capture" /\ Cardinality(saved) < MaxSaved
    /\ Set(p, [step |-> "capture", kind |-> "capture", inode |-> command[p].inode,
               left |-> paths, entries |-> NoEntries])
    /\ UNCHANGED <<root, lease, saved, edits, edited>>
CaptureEntry(p) ==
    \E f \in command[p].left :
        /\ IF command[p].inode = root.inode /\ Readable(root.files[f])
           THEN /\ Set(p, [command[p] EXCEPT !.left = @ \ {f},
                                             !.entries = With(@, Entry(f, root.files[f]))])
                /\ UNCHANGED lease
           ELSE Done(p)
        /\ UNCHANGED <<root, saved, edits, edited>>
FinishCapture(p) ==
    /\ command[p].left = {}
    /\ saved' = saved \cup {[inode |-> command[p].inode, entries |-> command[p].entries]}
    /\ Done(p)
    /\ UNCHANGED <<root, edits, edited>>
Capture(p) == command[p].step = "capture" /\ (CaptureEntry(p) \/ FinishCapture(p))

\* A Read Set is read back from its file, where anything may be; validate_shape
\* accepts only what a capture wrote, by its revision and identity digests.
Damaged == [inode |-> 0, entries |-> NoEntries]
validate_shape(readset) == readset \in saved
ensure_root(readset, p) == readset.inode = command[p].inode
BeginValidate(p, readset, target, bytes) ==
    /\ command[p].step = "leased" /\ command[p].kind # "capture"
    /\ IF validate_shape(readset) /\ ensure_root(readset, p)
       THEN /\ Set(p, [step |-> "validate", kind |-> command[p].kind, inode |-> command[p].inode,
                       left |-> DOMAIN readset.entries, entries |-> readset.entries,
                       stale |-> {}, target |-> target, bytes |-> bytes])
            /\ UNCHANGED lease
       ELSE Done(p)
    /\ UNCHANGED <<root, saved, edits, edited>>

\* ReadSet::validate, path by path.
ValidateEntry(p) ==
    \E f \in command[p].left :
        LET now == root.files[f] IN
        /\ IF command[p].inode = root.inode /\ (Readable(now) \/ MakesStale(now))
           THEN /\ Set(p, [command[p] EXCEPT !.left = @ \ {f},
                        !.stale = IF now = command[p].entries[f] THEN @ ELSE @ \cup {f}])
                /\ UNCHANGED lease
           ELSE Done(p)
        /\ UNCHANGED <<root, saved, edits, edited>>

\* The gate of apply_file: a fresh Read Set, a size within the limit, a target
\* it covers; a validate command only reports.
MayWrite_Covered(c) == c.stale \cap {c.target} = {} /\ Readable(c.bytes) /\ c.target \in DOMAIN c.entries
MayWrite(c) == c.stale = {} /\ Readable(c.bytes) /\ c.target \in DOMAIN c.entries
FinishValidate(p) ==
    /\ command[p].left = {}
    /\ IF command[p].kind = "apply" /\ MayWrite(command[p])
       THEN Set(p, [command[p] EXCEPT !.step = "target"]) /\ UNCHANGED lease
       ELSE Done(p)
    /\ UNCHANGED <<root, saved, edits, edited>>
Validate(p) == command[p].step = "validate" /\ (ValidateEntry(p) \/ FinishValidate(p))

\* The target is opened through the directory once more, then replaced through
\* its path: whatever directory is there by then.  A write into another one than
\* was leased is, for the commands at work there, a change made without a Lease.
OpenTarget(p) ==
    /\ command[p].step = "target"
    /\ IF command[p].inode = root.inode /\ root.files[command[p].target] # "missing"
       THEN Set(p, [command[p] EXCEPT !.step = "write"]) /\ UNCHANGED lease
       ELSE Done(p)
    /\ UNCHANGED <<root, saved, edits, edited>>
Replace(p) ==
    /\ command[p].step = "write"
    /\ root' = [root EXCEPT !.files[command[p].target] = command[p].bytes]
    /\ edited' = IF command[p].inode = root.inode THEN edited ELSE edited \cup Running
    /\ Done(p)
    /\ UNCHANGED <<saved, edits>>

\* The process ends at any time, and its lock with it.
Die(p) ==
    /\ command[p].step # "idle"
    /\ Done(p)
    /\ UNCHANGED <<root, saved, edits, edited>>

-----------------------------------------------------------------------------
(* Programs that take no Lease.                                             *)

Unleased ==
    /\ edits < MaxEdits /\ edits' = edits + 1
    /\ edited' = edited \cup Running
    /\ UNCHANGED <<lease, command, saved>>
EditFile(f, c) ==
    /\ c # root.files[f]
    /\ root' = [root EXCEPT !.files[f] = c]
    /\ Unleased
ReplaceRoot ==
    /\ root' = [root EXCEPT !.inode = @ + 1]
    /\ Unleased

-----------------------------------------------------------------------------
WorkspaceInit ==
    /\ root \in [inode : {1}, files : [Files -> Contents]]
    /\ lease = [p \in Workers |-> NoLease]
    /\ command = [p \in Workers |-> Idle]
    /\ saved = {} /\ edits = 0 /\ edited = {}

CommandSteps(p) ==
    \/ \E kind \in {"capture", "validate", "apply"} : Open(p, kind)
    \/ Acquire(p)
    \/ \E paths \in SUBSET Files : BeginCapture(p, paths)
    \/ Capture(p)
    \/ \E r \in saved \cup {Damaged} :
          IF command[p].step = "leased" /\ command[p].kind = "apply"
          THEN \E f \in Files, c \in Contents : BeginValidate(p, r, f, c)
          ELSE BeginValidate(p, r, "none", "none")
    \/ Validate(p) \/ OpenTarget(p) \/ Replace(p) \/ Die(p)

WorkspaceNext ==
    \/ \E p \in Workers : CommandSteps(p)
    \/ \E f \in Files, c \in Contents \cup Special : EditFile(f, c)
    \/ ReplaceRoot

-----------------------------------------------------------------------------
\* No stale overwrite (ADR 0011): a guarded write that no unleased program ran
\* into replaces a file of the very directory the Read Set was captured in,
\* while every file of that Read Set, the target included, still is as it was
\* read, however many other commands captured, validated or wrote since.
WritesReplaceWhatWasRead ==
    [][\A p \in Workers :
        command[p].step = "write" /\ command'[p].step = "idle" /\ root' # root /\ p \notin edited =>
            /\ root.inode = command[p].inode
            /\ command[p].target \in DOMAIN command[p].entries
            /\ \A f \in DOMAIN command[p].entries : root.files[f] = command[p].entries[f]
            /\ [inode |-> command[p].inode, entries |-> command[p].entries] \in saved]_workspace_vars
=============================================================================
