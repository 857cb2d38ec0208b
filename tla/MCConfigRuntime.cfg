CONSTANTS
    a = a
    b = b
    p1 = p1
    m1 = m1
    m2 = m2
    user_file = user_file
    project_file = project_file
    Process = {a, b}
    Profile = {p1}
    Preset = {m1, m2}
    Schedule = {}
    Window = {}
    MaxCandidates = 2
    UserFile = user_file
    ProjectFile <- MCProjectFile
    FileRank <- MCFileRank
    HandDocument <- MCHandDocument
    EditablePath <- MCEditablePath
    EditableObject <- MCEditableObject
    Value <- MCValue
    InitialDocument <- MCInitialDocument
    InitialBackup <- MCInitialBackup
    MaxDraftEdits = 1
    MaxWrites = 1
    MaxReloads = 1
    MaxFaults = 1
SPECIFICATION Spec
SYMMETRY ProcessSymmetry
INVARIANT BackupUndoesLastCommit
 
PROPERTY CommitsAreExact
