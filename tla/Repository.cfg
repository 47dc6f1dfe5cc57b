SPECIFICATION MCSpec
CONSTANTS
    h1 = h1  h2 = h2  runner = runner  worker = worker  ckpt = ckpt  plan = plan
    Handles = {h1, h2}
    Threads = {runner, worker}
    Runner = runner
    Tags = {ckpt}
    CkptTag = ckpt
    NoHash = 0
    NoThread = NoThread
    MaxEvents = 3
    MaxFaults = 2
    ChangeRuns = {1, 2}
    ChangePaths = {"a", "b", "d"}
    FirstFiles = {"a", "b"}
    MoveAnswers <- MCMoves
    DocAnswers <- MCDocs
    Impacts = {{}, {"d"}}
    MaxUserEdits = 1
    NoFile = NoFile
    CutShort = CutShort
    Documents = {"README.md", "docs/README.md", "notes"}
    Readme = "README.md"
    DocsReadme = "docs/README.md"
    MadeUp = "made up"
    MaxLibrary = 1
    NoData = NoData
    p1 = p1  p2 = p2  p3 = p3
    PackageCalls = {p1, p2, p3}
    SigningKeys = {"ours", "theirs"}
    TrustedKeys = {"ours"}
    NamedKey = "ours"
    MaxRevisions = 2
    Nil = Nil
SYMMETRY Symmetric
INVARIANTS
    RunDirectoryHolds
    FilesKept
    ChangesAccounted
    AnswersGrounded
    LoadsWhatWasSigned
CHECK_DEADLOCK FALSE
