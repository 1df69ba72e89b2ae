SPECIFICATION Spec
CONSTANTS
    SplitCrlf = FALSE
    SharedSources = FALSE
    NamesakeLambdas = FALSE
INVARIANTS
    EditsAgree
    TokensReachEditor
    AbiExact
    ModelExact
    SemanticdbFound
    GroupsExact
    RenameSafe
    SegmentsExact
    SearchBestFirst
    ReferencesComplete
    NavigationExact
    CodeActionsExact
    UnsavedRefused
    FilesKeepIdentity
CHECK_DEADLOCK FALSE
