CONSTANTS
    Null = Null
    None = None
    Blank = Blank
    Broken = Broken
    bad1 = bad1
    bad2 = bad2
    pii = pii
    Text = {bad1, bad2}
    Personal = {pii}
    Unit = 10
    DatabaseContents <- SomeDatabases
    DatabaseTasks <- SomeDatabaseTasks
    DatabaseLimits <- SomeDatabaseLimits
    DatabaseWrites = 2
    DatabaseSecrets = {"phone"}
    FolderFiles = {"customers", "orders", "shops"}
    FolderContents <- SomeContents
    FolderReading <- SomeReading
    FolderNames <- SomeNames
    FolderCaps <- SomeCaps
    FolderLabels = {"category_1", "category_2", "category_1_1", "category_2_1"}
    FolderDrafts <- SomeDrafts
    FolderTasks <- SomeFolderTasks
    FolderTotals <- SomeTotals
    FolderLimits <- SomeFolderLimits
    FolderEdits = 1
    AdviceCalls = {"c1", "c2"}
    AdviceClients = {"openai", "gigachat"}
    AdviceTasks <- SomeAdviceTasks
    AdviceAssignments <- SomeAssignments
    AdviceCandidates <- SomeCandidates
    AdviceEdits <- SomeEdits
    AdviceRankings <- SomeRankings
    AdviceNames = {"mail"}
    AdviceTypes = {"email"}
    AdviceSecrets = {}
    AdviceRetries = 1
    AdviceRetryLimit = 5
    AdviceLongestDelay = 8
    SemanticGenerations = {g1, g2}
    SemanticCells <- SomeCells
    SemanticAnswers <- SomeAnswers
    Rewrites <- MCRewrites
    Spec0 <- MCSpecs
SPECIFICATION SynthesisSpec
INVARIANTS
    DatabaseProfilesAgree
    FolderProfilesAreCertain
    NothingPrivateIsTold
    NoProfiledRowIsPublished
    AdviceIsRestored
    RunsAreTold
    LateValuesAreDiscarded
    PlainSpecsAreGenerated
    ScenariosAreAtomic
    InjectionsAreAccounted
    BundlesAreSound
CHECK_DEADLOCK FALSE
