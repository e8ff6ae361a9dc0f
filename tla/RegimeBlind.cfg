SPECIFICATION Spec
CONSTANTS
    prereq = prereq
    gate = gate
    outline = outline
    smoke = smoke
    review = review
    contract = contract
    inventory = inventory
    data = data
    thesis = thesis
    NoJournal = NoJournal
    NoTask = NoTask
    Tasks <- G1Tasks
    Streams = {data, thesis}
    Weeks = {1, 2}
    Deps <- MCDeps
    StreamOf <- MCStreamOf
    Rank <- MCRank
    KindOf <- MCKindOf
    G1 = {prereq, gate}
    Content = {}
    Verified = {}
    Recoverable = {prereq}
    Gate = gate
    Superseded = {}
    OnG0 = {}
    Appended = {outline}
    Catalog = {prereq, gate}
    Legacy <- MCLegacy
    InitialTasks <- MCInitialG1
    InitialPhase = 1
    Commands = {"cycle", "recover-existing-g1"}
    Unlocked = FALSE
    MaxInterrupts = 1
PROPERTY JournalDurable
