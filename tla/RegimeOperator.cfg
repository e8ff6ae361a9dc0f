SPECIFICATION Spec
CONSTANTS
    prereq = prereq
    gate = gate
    outline = outline
    smoke = smoke
    review = review
    contract = contract
    inventory = inventory
    data = data
    thesis = thesis
    NoJournal = NoJournal
    NoTask = NoTask
    Tasks <- OperatorTasks
    Streams = {data}
    Weeks = {1}
    Deps <- MCDeps
    StreamOf <- MCStreamOf
    Rank <- MCRank
    KindOf <- MCKindOf
    G1 = {contract, inventory, prereq, gate}
    Content = {}
    Verified = {}
    Recoverable = {prereq}
    Gate = gate
    Superseded = {review}
    OnG0 = {contract}
    Appended = {inventory}
    Catalog = {prereq, gate}
    Legacy <- MCLegacy
    InitialTasks <- MCInitialG0
    InitialPhase = 0
    Commands = {"cycle", "enqueue", "record-g0-pass", "materialize-catalog", "recover-existing-g1", "recover-orphaned-running", "reconcile-g1-integration"}
    Unlocked = TRUE
    MaxInterrupts = 2
INVARIANTS CompletedOnce SingleRunning
