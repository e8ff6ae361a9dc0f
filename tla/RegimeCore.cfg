SPECIFICATION Spec
CONSTANTS
    prereq = prereq
    gate = gate
    outline = outline
    smoke = smoke
    review = review
    contract = contract
    inventory = inventory
    data = data
    thesis = thesis
    NoJournal = NoJournal
    NoTask = NoTask
    Tasks <- CoreTasks
    Streams = {data, thesis}
    Weeks = {1, 2}
    Deps <- MCDeps
    StreamOf <- MCStreamOf
    Rank <- MCRank
    KindOf <- MCKindOf
    G1 = {contract, prereq, gate}
    Content = {}
    Verified = {}
    Recoverable = {prereq}
    Gate = gate
    Superseded = {}
    OnG0 = {contract}
    Appended = {outline}
    Catalog = {prereq, gate}
    Legacy <- MCLegacy
    InitialTasks <- MCInitialG0
    InitialPhase = 0
    Commands = {"cycle", "dry-run", "enqueue", "record-g0-pass", "materialize-catalog"}
    Unlocked = FALSE
    MaxInterrupts = 2
INVARIANTS TypeOK JournalInv AccountingKept OneKnownChild G0Atomic StoreReadable
PROPERTIES LedgerImplemented JournalDurable DryRunNeutral
