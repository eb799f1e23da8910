SPECIFICATION Spec
CONSTANTS
    None = None
    o1 = o1
    o2 = o2
    ox = ox
    t1 = t1
    t2 = t2
    Ada = Ada
    Byron = Byron
    Words <- MCWords
    OrcidIds <- MCOrcidIds
    PlainOrcidIds <- MCPlainOrcidIds
    Texts <- MCTexts
    Strings <- MCStrings
    PutCodes <- MCPutCodes
    Profiles <- MCProfiles
    ForeignWorks <- MCForeignWorks
    NewWorks <- MCNewWorks
    Edits <- MCEdits
    MaxEdits = 2
INVARIANTS TypeOK OwnWorksReadable SummaryAgrees NamesAgree
PROPERTIES SaveWhatWasRead ContributionsKept CreatedIsReturned
CHECK_DEADLOCK FALSE
