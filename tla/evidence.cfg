SPECIFICATION Spec
CONSTANTS
    copy1 = copy1
    live1 = live1
    copy2 = copy2
    writer1 = writer1
    writer2 = writer2
    session = session
    Nobody = Nobody
    None = None
    Writers = {writer1, writer2}
    Captures = {copy1, live1, copy2}
    Copies = {copy1, copy2}
    WriterOf <- MCWriterOf
    SessionOf <- MCSessionOf
    Size = 2
    Times = {1, 2}
    MaxFaults = 1
INVARIANTS
    TypeOK
    EvidenceSurvives
    CopyIsAtomic
    NoLeftovers
    MetadataDescribesFile
CHECK_DEADLOCK FALSE
