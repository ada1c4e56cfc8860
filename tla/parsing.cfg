\* One packet with at most two fields of a layer out of place, parsed live and replayed.
SPECIFICATION Spec
CONSTANTS
    None = None
    Invalid = Invalid
    Missing = Missing
    Garbled = Garbled
    Packets <- MCPackets
    Orders <- MCOrders
INVARIANTS
    TypeOK
    ErrorsDeserved
    CompleteMeansComplete
    RoundTrip
    ReplayEquivalence
    ChannelNamesFrequency
\* A packet is parsed twice, and that is all.
CHECK_DEADLOCK FALSE
