CONSTANTS
    Sources <- MCSources
    Pairs <- MCPairs
    Networks = {"bitcoin", "testnet4", "signet"}
    NetworkKind <- MCNetworkKind
SPECIFICATION Spec
INVARIANTS
    ReopensAsCreated
    TemplatesAgree
    ExportRestores
    InputsRecognised
