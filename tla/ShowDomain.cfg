SPECIFICATION Spec
CONSTANTS
    Texts = {"", "a"}
    Disks <- MCDisks
    MaxDisks = 2
    Convert <- XmlToJson
    Nodes <- MCNodes
    Paths <- MCPaths
    Retries = 1
    MaxChanges = 2
    MaxFaults = 2
CHECK_DEADLOCK FALSE
INVARIANTS
    OneSnapshot
    DevicesListed
    SizesHeld
    MetadataKept
