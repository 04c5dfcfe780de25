SPECIFICATION XrceSpec
CONSTANTS
    Lengths = {0, 3}
    Ends = {"little", "big"}
    Offsets = {0, 1, 2, 4}
    MaxSubmessages = 2
    Uses <- AllUses
    Formats <- SomeFormats
    Names = {a, b}
    Types = {t, u}
    Qos = {q}
    TopicQos = {plain, special}
    DefaultTopicQos = plain
    Domains = {0, 255}
    Override = 255
    AgentDomain = 0
    ProfileDomain = 1
    MaxEntities = 6
SYMMETRY NamesAndTypes
\* A codec is used once.
CHECK_DEADLOCK FALSE
INVARIANTS
    CodecInv
    MessageInv
    ObjectsInv
