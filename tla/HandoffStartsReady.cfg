SPECIFICATION FairSpec
CONSTANTS
    MessageTimeout = 1
    CommandRepeat = 1
    CommandDelay = 1
    Far = 0
PROPERTY
    HandoffStartsReady
