\* The channel against the FIFO queue it promises, pages of two messages,
\* the capacity that setup-channels.sh asks for.
SPECIFICATION FairSpec
CONSTANTS
    Messages = {m1, m2, m3}
    PageRoom = 2
    HrmpCapacity = 1
    MaxInFlight = 5
INVARIANTS ChannelTypeOK
PROPERTIES FifoSpec
