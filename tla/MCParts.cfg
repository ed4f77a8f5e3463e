SPECIFICATION MCSpec
CONSTANTS
    Numbers = {0, 1, 256}
    Fails = {"res", "cyc", "mic"}
    None = None
    Payload = 2
    BufFrags = 2
    Lengths = {1, 2, 3, 4, 5, 6, 7, 8, 9}
    MaxFrames = 2
    MaxOpens = 2
    Clients = {c1, c2, c3}
    cli_head = cli_head
    Slots = 2
    MaxMedia = 4
    Broken = {2}
    MaxScans = 2
    MaxChunks = 4
    AviByte = 3
    Full = 2
    CardSize = 9
    MaxRecs = 5
    MaxPhotos = 2
    TalkSlots = {1, 2, 3}
    Blanked = {1, 2}
    Quiet = {}
    MaxSeq = 2
    RingSize = 5
    PlayFrom = 4
    StopBelow = 2
    MaxTalks = 2
    SpiFaults = {"slow", "stop", "open", "reset", "pkg"}
    MaxSpiCalls = 3
    MaxSpiErrs = 1
    PlayFiles = {1, 2}
    Times <- PlayTimes
    NoFile = NoFile
    Photos = {}
    PlayFrames = 19
    Chunks = 8
    Fps = 3
    Second = 3
    Levels = {2}
    MaxOffset = 5
    MaxSilent = 1
    MaxSpeeds = 2
    RtcStart <- ScreenClock
    MenuFrom = {0, 14}
    MaxTurns = 2
INVARIANTS
    ShownIsUsed
    SentWhole
    SocketOwned
    ListSound
    ListFaithful
    AnswerRight
    RoomRightly
    StartedFits
    FrameWhole
    LentBuffers
    SpiServed
    InStep
    ScreenInStep
    TimeKept
PROPERTIES
    RestartKeeps
    RecordingGoesOn
CHECK_DEADLOCK FALSE
