SPECIFICATION FairSpec
CONSTANTS
    local = local
    remote = remote
    note = note
    w1 = w1
    w2 = w2
    pool = pool
    NoCall = NoCall
    Call <- Calls
    Fire <- Notes
    Stream <- LocalCall
    Remote <- RemoteCall
    Malformed <- RemoteCall
    Actors <- PoolActors
    Target = pool
    MailboxCapacity = 2
    MaxDrops = 1
    Worker <- Workers
    Sharded = TRUE
    Shard <- Keys
    BadKey <- LocalCall
    QueueCapacity = 1
    MaxItems = 1
    MaxSpawns = 2
    MaxSweeps = 1
INVARIANTS NoStrayMailbox AnswersAreOwn  
PROPERTIES  QueuedIsHandled
CHECK_DEADLOCK FALSE
