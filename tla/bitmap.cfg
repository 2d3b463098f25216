SPECIFICATION StoresSpec
CONSTANTS
    Tiers <- JustBitmap
    Nobody = Nobody  NoCall = NoCall  Nothing = Nothing  Tombstone = Tombstone
    root = root  etc = etc  usr = usr  local = local  bin = bin  t1 = t1
    Elements = {a, b}
    MaxSnapshots = 3
    Folders <- FiveFolders
    Parent <- TheParents
    NoFolder = Nothing
    freelist_max_id = 5
    bitmap_max_id = 20
    tree_max_id = 6
    sharded_max_id = 3
    ShardSize = 2
    AllocatorShards = {0, 1}
    MaxHeld = 2
    Threads = {t1, t2}
    StoreKeys = {k1, k2}
    StoreValues = {v}
    StoreTtls = {0, 1, 2, Nothing}
    MaxTime = 4
    MaxVersion = 2
    Window = 2
    MaxHits = 3
    NumShards = 2
    PickedShard <- OneShardEach
    CacheKeys = {k1, k2, k3, k4}
    CacheTtls = {1, Nothing}
    MaxAge = 1
    Capacity = 3
    Front = Front  Back = Back
    Clients = {t1, t2, t3}
    Accounts = {1, 2, 3}
    Amounts = {1}
    Opening <- ThirdIsEmpty
PROPERTIES BitmapAllocatesWhatIsFree
