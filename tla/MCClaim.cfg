CONSTANTS
    None = None
    c1 = c1
    c2 = c2
    d1 = d1
    d2 = d2
    Claim = {c1, c2}
    Drain = {d1, d2}
    MaxReloads = 1
    USER_PAYOUT_SATS = 20
    DEV_DUST_LIMIT_SATS = 2
    FEE_RATE_SAT_PER_VB = 1
    P2PKH_INPUT_VBYTES = 2
    OUTPUT_VBYTES = 1
    TX_OVERHEAD_VBYTES = 1
    Inputs = {0, 23, 24, 25, 28, 29, 40}
    Feerates = {0, 1, 2}
    StorageWorks = {TRUE, FALSE}
SPECIFICATION FairSpec
INVARIANTS
    RecordedAsItWas
    AmountsAddUp
PROPERTIES
    QueueKeeps
    ClaimEnds
    DrainsEnd
