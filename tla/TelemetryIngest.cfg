CONSTANTS
    r1 = r1
    r2 = r2
    e1 = e1
    h1 = h1
    h2 = h2
    t1 = t1
    t2 = t2
    t3 = t3
    None = None
    Requests = {r1, r2}
    Ecosystems = {e1}
    Hashes = {h1, h2}
    EcoOf <- SharedEco
    HashOf <- TwoHashes
    TxIds = {t1, t2, t3}
SPECIFICATION FairSpec
INVARIANTS
    AckImpliesAnchored
    LedgerMatchesStore
    StaleKeyNeverAnchors
PROPERTIES
    SettledForGood
    LetInIsAnswered
    ImplementsAnchoring
\* a finite set of requests: the run ends when all are answered
CHECK_DEADLOCK FALSE
