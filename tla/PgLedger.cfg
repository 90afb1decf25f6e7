SPECIFICATION FairSpec
CONSTANTS
    Customers = {ann}
    Agents = {g1}
    Currencies = {BRL}
    ann = ann
    g1 = g1
    BRL = BRL
    Keys = {fund, top, out}
    fund = fund
    top = top
    out = out
    Jobs <- MCJobs
    Posts = {t1, t2, t3}
    PoolSize = 2
    MaxAttempts = 2
    Faults = {"crash", "lost_ack"}
PROPERTIES
    StoreSpec
    AnswersAreTrue
    PostsEnd
