\* Three prices a side, a volume that is cut to the other one, two connections, one lost update.
SPECIFICATION FairSpec
CONSTANTS
    Prices = {2, 3, 4}
    Volumes = {1, 2}
    Truncated = {2}
    Subscriptions <- MCSubscriptions
    ChecksumDepth = 2
    Legal = {2}
    Books <- MCBooks
    MaxChanges = 3
    MaxLosses = 1
    MaxConnects = 2
CHECK_DEADLOCK FALSE
INVARIANTS TypeOK ShownBookIsExchanges BookFollowsFeed NeverBetterThanExchange
PROPERTIES SilentIsClosed
