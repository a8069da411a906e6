\* Two levels of one possible quantity, two connections, one lost update, one
\* failed request; the uninitialized id is 0 or larger than every id.
SPECIFICATION Spec
CONSTANTS
    Levels = {l1, l2}
    Quantities = {0, 1}
    Garbage = {0, 9}
    MaxId = 4
    MaxConnects = 2
    MaxLosses = 1
    MaxFailures = 1
SYMMETRY LevelsSymmetric
CHECK_DEADLOCK FALSE
INVARIANTS TypeOK SettledBookIsExchanges FirstConnectionExact LateUpdateMixesTwoBooks BookNeedsSnapshot
