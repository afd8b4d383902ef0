\* Statistics ring keeping three periods, rotated four times, three hits.
\* Ranking list with four competitors, three scores and room for three, so
\* that ties, moves and evictions all happen; Maths at 8-bit width.
CONSTANTS
    Ids = {a, b, c, d}
    ScoreVals = {1, 2, 3}
    RankCount = 3
    Asc = TRUE
    HasHandlers = TRUE
    IntWidth = 8
    Operands <- MCOperands
    Exponents <- MCExponents
    Bounds <- MCBounds
    StatsOn = TRUE
    StatsLimit = 3
    MaxTicks = 4
    MaxHits = 3

SPECIFICATION HelpersSpec

INVARIANTS
    TypeOK
    Ordered
    IndexAgrees
    RankFound
    RankQueriesAgree
    PowIsPower
    MergeRoundTrip
    DigitsReconstruct
    
    ClampNearest
    ContinuousSorted
    StatsTypeOK
    StatsWindow

PROPERTIES
    TopRankingSpec
