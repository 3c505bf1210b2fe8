\* One session and one page that asks for the price.
SPECIFICATION Spec
CONSTANTS
    Sessions = {s}
    Pages = {p}
    MaxSeconds = 2
    MaxSessions = 2
    NoAccount = NoAccount
    TheMeter = TheMeter
INVARIANTS TypeOK 
PROPERTIES  PriceIsKept MeterConverges
