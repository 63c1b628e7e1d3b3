SPECIFICATION AccountSpec
CONSTANTS
    Parts = {"sessions", "codes", "addresses"}
    Sessions = {s1, s2, s3}
    Tokens = {t1, t2, t3, t4}
    Requests = {r1, r2}
    MaxSessions = 1
    Honest = FALSE
    None = None
    Codes = {r1, r2}
    Guess = guess
    Calls = {s1, s2, s3}
    RequestsPerHour = 2
    VerifyAttempts = 2
    NoCode = NoCode
    Users = {r1, r2}
    Devices = {r1, r2}
    Ids = {s1, s2, s3}
    Pins = {"home", "sea"}
    AreaOf <- MCAreaOf
    NoArea = NoArea
    MaxAddresses = 2
SYMMETRY Symmetry
INVARIANTS OneCurrentToken LiveSessionsAreListed DeviceLimit GuessesAreCounted OneSignInPerCode BooksAreSound
PROPERTIES RevokedStaysRevoked NoAddressIsLost
CHECK_DEADLOCK FALSE
