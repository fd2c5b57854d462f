CONSTANTS
    tab1 = tab1
    tab2 = tab2
    main = main
    none = none
    admin = admin
    guest = guest
    default = default
    secret = secret
    short = short
    t1 = t1
    t2 = t2
    t3 = t3
    t4 = t4
    k1 = k1
    k2 = k2
    Web = {tab1, tab2}
    Main = main
    NoOption = none
    SaveCanFail = TRUE
    User = {admin, guest}
    Admin = admin
    Password = {default, secret, short}
    Default = default
    Length <- Lengths
    ReadCanFail = TRUE
    HandWritten <- Files
    Token = {t1, t2, t3, t4}
    SecretKey = {k1, k2}
SPECIFICATION WebSpec
SYMMETRY Symmetry
INVARIANTS
    EngineAgrees
    FlagIsTrue
    DefaultIsGone
PROPERTIES
    FileStaysWhole
    NoLostUpdate
    ActsForTheUserShown
    OneAccountAtATime
