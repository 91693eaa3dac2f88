\* Registrations, a login and two seeds that may be killed and run again.
SPECIFICATION Spec
CONSTANTS
    Spellings <- MCSpellings
    Lower <- MCLower
    Passwords = {"x", "y", "shoppw"}
    Regs <- MCRegs
    Logins <- MCLogins
    Typed <- MCTyped
    Password <- MCPassword
    AppEnv = "dev"
    Seeds = {s1, s2}
    ShopEmail = "shop"
    ShopPassword = "shoppw"
    StartIn = 1
    Duration = 2
    DemoZone <- Moscow
    MaxTime = 4
    MaxKills = 1
    NoSeed = NoSeed
SYMMETRY Symmetry
INVARIANTS TypeOK OneAccountPerEmail ShopAccountReady OneLiveDemo DemoLeft
PROPERTY RegisteredCanLogIn
