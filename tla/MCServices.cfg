SPECIFICATION Spec
CONSTANTS
    GoodLabels <- MCGoodLabels
    Lower <- MCLower
    Hosts <- MCHosts
    Error = Error
    NoName = NoName
    Conns = {c1, c2}
    Nodes = {"v1", "v2"}
    Tickets <- MCTickets
    Links = {1, 2, 3, 4}
    PoolMax = 1
    Canonical <- MCCanonical
    ProxyFiles <- MCProxyFiles
    SiteKinds <- MCSiteKinds
    Menus <- MCMenus
    m1 = m1
    m2 = m2
    Mail = {m1, m2}
    NoMail = NoMail
    MaxAttempts = 2
    MailMenus <- MCMailMenus
    Actors = {"a1", "a2"}
    EnvKeys = {"k1", "k2"}
    Entries <- MCEntries
    SecretMenus <- MCSecretMenus
    Socks = {"s1", "s2"}
    NoSock = "none"
    Ptys = {"p1", "p2", "p3"}
    Callers = {"c1", "c2"}
    QueueMax = 2
    ChannelMax = 2
    VsockMenus <- MCVsockMenus
    Senders = {"p1", "p2"}
    Typists = {"t1"}
    TmuxMenus <- MCTmuxMenus
    Reqs = {"r1", "r2", "r3"}
    Keys = {"a", "b", "a.obao"}
    OutboardKeys = {"a.obao"}
    Bodies = {"a1", "b1", "o1", "o2", "big"}
    NoBody = "none"
    HashOf <- MCHash
    Size <- MCSize
    Budget = 3
    MaxBytes = 3
    DoorMenus <- MCDoorMenus
    ShellMenus <- MCShellMenus
    Users = {"u1", "u2", "u3"}
    NoToken = NoToken
    MaxSession = 5
    LoginMenus <- MCLoginMenus
    ReconnectMax = 2
    TermMenus <- MCTermMenus
    HoldMax = 48
    KeyInputs <- MCKeyInputs
    Attempts = {"v1", "v2", "v3"}
    Challenges = {"q1", "q2"}
    PinnedEdge = "edge"
    NoConn = "none"
    ChallengeMenus <- MCChallengeMenus
    Pubs = {"p1", "p2", "p3"}
    NoSite = NoSite
    Retention = 1
    SiteMenus <- MCSiteMenus
    Cmds = {"c1", "c2", "c3"}
    Fqdns = {"d"}
    Unclaimed = Unclaimed
    AliasMenus <- MCAliasMenus
    DeployMenus <- MCDeployMenus
INVARIANTS
    ProxySound
    
    
    NoRequestForgotten
    ConnectionSound
    ExitCodeIsReal
    
    
    SavedLoginWorks
    
    SplitsDoNotShow
    SpentOnceAndBound
    
    AliasSound
    DeploySound

    
CHECK_DEADLOCK FALSE
