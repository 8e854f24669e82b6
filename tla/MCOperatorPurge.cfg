SPECIFICATION FilesSpec
\* The parts are bounded, and end where their bounds are reached.
CHECK_DEADLOCK FALSE
CONSTANTS
    Users = {"u1", "u2"}
    Emails = {"e1", "e2", "e3"}
    Passwords = {"p", "q"}
    SessionLifetime = 1
    ActionLifetime = 1
    MaxHour = 1
    MaxRequests = 2
    MaxActions = 2
    MaxSessions = 1
    MaxChanges = 1
    Mailboxes = {"e1", "e2"}
    GuestNames = {"n"}
    RoleSets <- MCRoleSets
    DefaultRoles <- MCDefaultRoles
    Identities = {1, 2}
    MaxMembers = 2
    MaxInvitations = 2
    MaxRegistrations = 2
    MaxLinkVersion = 2
    MaxTokens = 2
    Persons = {p1, p2}
    Creator = p1
    GuestPersons = {g}
    CustomRoles = {"c1"}
    GrantSets <- MCGrantSets
    RoleChoices <- MCRoleChoices
    MaxCommands = 4
    Groups = {"g1", "g2"}
    Images = {"i"}
    Receipts = {"r"}
    MaxVersion = 4
    HostDefaults <- MCHostDefaults
    SMTPHosts = {"h1"}
    Secrets = {"s1"}
    Names = {"n1"}
    Texts = {"t"}
    MaxSettingsRevision = 4
    Categories = {"k1", "k2"}
    Products = {"p1", "p2"}
    Codes <- MCCodes
    Prices = {0, 2}
    Positions <- MCPositions
    Clients = {1, 2}
    MaxCatalogVersion = 2
    MaxBookings = 1
    ImageKeys = {"i1"}
    AttachmentKeys = {"a1"}
    OperatorStartsEarly = FALSE
    Releases = {1, 2}
    MaxArchives = 1
    MaxRestores = 2
    MaxReferences = 2
PROPERTIES
    RemovedOnlyUnreferenced
