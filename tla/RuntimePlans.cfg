CONSTANTS
    None = None
    p1 = p1
    p2 = p2
    Profiles = {p1, p2}
    Subscribers = {u1, u2}
    Ports = {1, 2}
    public = public
    private = private
    shared = shared
    Names = {public, private, shared}
    Secrets = {1, 2}
    home = home
    domain = domain
    withPort = withPort
    Hosts = {home, domain, withPort}
    LocalHosts = {home}
    Domains = {home, domain}
    SitePort = 2
    NoSite = NoSite
    Materials <- MCMaterials
    Starts <- MCStarts
SPECIFICATION PlansSpec
CHECK_DEADLOCK FALSE
INVARIANTS
    ServedAsPromised
    PageTellsTruth
PROPERTY
    SyncedRevokes
