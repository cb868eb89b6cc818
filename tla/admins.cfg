\* Two runs of the script for one name, one client.
CONSTANTS
    Runs = {r1, r2}
    Names = {n1}
    Passwords = {p1, p2}
    Clients = {c1}
    NoToken = NoToken
    NoAdmin = NoAdmin
    TokenLife = 2
    CookieLife = 2
    MaxSecrets = 2
SPECIFICATION FairSpec
INVARIANT TypeOK
INVARIANT CreatedCanLogIn
PROPERTY RemovedStayOut
PROPERTY SessionsEnd
