------------------------------- MODULE Admins -------------------------------
(***************************************************************************)
(* Who may use the panel: scripts/create_admin.py, run by operators, and   *)
(* the two ways in - POST /api/auth/login with a Bearer token, the login   *)
(* page with a cookie - that get_current_admin and its sibling for pages   *)
(* check.  A row of `admins' has the name of the run that inserted it.     *)
(***************************************************************************)
EXTENDS Naturals

CONSTANTS
    Runs,          \* of create_admin.py
    Names, Passwords,
    Clients,
    NoToken, NoAdmin,
    TokenLife,     \* JWT_EXPIRE_MINUTES, in ticks of the clock
    CookieLife,    \* the max_age of the cookie, twelve hours
    MaxSecrets     \* bounds how often JWT_SECRET is replaced

VARIABLES
    admins,   \* the rows of `admins': the name and password of each, or NoAdmin
    removed,  \* the rows an operator has deleted by hand
    step,     \* where each run of the script is
    typed,    \* the name and password typed into it
    told,     \* how it ended
    secret,   \* JWT_SECRET
    cookie,   \* the session_token cookie of each client, or NoToken
    bearer,   \* the token it sends in the Authorization header, or NoToken
    visit,    \* the request each client has made and the admin its token names
    answer    \* the status code of the last answer to it

script == <<admins, removed, step, typed, told>>
vars == <<script, secret, cookie, bearer, visit, answer>>

Account == [name : Names, password : Passwords]

\* What the payload says, and how much longer the token and the cookie are good for.
Token == [sub : Runs, key : 1..MaxSecrets, left : 0..TokenLife, kept : 0..CookieLife]

ASSUME AdminsAssumption ==
    /\ TokenLife \in Nat \ {0} /\ CookieLife \in Nat \ {0} /\ MaxSecrets \in Nat \ {0}
    /\ NoToken \notin Token /\ NoAdmin \notin Account /\ NoAdmin \notin Runs

Pages == {"dashboard", "node", "partial"}

Idle == [what |-> "nothing", sub |-> NoAdmin]

TypeOK ==
    /\ admins \in [Runs -> Account \cup {NoAdmin}]
    /\ removed \subseteq Runs
    /\ step \in [Runs -> {"prompt", "check", "insert", "over"}]
    /\ typed \in [Runs -> Account \cup {NoAdmin}]
    /\ told \in [Runs -> {"nothing", "rejected", "exists", "created", "failed"}]
    /\ secret \in 1..MaxSecrets
    /\ cookie \in [Clients -> Token \cup {NoToken}]
    /\ bearer \in [Clients -> Token \cup {NoToken}]
    /\ visit \in [Clients -> [what : Pages \cup {"api", "nothing"},
                              sub : Runs \cup {NoAdmin}]]
    /\ answer \in [Clients -> {0, 200, 303, 307, 401, 404, 500}]
    /\ \A r \in Runs : (step[r] = "over") = (told[r] # "nothing")

Init ==
    /\ admins = [r \in Runs |-> NoAdmin] /\ removed = {}
    /\ step = [r \in Runs |-> "prompt"] /\ typed = [r \in Runs |-> NoAdmin]
    /\ told = [r \in Runs |-> "nothing"]
    /\ secret = 1
    /\ cookie = [c \in Clients |-> NoToken] /\ bearer = [c \in Clients |-> NoToken]
    /\ visit = [c \in Clients |-> Idle] /\ answer = [c \in Clients |-> 0]
----------------------------------------------------------------------------
(* create_admin.py.                                                        *)

Exit(r, result) ==
    /\ step' = [step EXCEPT ![r] = "over"]
    /\ told' = [told EXCEPT ![r] = result]

\* The name is empty, the passwords differ or the password is too short; or all is well.
Prompt(r) ==
    /\ step[r] = "prompt"
    /\ \/ Exit(r, "rejected") /\ UNCHANGED typed
       \/ /\ \E a \in Account : typed' = [typed EXCEPT ![r] = a]
          /\ step' = [step EXCEPT ![r] = "check"]
          /\ UNCHANGED told
    /\ UNCHANGED <<admins, removed, secret, cookie, bearer, visit, answer>>

\* SELECT ... WHERE username = name.
Named(n) == {r \in Runs : admins[r] # NoAdmin /\ admins[r].name = n}

\* Mutant: the script says that the admin exists and goes on.
CheckGoesOn(r) ==
    /\ step[r] = "check"
    /\ step' = [step EXCEPT ![r] = "insert"]
    /\ told' = IF Named(typed[r].name) # {} THEN [told EXCEPT ![r] = "exists"] ELSE told
    /\ UNCHANGED <<admins, removed, typed, secret, cookie, bearer, visit, answer>>

Check(r) ==
    /\ step[r] = "check"
    /\ IF Named(typed[r].name) # {} THEN Exit(r, "exists")
       ELSE step' = [step EXCEPT ![r] = "insert"] /\ UNCHANGED told
    /\ UNCHANGED <<admins, removed, typed, secret, cookie, bearer, visit, answer>>

\* Mutant: username is not unique.
InsertAnyway(r) ==
    /\ step[r] = "insert"
    /\ admins' = [admins EXCEPT ![r] = typed[r]] /\ Exit(r, "created")
    /\ UNCHANGED <<removed, typed, secret, cookie, bearer, visit, answer>>

\* The index on username refuses what another run has inserted since the check.
Insert(r) ==
    /\ step[r] = "insert"
    /\ IF Named(typed[r].name) # {} THEN Exit(r, "failed") /\ UNCHANGED admins
       ELSE admins' = [admins EXCEPT ![r] = typed[r]] /\ Exit(r, "created")
    /\ UNCHANGED <<removed, typed, secret, cookie, bearer, visit, answer>>

\* Nothing in the panel deletes an admin; an operator may, in the database.
Remove(r) ==
    /\ admins[r] # NoAdmin
    /\ admins' = [admins EXCEPT ![r] = NoAdmin] /\ removed' = removed \cup {r}
    /\ UNCHANGED <<step, typed, told, secret, cookie, bearer, visit, answer>>

\* The operator edits .env and restarts the panel, which loses the requests in flight.
Rotate ==
    /\ secret < MaxSecrets
    /\ secret' = secret + 1
    /\ visit' = [c \in Clients |-> Idle] /\ answer' = [c \in Clients |-> 0]
    /\ UNCHANGED <<script, cookie, bearer>>
----------------------------------------------------------------------------
(* Logging in and out.                                                     *)

\* One row, with that password; scalar_one_or_none raises if there are two.
LoginCode(n, w) ==
    IF \E r, o \in Named(n) : r # o THEN 500
    ELSE IF \E r \in Named(n) : admins[r].password = w THEN 200
    ELSE 401

Issue(r) == [sub |-> r, key |-> secret, left |-> TokenLife, kept |-> CookieLife]

Reply(c, code) == answer' = [answer EXCEPT ![c] = code]

\* POST /api/auth/login: the client keeps the token for its Authorization header.
ApiLogin(c, n, w) ==
    /\ visit[c] = Idle
    /\ Reply(c, LoginCode(n, w))
    /\ bearer' = IF LoginCode(n, w) = 200
                 THEN [bearer EXCEPT ![c] = Issue(CHOOSE r \in Named(n) : TRUE)]
                 ELSE bearer
    /\ UNCHANGED <<script, secret, cookie, visit>>

\* POST /login: the browser keeps it as a cookie and follows the redirect.
LoginSubmit(c, n, w) ==
    /\ visit[c] = Idle
    /\ Reply(c, IF LoginCode(n, w) = 200 THEN 303 ELSE LoginCode(n, w))
    /\ cookie' = IF LoginCode(n, w) = 200
                 THEN [cookie EXCEPT ![c] = Issue(CHOOSE r \in Named(n) : TRUE)]
                 ELSE cookie
    /\ UNCHANGED <<script, secret, bearer, visit>>

\* GET /logout: the token itself stays good.
Logout(c) ==
    /\ visit[c] = Idle
    /\ cookie' = [cookie EXCEPT ![c] = NoToken]
    /\ Reply(c, 303)
    /\ UNCHANGED <<script, secret, bearer, visit>>
----------------------------------------------------------------------------
(* Requests that need an admin.                                            *)

\* The signature is right and exp has not passed.
Decodes(t) == t # NoToken /\ t.key = secret /\ t.left > 0

\* The header, if there is one, before the cookie; pages look at the cookie only.
TokenOf(c, what) == IF what = "api" /\ bearer[c] # NoToken THEN bearer[c] ELSE cookie[c]

Refusal(what) == IF what \in {"api", "partial"} THEN 401 ELSE 307

Ask(c, what) ==
    /\ visit[c] = Idle
    /\ IF Decodes(TokenOf(c, what))
       THEN /\ visit' = [visit EXCEPT ![c] = [what |-> what, sub |-> TokenOf(c, what).sub]]
            /\ Reply(c, 0)
       ELSE Reply(c, Refusal(what)) /\ UNCHANGED visit
    /\ UNCHANGED <<script, secret, cookie, bearer>>

\* Mutant: looks the admin up by the name in the token.
LookUpByName(c) ==
    /\ visit[c] # Idle
    /\ \/ Named(typed[visit[c].sub].name) = {} /\ Reply(c, Refusal(visit[c].what))
       \/ Named(typed[visit[c].sub].name) # {} /\ Reply(c, 200)
    /\ visit' = [visit EXCEPT ![c] = Idle]
    /\ UNCHANGED <<script, secret, cookie, bearer>>

\* session.get(Admin, sub), then the page or the handler; the node of a node's page
\* may not be there, or its id be none.
LookUp(c) ==
    /\ visit[c] # Idle
    /\ \/ admins[visit[c].sub] = NoAdmin /\ Reply(c, Refusal(visit[c].what))
       \/ admins[visit[c].sub] # NoAdmin /\ Reply(c, 200)
       \/ /\ admins[visit[c].sub] # NoAdmin /\ visit[c].what = "node"
          /\ \E code \in {404, 500} : Reply(c, code)
    /\ visit' = [visit EXCEPT ![c] = Idle]
    /\ UNCHANGED <<script, secret, cookie, bearer>>

\* Mutant: the payload has no exp.
AgedNever(t) == [t EXCEPT !.kept = IF @ = 0 THEN 0 ELSE @ - 1]

Aged(t) == [t EXCEPT !.left = IF @ = 0 THEN 0 ELSE @ - 1,
                     !.kept = IF @ = 0 THEN 0 ELSE @ - 1]

\* Time passes, and browsers drop cookies past their max_age.
Tick ==
    /\ cookie' = [c \in Clients |->
                    IF cookie[c] = NoToken \/ Aged(cookie[c]).kept = 0 THEN NoToken
                    ELSE Aged(cookie[c])]
    /\ bearer' = [c \in Clients |-> IF bearer[c] = NoToken THEN NoToken ELSE Aged(bearer[c])]
    /\ UNCHANGED <<script, secret, visit, answer>>
----------------------------------------------------------------------------
Next ==
    \/ \E r \in Runs : Prompt(r) \/ Check(r) \/ Insert(r) \/ Remove(r)
    \/ Rotate \/ Tick
    \/ \E c \in Clients :
         \/ \E n \in Names, w \in Passwords : ApiLogin(c, n, w) \/ LoginSubmit(c, n, w)
         \/ Logout(c) \/ LookUp(c)
         \/ \E what \in Pages \cup {"api"} : Ask(c, what)

Spec == Init /\ [][Next]_vars

\* Clocks run.
FairSpec == Spec /\ WF_vars(Tick)
----------------------------------------------------------------------------
\* What create_admin.py said is true, whatever other runs did between its check and its
\* insert: the account it created can log in with the password typed, until an operator
\* deletes it.
CreatedCanLogIn ==
    \A r \in Runs :
        told[r] = "created" /\ r \notin removed
            => LoginCode(typed[r].name, typed[r].password) = 200

\* The token of a deleted admin never admits anyone, not even when an admin of the same
\* name has been created since: the token names the row, and the row is looked up after
\* the signature has been checked.
RemovedStayOut ==
    [][\A c \in Clients :
         visit[c] # Idle /\ visit'[c] = Idle /\ answer'[c] = 200
            => visit[c].sub \notin removed]_vars

LogsIn(c) ==
    \E n \in Names, w \in Passwords : ApiLogin(c, n, w) \/ LoginSubmit(c, n, w)

\* A client that stops logging in is out for good in the end: using a session does not
\* prolong it, whichever of the two ways in it takes.
SessionsEnd ==
    \A c \in Clients :
        <>[][~LogsIn(c)]_vars => <>[](~Decodes(bearer[c]) /\ ~Decodes(cookie[c]))
============================================================================
