----------------------------- MODULE AdminsProofs -----------------------------
(***************************************************************************)
(* Theorems about Admins, for any number of names, runs and clients.       *)
(***************************************************************************)
EXTENDS Admins, TLAPS

\* A row is the account typed into the run that inserted it, and names differ.
RowsOK ==
    /\ \A r \in Runs : step[r] \in {"check", "insert"} => typed[r] \in Account
    /\ \A r \in Runs : admins[r] # NoAdmin
                          => admins[r] = typed[r] /\ told[r] = "created" /\ typed[r] \in Account
    /\ \A r \in Runs : told[r] = "created" /\ r \notin removed => admins[r] # NoAdmin
    /\ \A r \in removed : admins[r] = NoAdmin /\ told[r] = "created"
    /\ \A r, o \in Runs :
         admins[r] # NoAdmin /\ admins[o] # NoAdmin /\ admins[r].name = admins[o].name => r = o

\* A request past its token names a row, dead or alive.
VisitsOK == \A c \in Clients : visit[c] # Idle => visit[c].sub \in Runs

AInv == TypeOK /\ RowsOK /\ VisitsOK

\* A successful login has found a row.
LEMMA LoginFinds ==
    ASSUME NEW n, NEW w, LoginCode(n, w) = 200
    PROVE  (CHOOSE r \in Named(n) : TRUE) \in Named(n)
BY DEF LoginCode

LEMMA LoginCodeType ==
    ASSUME NEW n, NEW w
    PROVE  LoginCode(n, w) \in {200, 401, 500}
BY DEF LoginCode

LEMMA IssueType ==
    ASSUME TypeOK, NEW r \in Runs
    PROVE  Issue(r) \in Token
BY AdminsAssumption DEF Issue, Token, TypeOK

LEMMA AgedType ==
    ASSUME NEW t \in Token
    PROVE  Aged(t) \in Token
<1> DEFINE Less(n) == IF n = 0 THEN 0 ELSE n - 1
<1>1. Less(t.left) \in 0..TokenLife /\ Less(t.kept) \in 0..CookieLife
  BY AdminsAssumption DEF Token
<1> DEFINE u == [t EXCEPT !.left = Less(t.left)]
<1>2. Aged(t) = [u EXCEPT !.kept = Less(u.kept)]
  BY DEF Aged
<1> HIDE DEF Less
<1>3. u \in Token /\ u.kept = t.kept
  BY <1>1 DEF Token
<1> HIDE DEF u
<1>4. QED BY <1>1, <1>2, <1>3 DEF Token

LEMMA RepliedType ==
    ASSUME TypeOK, NEW c, NEW code \in {0, 200, 303, 307, 401, 404, 500}, Reply(c, code)
    PROVE  answer' \in [Clients -> {0, 200, 303, 307, 401, 404, 500}]
BY DEF Reply, TypeOK

LEMMA InitAInv == Init => AInv
BY AdminsAssumption DEF Init, AInv, TypeOK, RowsOK, VisitsOK, Idle

\* The steps of the script, and of the operator in the database.
LEMMA ScriptSteps ==
    ASSUME AInv, NEW r \in Runs,
           Prompt(r) \/ Check(r) \/ Insert(r) \/ Remove(r)
    PROVE  AInv'
<1>0. UNCHANGED <<secret, cookie, bearer, visit, answer>>
  BY DEF Prompt, Check, Insert, Remove
<1>1. VisitsOK'
  BY <1>0 DEF AInv, VisitsOK
<1>2. CASE Prompt(r)
  <2>1. CASE Exit(r, "rejected") /\ UNCHANGED typed
    <3>1. /\ step[r] = "prompt" /\ step' = [step EXCEPT ![r] = "over"]
          /\ told' = [told EXCEPT ![r] = "rejected"] /\ UNCHANGED <<typed, admins, removed>>
      BY <1>2, <2>1 DEF Prompt, Exit
    <3>2. TypeOK'
      BY <3>1, <1>0 DEF AInv, TypeOK
    <3>3. RowsOK'
      BY <3>1 DEF AInv, TypeOK, RowsOK
    <3>4. QED BY <3>2, <3>3, <1>1 DEF AInv
  <2>2. CASE /\ \E a \in Account : typed' = [typed EXCEPT ![r] = a]
             /\ step' = [step EXCEPT ![r] = "check"]
             /\ UNCHANGED told
    <3>1. TypeOK'
      BY <1>2, <2>2, <1>0 DEF Prompt, AInv, TypeOK
    <3>2. told[r] # "created"
      BY <1>2 DEF Prompt, AInv, TypeOK
    <3>3. RowsOK'
      BY <1>2, <2>2, <3>2, <1>0 DEF Prompt, AInv, TypeOK, RowsOK
    <3>4. QED BY <3>1, <3>3, <1>1 DEF AInv
  <2>3. QED BY <1>1, <1>2, <2>1, <2>2 DEF Prompt, AInv
<1>3. CASE Check(r)
  <2>1. /\ step[r] = "check" /\ UNCHANGED <<typed, admins, removed>>
        /\ \/ /\ step' = [step EXCEPT ![r] = "over"]
              /\ told' = [told EXCEPT ![r] = "exists"]
           \/ step' = [step EXCEPT ![r] = "insert"] /\ UNCHANGED told
    BY <1>3 DEF Check, Exit
  <2>2. TypeOK'
    BY <2>1, <1>0 DEF AInv, TypeOK
  <2>3. RowsOK'
    BY <2>1 DEF AInv, TypeOK, RowsOK
  <2>4. QED BY <2>2, <2>3, <1>1 DEF AInv
<1>4. CASE Insert(r)
  <2>1. typed[r] \in Account /\ r \notin removed
    BY <1>4 DEF Insert, AInv, RowsOK, TypeOK
  <2>2. TypeOK'
    <3>1. /\ admins' = admins \/ admins' = [admins EXCEPT ![r] = typed[r]]
          /\ step' = [step EXCEPT ![r] = "over"] /\ UNCHANGED <<removed, typed>>
          /\ \E result \in {"failed", "created"} : told' = [told EXCEPT ![r] = result]
      BY <1>4 DEF Insert, Exit
    <3>2. admins' \in [Runs -> Account \cup {NoAdmin}]
      BY <3>1, <2>1 DEF AInv, TypeOK
    <3>3. /\ step' \in [Runs -> {"prompt", "check", "insert", "over"}]
          /\ told' \in [Runs -> {"nothing", "rejected", "exists", "created", "failed"}]
          /\ \A o \in Runs : (step'[o] = "over") = (told'[o] # "nothing")
      BY <3>1 DEF AInv, TypeOK
    <3>4. QED BY <1>0, <3>1, <3>2, <3>3 DEF AInv, TypeOK
  <2>3. CASE Named(typed[r].name) # {}
    <3>1. /\ step' = [step EXCEPT ![r] = "over"]
          /\ told' = [told EXCEPT ![r] = "failed"] /\ UNCHANGED <<typed, admins, removed>>
          /\ step[r] = "insert"
      BY <1>4, <2>3 DEF Insert, Exit
    <3>2. RowsOK'
      BY <3>1 DEF AInv, TypeOK, RowsOK
    <3>3. QED BY <2>2, <3>2, <1>1 DEF AInv
  <2>4. CASE Named(typed[r].name) = {}
    <3>1. /\ admins' = [admins EXCEPT ![r] = typed[r]]
          /\ told' = [told EXCEPT ![r] = "created"]
          /\ step' = [step EXCEPT ![r] = "over"]
          /\ UNCHANGED <<typed, removed>>
      BY <1>4, <2>4 DEF Insert, Exit
    <3>2. \A o \in Runs : admins[o] # NoAdmin => admins[o].name # typed[r].name
      BY <2>4 DEF Named
    <3>3. RowsOK'
      <4>1. \A o, q \in Runs : admins'[o] # NoAdmin /\ admins'[q] # NoAdmin
                                 /\ admins'[o].name = admins'[q].name => o = q
        BY <2>1, <3>1, <3>2 DEF AInv, TypeOK, RowsOK
      <4>2. typed[r] # NoAdmin
        BY <2>1, AdminsAssumption
      <4>3. /\ \A o \in Runs : admins'[o] # NoAdmin
                 => admins'[o] = typed[o] /\ told'[o] = "created" /\ typed[o] \in Account
            /\ \A o \in Runs : told'[o] = "created" /\ o \notin removed => admins'[o] # NoAdmin
            /\ \A o \in Runs : step'[o] \in {"check", "insert"} => typed[o] \in Account
            /\ \A o \in removed : admins'[o] = NoAdmin /\ told'[o] = "created"
        BY <2>1, <3>1, <4>2 DEF AInv, TypeOK, RowsOK
      <4>4. QED BY <3>1, <4>1, <4>3 DEF RowsOK
    <3>4. QED BY <2>2, <3>3, <1>1 DEF AInv
  <2>5. QED BY <2>3, <2>4
<1>5. CASE Remove(r)
  <2>1. /\ admins[r] # NoAdmin /\ admins' = [admins EXCEPT ![r] = NoAdmin]
        /\ removed' = removed \cup {r} /\ UNCHANGED <<step, typed, told>>
    BY <1>5 DEF Remove
  <2>2. TypeOK'
    BY <2>1, <1>0 DEF AInv, TypeOK
  <2>3. RowsOK'
    BY <2>1, AdminsAssumption DEF AInv, TypeOK, RowsOK
  <2>4. QED BY <2>2, <2>3, <1>1 DEF AInv
<1>6. QED BY <1>2, <1>3, <1>4, <1>5

\* The requests of a client leave the script's state alone.
LEMMA ClientSteps ==
    ASSUME AInv, NEW c \in Clients,
           \/ \E n \in Names, w \in Passwords : ApiLogin(c, n, w) \/ LoginSubmit(c, n, w)
           \/ Logout(c)
           \/ \E what \in Pages \cup {"api"} : Ask(c, what)
           \/ LookUp(c)
    PROVE  AInv'
<1>0. UNCHANGED <<script, secret>>
  BY DEF ApiLogin, LoginSubmit, Logout, Ask, LookUp
<1>1. RowsOK'
  BY <1>0 DEF AInv, RowsOK, script
<1>2. ASSUME NEW n \in Names, NEW w \in Passwords, LoginCode(n, w) = 200
      PROVE  Issue(CHOOSE r \in Named(n) : TRUE) \in Token
  <2> DEFINE found == CHOOSE r \in Named(n) : TRUE
  <2>1. found \in Named(n)
    BY <1>2, LoginFinds
  <2> HIDE DEF found
  <2>2. found \in Runs
    BY <2>1 DEF Named
  <2>3. QED BY <2>2, IssueType DEF found, AInv
<1>3. ASSUME NEW n \in Names, NEW w \in Passwords, ApiLogin(c, n, w)
      PROVE  TypeOK' /\ VisitsOK'
  <2> DEFINE t == Issue(CHOOSE r \in Named(n) : TRUE)
  <2>1. \/ bearer' = bearer
        \/ t \in Token /\ bearer' = [bearer EXCEPT ![c] = t]
    BY <1>2, <1>3 DEF ApiLogin
  <2> HIDE DEF t
  <2>2. bearer' \in [Clients -> Token \cup {NoToken}]
    BY <2>1 DEF AInv, TypeOK
  <2>3. answer' \in [Clients -> {0, 200, 303, 307, 401, 404, 500}]
    BY <1>3, LoginCodeType, RepliedType DEF ApiLogin, AInv
  <2>4. UNCHANGED <<cookie, visit>>
    BY <1>3 DEF ApiLogin
  <2>5. TypeOK'
    BY <1>0, <2>2, <2>3, <2>4 DEF AInv, TypeOK, script
  <2>6. VisitsOK'
    BY <2>4 DEF AInv, VisitsOK
  <2>7. QED BY <2>5, <2>6
<1>4. ASSUME NEW n \in Names, NEW w \in Passwords, LoginSubmit(c, n, w)
      PROVE  TypeOK' /\ VisitsOK'
  <2> DEFINE t == Issue(CHOOSE r \in Named(n) : TRUE)
  <2>1. \/ cookie' = cookie
        \/ t \in Token /\ cookie' = [cookie EXCEPT ![c] = t]
    BY <1>2, <1>4 DEF LoginSubmit
  <2> HIDE DEF t
  <2>2. cookie' \in [Clients -> Token \cup {NoToken}]
    BY <2>1 DEF AInv, TypeOK
  <2>3. answer' \in [Clients -> {0, 200, 303, 307, 401, 404, 500}]
    BY <1>4, LoginCodeType, RepliedType DEF LoginSubmit, AInv
  <2>4. UNCHANGED <<bearer, visit>>
    BY <1>4 DEF LoginSubmit
  <2>5. TypeOK'
    BY <1>0, <2>2, <2>3, <2>4 DEF AInv, TypeOK, script
  <2>6. VisitsOK'
    BY <2>4 DEF AInv, VisitsOK
  <2>7. QED BY <2>5, <2>6
<1>5. CASE Logout(c)
  <2>1. answer' \in [Clients -> {0, 200, 303, 307, 401, 404, 500}]
    BY <1>5, RepliedType DEF Logout, AInv
  <2>2. cookie' \in [Clients -> Token \cup {NoToken}] /\ UNCHANGED <<bearer, visit>>
    BY <1>5 DEF Logout, AInv, TypeOK
  <2>3. TypeOK'
    BY <1>0, <2>1, <2>2 DEF AInv, TypeOK, script
  <2>4. VisitsOK'
    BY <2>2 DEF AInv, VisitsOK
  <2>5. QED BY <2>3, <2>4, <1>1 DEF AInv
<1>6. ASSUME NEW what \in Pages \cup {"api"}, Ask(c, what)
      PROVE  TypeOK' /\ VisitsOK'
  <2> DEFINE v == [what |-> what, sub |-> TokenOf(c, what).sub]
  <2>1. Decodes(TokenOf(c, what))
          => v \in [what : Pages \cup {"api", "nothing"}, sub : Runs \cup {NoAdmin}]
             /\ v.sub \in Runs
    BY DEF Decodes, TokenOf, AInv, TypeOK, Token
  <2>2. \/ visit' = visit
        \/ Decodes(TokenOf(c, what)) /\ visit' = [visit EXCEPT ![c] = v]
    BY <1>6 DEF Ask
  <2> HIDE DEF v
  <2>3. /\ visit' \in [Clients -> [what : Pages \cup {"api", "nothing"},
                                   sub : Runs \cup {NoAdmin}]]
        /\ VisitsOK'
    BY <2>1, <2>2 DEF AInv, TypeOK, VisitsOK
  <2>4. answer' \in [Clients -> {0, 200, 303, 307, 401, 404, 500}]
    BY <1>6, RepliedType DEF Ask, Refusal, AInv
  <2>5. UNCHANGED <<cookie, bearer>>
    BY <1>6 DEF Ask
  <2>6. QED BY <1>0, <2>3, <2>4, <2>5 DEF AInv, TypeOK, script
<1>7. CASE LookUp(c)
  <2>1. Idle \in [what : Pages \cup {"api", "nothing"}, sub : Runs \cup {NoAdmin}]
    BY DEF Idle
  <2>2. answer' \in [Clients -> {0, 200, 303, 307, 401, 404, 500}]
    BY <1>7, RepliedType DEF LookUp, Refusal, AInv
  <2>3. visit' = [visit EXCEPT ![c] = Idle] /\ UNCHANGED <<cookie, bearer>>
    BY <1>7 DEF LookUp
  <2>4. TypeOK'
    BY <1>0, <2>1, <2>2, <2>3 DEF AInv, TypeOK, script
  <2>5. VisitsOK'
    BY <2>3 DEF AInv, TypeOK, VisitsOK
  <2>6. QED BY <2>4, <2>5, <1>1 DEF AInv
<1>8. QED BY <1>1, <1>3, <1>4, <1>5, <1>6, <1>7 DEF AInv

LEMMA TickStep ==
    ASSUME AInv, Tick
    PROVE  AInv'
<1>1. RowsOK' /\ VisitsOK'
  BY DEF Tick, AInv, RowsOK, VisitsOK, script
<1>2. ASSUME NEW c \in Clients
      PROVE  /\ cookie[c] # NoToken => Aged(cookie[c]) \in Token
             /\ bearer[c] # NoToken => Aged(bearer[c]) \in Token
  BY AgedType DEF AInv, TypeOK
<1>3. TypeOK'
  BY <1>2 DEF Tick, AInv, TypeOK, script
<1>4. QED BY <1>1, <1>3 DEF AInv

LEMMA RotateStep ==
    ASSUME AInv, Rotate
    PROVE  AInv'
<1>1. TypeOK'
  BY AdminsAssumption DEF Rotate, AInv, TypeOK, script, Idle
<1>2. RowsOK' /\ VisitsOK'
  BY DEF Rotate, AInv, RowsOK, VisitsOK, script
<1>3. QED BY <1>1, <1>2 DEF AInv

LEMMA NextAInv == AInv /\ [Next]_vars => AInv'
<1> SUFFICES ASSUME AInv, [Next]_vars PROVE AInv'
  OBVIOUS
<1>1. CASE UNCHANGED vars
  BY <1>1 DEF vars, script, AInv, TypeOK, RowsOK, VisitsOK
<1>2. CASE Next
  BY <1>2, ScriptSteps, ClientSteps, TickStep, RotateStep DEF Next
<1>3. QED BY <1>1, <1>2

LEMMA AlwaysAInv == Spec => []AInv
BY InitAInv, NextAInv, PTL DEF Spec

\* Every state of the panel's accounts and sessions has its type.
THEOREM AdminsTypeCorrect == Spec => []TypeOK
BY AlwaysAInv, PTL DEF AInv

\* However many runs of create_admin.py interleave, the one that reports success has made
\* an account that can log in: the unique index refuses the others.
THEOREM CreatedMeansLogin == Spec => []CreatedCanLogIn
<1>1. AInv => CreatedCanLogIn
  <2> SUFFICES ASSUME AInv, NEW r \in Runs, told[r] = "created", r \notin removed
               PROVE  LoginCode(typed[r].name, typed[r].password) = 200
    BY DEF CreatedCanLogIn
  <2>1. r \in Named(typed[r].name) /\ admins[r].password = typed[r].password
    BY DEF Named, AInv, RowsOK
  <2>2. \A o, q \in Named(typed[r].name) : o = q
    BY DEF Named, AInv, RowsOK
  <2>3. QED BY <2>1, <2>2 DEF LoginCode
<1>2. QED BY <1>1, AlwaysAInv, PTL

\* A deleted admin's token admits nobody, whoever has that name later.
THEOREM DeletedAdminsStayOut == Spec => RemovedStayOut
<1>1. ASSUME AInv, [Next]_vars, NEW c \in Clients,
             visit[c] # Idle, visit'[c] = Idle, answer'[c] = 200
      PROVE  visit[c].sub \notin removed
  <2>1. visit' # visit
    BY <1>1
  <2>2. ~Rotate
    BY <1>1 DEF Rotate
  <2>3. ~\E r \in Runs : Prompt(r) \/ Check(r) \/ Insert(r) \/ Remove(r)
    BY <2>1 DEF Prompt, Check, Insert, Remove
  <2>4. ~Tick
    BY <2>1 DEF Tick
  <2>5. PICK d \in Clients : LookUp(d) \/ \E what \in Pages \cup {"api"} : Ask(d, what)
    BY <1>1, <2>1, <2>2, <2>3, <2>4 DEF Next, vars, ApiLogin, LoginSubmit, Logout
  <2>6. d = c
    BY <1>1, <2>5 DEF LookUp, Ask, AInv, TypeOK
  <2>7. LookUp(c)
    BY <1>1, <2>5, <2>6 DEF Ask
  <2>8. admins[visit[c].sub] # NoAdmin
    BY <1>1, <2>7 DEF LookUp, Reply, Refusal, AInv, TypeOK
  <2>9. QED BY <1>1, <2>8 DEF AInv, RowsOK
<1>2. AInv /\ [Next]_vars =>
        \A c \in Clients : visit[c] # Idle /\ visit'[c] = Idle /\ answer'[c] = 200
                              => visit[c].sub \notin removed
  BY <1>1
<1>3. QED BY <1>2, AlwaysAInv, PTL DEF Spec, RemovedStayOut
=============================================================================
