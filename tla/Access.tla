------------------------------- MODULE Access -------------------------------
(***************************************************************************)
(* Accounts, logins and permissions (server.cpp: handleMessage,            *)
(* handleLogin, handleRegister, requireAuth; order_store.cpp: the users    *)
(* table).  Handlers run one at a time on the io thread, so each is one    *)
(* action.  Seeding the default users is four transactions, and the        *)
(* process can die between them.                                           *)
(***************************************************************************)
EXTENDS Naturals, Sequences

CONSTANTS Sessions,     \* connections
          Strings,      \* user names and passwords
          Credentials,  \* the pairs <<username, password>> clients send
          Admin, Trader, Viewer, Guest,   \* the names of the default users
          AutoName,     \* the name given when authentication is off
          Empty,        \* the empty string
          TooLong       \* a string beyond the length limits

ASSUME StringsAssumption ==
         /\ {Admin, Trader, Viewer, Guest, AutoName, Empty, TooLong} \subseteq Strings
         /\ Credentials \subseteq Strings \X Strings
         /\ Empty \notin {Admin, Trader, Viewer, Guest}
         /\ Admin \notin {Trader, Viewer, Guest}
         /\ Trader \notin {Viewer, Guest} /\ Viewer # Guest

Permissions == {"trade", "view", "admin"}

(* hashPassword, verifyPassword: sha256 is taken to be free of collisions; *)
(* the random salt plays no role.  An empty password is stored as it is.   *)
Stored(p) == [hashed |-> p # Empty, of |-> p]

Verifies(p, stored) == stored.of = p /\ stored.hashed = (p # Empty)

Row(p, perms) == [password |-> Stored(p), permissions |-> perms]

VARIABLES phase,          \* "down", "seeding" or "up"
          auth_required,  \* auth_required_, from the command line
          store,          \* is there an order_store_?
          users,          \* the users table
          seeded,         \* how many default users this start has written
          session,        \* the state of each Session object
          did,            \* history: kinds of request served since the login
          told            \* history: registrations confirmed to a client

avars == <<phase, auth_required, store, users, seeded, session, did, told>>

NoSession == [open |-> FALSE, authenticated |-> FALSE, username |-> Empty,
              permissions |-> {}, given |-> Empty]

Rows == [password : [hashed : BOOLEAN, of : Strings],
         permissions : SUBSET Permissions]

AInit == /\ phase = "down"
         /\ auth_required = FALSE /\ store = FALSE
         /\ users = <<>>
         /\ seeded = 0
         /\ session = [s \in Sessions |-> NoSession]
         /\ did = [s \in Sessions |-> {}]
         /\ told = {}

----------------------------------------------------------------------------
(* Starting: the store may fail to open, and then the server runs without. *)

(* INSERT OR REPLACE INTO users *)
saveUser(n, row) ==
  users' = [m \in DOMAIN users \cup {n} |-> IF m = n THEN row ELSE users[m]]

Seeds == << <<Admin, Row(Admin, Permissions)>>,
            <<Trader, Row(Trader, {"trade", "view"})>>,
            <<Viewer, Row(Viewer, {"view"})>>,
            <<Guest, Row(Empty, {"trade", "view"})>> >>

NeedsSeeding == DOMAIN users = {}

Start == /\ phase = "down"
         /\ auth_required' \in BOOLEAN
         /\ store' \in BOOLEAN
         /\ phase' = IF store' /\ NeedsSeeding THEN "seeding" ELSE "up"
         /\ seeded' = 0
         /\ UNCHANGED <<users, session, did, told>>

seedDefaultUsers ==
  /\ phase = "seeding"
  /\ saveUser(Seeds[seeded + 1][1], Seeds[seeded + 1][2])
  /\ seeded' = seeded + 1
  /\ phase' = IF seeded' = Len(Seeds) THEN "up" ELSE "seeding"
  /\ UNCHANGED <<auth_required, store, session, did, told>>

Crash == /\ phase # "down"
         /\ phase' = "down"
         /\ session' = [s \in Sessions |-> NoSession]
         /\ did' = [s \in Sessions |-> {}]
         /\ UNCHANGED <<auth_required, store, users, seeded, told>>

Connect(s) == /\ phase = "up" /\ ~session[s].open
              /\ session' = [session EXCEPT ![s].open = TRUE]
              /\ UNCHANGED <<phase, auth_required, store, users, seeded, did, told>>

Disconnect(s) == /\ session[s].open
                 /\ session' = [session EXCEPT ![s] = NoSession]
                 /\ did' = [did EXCEPT ![s] = {}]
                 /\ UNCHANGED <<phase, auth_required, store, users, seeded, told>>

----------------------------------------------------------------------------
(* p opens account n. *)
Opens(n, p) == n \in DOMAIN users /\ Verifies(p, users[n].password)

authenticateUser(n, p) == Opens(n, p)

LoginPermissions(n) ==
  IF store /\ n \in DOMAIN users THEN users[n].permissions ELSE {"trade", "view"}

LoggedIn(s, n, p) ==
  /\ session' = [session EXCEPT
                   ![s] = [open |-> TRUE, authenticated |-> TRUE, username |-> n,
                           permissions |-> LoginPermissions(n), given |-> p]]
  /\ did' = [did EXCEPT ![s] = {}]

(* A refused login leaves the session as it was, logged in or not. *)
handleLogin(s, n, p) ==
  /\ session[s].open
  /\ IF ~store \/ n = Guest \/ authenticateUser(n, p)
     THEN LoggedIn(s, n, p)
     ELSE UNCHANGED <<session, did>>
  /\ UNCHANGED <<phase, auth_required, store, users, seeded, told>>

(* A mutant: the check for an existing account is missing. *)
MayReRegister(n, p) == store /\ {n, p} \cap {Empty, TooLong} = {}

MayRegister(n, p) == /\ {n, p} \cap {Empty, TooLong} = {}
                     /\ store
                     /\ n \notin DOMAIN users

handleRegister(s, n, p) ==
  /\ session[s].open
  /\ MayRegister(n, p)
  /\ saveUser(n, Row(p, {"trade", "view"}))
  /\ told' = told \cup {<<n, p>>}
  /\ UNCHANGED <<phase, auth_required, store, seeded, session, did>>

(* Refused, or saveUser fails: only the answer differs. *)
RegisterRefused(s, n, p) == session[s].open /\ UNCHANGED avars

hasPermission(s, perm) == perm \in session[s].permissions

(* A mutant: being logged in is enough. *)
AllowedIfLoggedIn(s, perm) == ~auth_required \/ session[s].authenticated

(* The requests that requireAuth lets through. *)
Allowed(s, perm) ==
  ~auth_required \/ (session[s].authenticated /\ hasPermission(s, perm))

AutoLogin(r) == [r EXCEPT !.authenticated = TRUE, !.permissions = Permissions,
                          !.username = AutoName]

(* Submitting and canceling need "trade", snapshots and status "view". *)
Request(s, perm) ==
  /\ session[s].open
  /\ Allowed(s, perm)
  /\ session' = IF ~auth_required /\ ~session[s].authenticated
                THEN [session EXCEPT ![s] = AutoLogin(@)]
                ELSE session
  /\ did' = [did EXCEPT ![s] = @ \cup {perm}]
  /\ UNCHANGED <<phase, auth_required, store, users, seeded, told>>

RequestRefused(s, perm) ==
  session[s].open /\ ~Allowed(s, perm) /\ UNCHANGED avars

ANext == \/ Start \/ seedDefaultUsers \/ Crash
         \/ \E s \in Sessions :
              \/ Connect(s) \/ Disconnect(s)
              \/ \E c \in Credentials : \/ handleLogin(s, c[1], c[2])
                                        \/ handleRegister(s, c[1], c[2])
                                        \/ RegisterRefused(s, c[1], c[2])
              \/ \E perm \in {"trade", "view"} :
                   Request(s, perm) \/ RequestRefused(s, perm)

ASpec == AInit /\ [][ANext]_avars

----------------------------------------------------------------------------
(* The variables have their types; a connection starts without a login, and *)
(* there is none while the server is down or seeds the users.               *)
ATypeOK ==
  /\ phase \in {"down", "seeding", "up"}
  /\ auth_required \in BOOLEAN /\ store \in BOOLEAN
  /\ DOMAIN users \subseteq Strings /\ users \in [DOMAIN users -> Rows]
  /\ seeded \in 0 .. Len(Seeds)
  /\ session \in [Sessions -> [open : BOOLEAN, authenticated : BOOLEAN,
                               username : Strings, given : Strings,
                               permissions : SUBSET Permissions]]
  /\ did \in [Sessions -> SUBSET Permissions]
  /\ told \subseteq Strings \X Strings
  /\ \A s \in Sessions : /\ session[s].open => phase = "up"
                         /\ ~session[s].open => session[s] = NoSession /\ did[s] = {}

Guarded == auth_required /\ store

(* With authentication on, who is logged in gave the password of the account *)
(* as it stands, or is the guest: failed logins, later registrations and    *)
(* logins under another name on the same connection do not change that      *)
(* (handleLogin).                                                           *)
LoginProved ==
  Guarded =>
    \A s \in Sessions : session[s].authenticated =>
      \/ session[s].username = Guest
      \/ Opens(session[s].username, session[s].given)

(* With authentication on, what a connection got done since its login is    *)
(* allowed by the row of its account as it stands now; the guest may have   *)
(* no row (handleMessage, requireAuth).                                     *)
Authorised ==
  Guarded =>
    \A s \in Sessions : did[s] # {} =>
      /\ session[s].authenticated
      /\ IF session[s].username \in DOMAIN users
         THEN did[s] \subseteq users[session[s].username].permissions
         ELSE session[s].username = Guest

(* Who was told that the registration succeeded can log in with it, also    *)
(* after any number of restarts (handleRegister, seedDefaultUsers).         *)
RegisteredStays == \A c \in told : Opens(c[1], c[2])

(* All three, whatever logins, registrations, requests, crashes and restarts *)
(* came before (handleLogin, handleRegister, requireAuth).                  *)
AccessSound == LoginProved /\ Authorised /\ RegisteredStays

(* No step changes or removes an account, although saveUser replaces rows.  *)
AccountsKept ==
  [][\A n \in DOMAIN users : n \in DOMAIN users' /\ users'[n] = users[n]]_avars
=============================================================================
