---------------------------- MODULE AccessProofs ----------------------------
(***************************************************************************)
(* What Access checks on a small instance holds for any sets of sessions,  *)
(* strings and credentials.  The properties are not inductive: a login is  *)
(* served from the permissions the session remembers, so the invariant     *)
(* must say that they are those of the row; and no account is overwritten  *)
(* by seeding only because seeding starts with an empty table.             *)
(***************************************************************************)
EXTENDS Access, TLAPS

(* What a session remembers is what the table says. *)
SessionCurrent ==
  Guarded =>
    \A s \in Sessions : session[s].authenticated =>
      IF session[s].username \in DOMAIN users
      THEN session[s].permissions = users[session[s].username].permissions
      ELSE session[s].username = Guest /\ session[s].permissions = {"trade", "view"}

(* What was served since the login was in the permissions of the session. *)
ServedAllowed ==
  auth_required =>
    \A s \in Sessions : did[s] # {} => /\ session[s].authenticated
                                       /\ did[s] \subseteq session[s].permissions

(* Seeding fills an empty table with distinct names, in order. *)
Seeded(k) == {Seeds[i][1] : i \in 1 .. k}

SeedingSound ==
  phase = "seeding" => /\ seeded < 4
                       /\ DOMAIN users = Seeded(seeded)
                       /\ told = {}

AInv == /\ ATypeOK /\ LoginProved /\ SessionCurrent /\ ServedAllowed
        /\ SeedingSound /\ RegisteredStays

(* The accounts are kept by this step. *)
Kept == \A n \in DOMAIN users : n \in DOMAIN users' /\ users'[n] = users[n]

LEMMA SeedsLength == Len(Seeds) = 4
BY DEF Seeds

LEMMA RowType ==
  ASSUME NEW p \in Strings, NEW perms \in SUBSET Permissions
  PROVE  /\ Row(p, perms) \in Rows /\ Row(p, perms).permissions = perms
         /\ Verifies(p, Row(p, perms).password)
BY DEF Row, Rows, Stored, Verifies

LEMMA SeedType ==
  ASSUME NEW k \in 0 .. 3
  PROVE  /\ Seeds[k + 1][1] \in Strings /\ Seeds[k + 1][2] \in Rows
         /\ Seeds[k + 1][1] \notin Seeded(k)
         /\ Seeded(k + 1) = Seeded(k) \cup {Seeds[k + 1][1]}
<1>1. /\ Row(Admin, Permissions) \in Rows /\ Row(Trader, {"trade", "view"}) \in Rows
      /\ Row(Viewer, {"view"}) \in Rows /\ Row(Empty, {"trade", "view"}) \in Rows
  BY RowType, StringsAssumption DEF Permissions
<1>2. k = 0 \/ k = 1 \/ k = 2 \/ k = 3
  OBVIOUS
<1>3. Seeds[k + 1][1] \in Strings /\ Seeds[k + 1][2] \in Rows
  BY <1>1, <1>2, StringsAssumption DEF Seeds
<1>4. Seeds[k + 1][1] \notin Seeded(k)
  BY <1>2, StringsAssumption DEF Seeds, Seeded
<1>5. 1 .. (k + 1) = (1 .. k) \cup {k + 1}
  OBVIOUS
<1>6. Seeded(k + 1) = Seeded(k) \cup {Seeds[k + 1][1]}
  BY <1>5 DEF Seeded
<1> QED BY <1>3, <1>4, <1>6

(* Adding a row for a new name changes no other row. *)
LEMMA SaveNew ==
  ASSUME ATypeOK, NEW n \in Strings, NEW row \in Rows, n \notin DOMAIN users,
         saveUser(n, row)
  PROVE  /\ Kept /\ users'[n] = row
         /\ DOMAIN users' = DOMAIN users \cup {n}
         /\ DOMAIN users' \subseteq Strings /\ users' \in [DOMAIN users' -> Rows]
         /\ \A c \in told : Opens(c[1], c[2]) => Opens(c[1], c[2])'
         /\ \A m, p : Opens(m, p) => Opens(m, p)'
BY DEF ATypeOK, saveUser, Kept, Opens

LEMMA InitAInv == AInit => AInv
<1> SUFFICES ASSUME AInit PROVE AInv
  OBVIOUS
<1>1. ATypeOK
  <2>1. DOMAIN users = {} /\ users \in [{} -> Rows]
    BY DEF AInit
  <2>2. DOMAIN users \subseteq Strings /\ users \in [DOMAIN users -> Rows]
    BY <2>1
  <2>3. NoSession \in [open : BOOLEAN, authenticated : BOOLEAN, username : Strings,
                       given : Strings, permissions : SUBSET Permissions]
    BY StringsAssumption DEF NoSession
  <2>4. ~NoSession.open
    BY DEF NoSession
  <2>5. auth_required \in BOOLEAN /\ store \in BOOLEAN
    BY Zenon DEF AInit
  <2>7. seeded \in 0 .. Len(Seeds)
    BY SeedsLength DEF AInit
  <2>6. /\ session \in [Sessions -> [open : BOOLEAN, authenticated : BOOLEAN,
                                     username : Strings, given : Strings,
                                     permissions : SUBSET Permissions]]
        /\ did \in [Sessions -> SUBSET Permissions]
        /\ \A s \in Sessions : session[s] = NoSession /\ did[s] = {}
    BY <2>3 DEF AInit
  <2> QED BY <2>2, <2>4, <2>5, <2>6, <2>7 DEF AInit, ATypeOK
<1> QED BY <1>1 DEF AInit, AInv, LoginProved, SessionCurrent, ServedAllowed, SeedingSound,
             RegisteredStays, Guarded, NoSession

----------------------------------------------------------------------------
(* One lemma per kind of step. *)
LEMMA StartInv == AInv /\ Start => AInv' /\ Kept
<1> SUFFICES ASSUME AInv, Start PROVE AInv' /\ Kept
  OBVIOUS
<1> USE DEF AInv, Start
<1>1. \A s \in Sessions : session[s] = NoSession /\ did[s] = {}
  BY DEF ATypeOK
<1>2. ATypeOK'
  BY SeedsLength DEF ATypeOK
<1>3. LoginProved' /\ SessionCurrent' /\ ServedAllowed'
  BY <1>1 DEF LoginProved, SessionCurrent, ServedAllowed, NoSession
<1>4. RegisteredStays' /\ Kept
  BY DEF RegisteredStays, Opens, Kept
<1>5. SeedingSound'
  <2> SUFFICES ASSUME phase' = "seeding" PROVE SeedingSound'
    BY DEF SeedingSound
  <2>1. DOMAIN users = {}
    BY DEF NeedsSeeding
  <2>2. told = {}
    BY <2>1 DEF RegisteredStays, Opens
  <2>3. Seeded(0) = {}
    BY DEF Seeded
  <2> QED BY <2>1, <2>2, <2>3 DEF SeedingSound
<1> QED BY <1>2, <1>3, <1>4, <1>5

LEMMA SeedInv == AInv /\ seedDefaultUsers => AInv' /\ Kept
<1> SUFFICES ASSUME AInv, seedDefaultUsers PROVE AInv' /\ Kept
  OBVIOUS
<1> USE DEF AInv
<1> DEFINE n == Seeds[seeded + 1][1]
           row == Seeds[seeded + 1][2]
<1>1. /\ seeded \in 0 .. 3 /\ DOMAIN users = Seeded(seeded) /\ told = {}
      /\ \A s \in Sessions : session[s] = NoSession /\ did[s] = {}
  BY SeedsLength DEF ATypeOK, SeedingSound, seedDefaultUsers
<1>2. n \in Strings /\ row \in Rows /\ n \notin DOMAIN users
  BY <1>1, SeedType
<1>3. saveUser(n, row)
  BY DEF seedDefaultUsers
<1>4. /\ Kept /\ DOMAIN users' = DOMAIN users \cup {n}
      /\ DOMAIN users' \subseteq Strings /\ users' \in [DOMAIN users' -> Rows]
  BY <1>2, <1>3, SaveNew
<1>5. ATypeOK'
  BY <1>1, <1>4, SeedsLength DEF ATypeOK, seedDefaultUsers
<1>6. LoginProved' /\ SessionCurrent' /\ ServedAllowed' /\ RegisteredStays'
  BY <1>1 DEF LoginProved, SessionCurrent, ServedAllowed, RegisteredStays, NoSession,
              seedDefaultUsers
<1>7. SeedingSound'
  BY <1>1, <1>4, SeedType, SeedsLength DEF SeedingSound, seedDefaultUsers
<1> QED BY <1>4, <1>5, <1>6, <1>7

(* Steps that leave the table alone. *)
LEMMA TableSame ==
  ASSUME AInv, UNCHANGED <<users, told, auth_required, store, seeded>>,
         phase' # "seeding" \/ UNCHANGED phase
  PROVE  Kept /\ RegisteredStays' /\ SeedingSound'
BY DEF AInv, Kept, RegisteredStays, Opens, SeedingSound, Seeded

LEMMA CrashInv == AInv /\ Crash => AInv' /\ Kept
<1> SUFFICES ASSUME AInv, Crash PROVE AInv' /\ Kept
  OBVIOUS
<1>1. NoSession \in [open : BOOLEAN, authenticated : BOOLEAN, username : Strings,
                     given : Strings, permissions : SUBSET Permissions]
  BY StringsAssumption DEF NoSession
<1>2. ATypeOK'
  BY <1>1 DEF AInv, ATypeOK, Crash, NoSession
<1>3. LoginProved' /\ SessionCurrent' /\ ServedAllowed'
  BY DEF LoginProved, SessionCurrent, ServedAllowed, NoSession, Crash
<1> QED BY <1>2, <1>3, TableSame DEF AInv, Crash

LEMMA ConnectInv ==
  ASSUME AInv, NEW s \in Sessions, Connect(s) PROVE AInv' /\ Kept
<1>1. ATypeOK'
  BY DEF AInv, ATypeOK, Connect
<1>2. \A r \in Sessions : /\ session'[r].authenticated = session[r].authenticated
                          /\ session'[r].username = session[r].username
                          /\ session'[r].given = session[r].given
                          /\ session'[r].permissions = session[r].permissions
  BY DEF AInv, ATypeOK, Connect
<1>3. LoginProved' /\ SessionCurrent' /\ ServedAllowed'
  BY <1>2 DEF AInv, LoginProved, SessionCurrent, ServedAllowed, Connect, Guarded, Opens
<1> QED BY <1>1, <1>3, TableSame DEF AInv, Connect

LEMMA DisconnectInv ==
  ASSUME AInv, NEW s \in Sessions, Disconnect(s) PROVE AInv' /\ Kept
<1>0. NoSession \in [open : BOOLEAN, authenticated : BOOLEAN, username : Strings,
                     given : Strings, permissions : SUBSET Permissions]
  BY StringsAssumption DEF NoSession
<1>1. ATypeOK'
  BY <1>0 DEF AInv, ATypeOK, Disconnect, NoSession
<1>2. /\ ~session'[s].authenticated /\ did'[s] = {}
      /\ \A r \in Sessions \ {s} : session'[r] = session[r] /\ did'[r] = did[r]
  BY DEF AInv, ATypeOK, Disconnect, NoSession
<1>3. LoginProved' /\ SessionCurrent' /\ ServedAllowed'
  BY <1>2 DEF AInv, LoginProved, SessionCurrent, ServedAllowed, Disconnect, Guarded, Opens
<1> QED BY <1>1, <1>3, TableSame DEF AInv, Disconnect

LEMMA LoginInv ==
  ASSUME AInv, NEW s \in Sessions, NEW n \in Strings, NEW p \in Strings,
         handleLogin(s, n, p)
  PROVE  AInv' /\ Kept
<1>1. CASE UNCHANGED <<session, did>>
  <2>1. UNCHANGED avars
    BY <1>1 DEF handleLogin, avars
  <2> QED BY <2>1, TableSame DEF AInv, avars, ATypeOK, LoginProved, SessionCurrent,
                              ServedAllowed, Guarded, Opens
<1>2. CASE LoggedIn(s, n, p) /\ (~store \/ n = Guest \/ authenticateUser(n, p))
  <2>1. LoginPermissions(n) \in SUBSET Permissions
    BY DEF AInv, ATypeOK, Rows, LoginPermissions, Permissions
  <2>2. /\ session'[s] = [open |-> TRUE, authenticated |-> TRUE, username |-> n,
                          permissions |-> LoginPermissions(n), given |-> p]
        /\ did'[s] = {}
        /\ \A r \in Sessions \ {s} : session'[r] = session[r] /\ did'[r] = did[r]
    BY <1>2 DEF AInv, ATypeOK, LoggedIn
  <2>3. ATypeOK'
    BY <1>2, <2>1 DEF AInv, ATypeOK, LoggedIn, handleLogin
  <2>4. LoginProved'
    BY <1>2, <2>2 DEF AInv, LoginProved, handleLogin, Guarded, authenticateUser, Opens
  <2>5. SessionCurrent'
    BY <1>2, <2>2 DEF AInv, SessionCurrent, handleLogin, Guarded, authenticateUser,
                      Opens, LoginPermissions
  <2>6. ServedAllowed'
    BY <2>2 DEF AInv, ServedAllowed, handleLogin
  <2> QED BY <2>3, <2>4, <2>5, <2>6, TableSame DEF AInv, handleLogin
<1> QED BY <1>1, <1>2 DEF handleLogin

LEMMA RegisterInv ==
  ASSUME AInv, NEW s \in Sessions, NEW n \in Strings, NEW p \in Strings,
         handleRegister(s, n, p)
  PROVE  AInv' /\ Kept
<1> DEFINE row == Row(p, {"trade", "view"})
<1>1. row \in Rows /\ row.permissions = {"trade", "view"} /\ Verifies(p, row.password)
  BY RowType DEF Permissions
<1>2. n \notin DOMAIN users /\ saveUser(n, row)
  BY DEF handleRegister, MayRegister
<1>3. /\ Kept /\ users'[n] = row /\ DOMAIN users' = DOMAIN users \cup {n}
      /\ DOMAIN users' \subseteq Strings /\ users' \in [DOMAIN users' -> Rows]
      /\ \A m, q : Opens(m, q) => Opens(m, q)'
  BY <1>1, <1>2, SaveNew DEF AInv
<1>4. ATypeOK'
  BY <1>3 DEF AInv, ATypeOK, handleRegister
<1>5. LoginProved'
  BY <1>3 DEF AInv, LoginProved, Guarded, handleRegister
<1>6. SessionCurrent'
  BY <1>1, <1>3 DEF AInv, SessionCurrent, Guarded, handleRegister, Kept
<1>7. ServedAllowed'
  BY DEF AInv, ServedAllowed, handleRegister
<1>8. RegisteredStays'
  <2>1. Opens(n, p)'
    BY <1>1, <1>3 DEF Opens
  <2> QED BY <1>3, <2>1 DEF AInv, RegisteredStays, handleRegister
<1>9. SeedingSound'
  BY DEF AInv, SeedingSound, ATypeOK, handleRegister
<1> QED BY <1>3, <1>4, <1>5, <1>6, <1>7, <1>8, <1>9 DEF AInv

LEMMA RequestInv ==
  ASSUME AInv, NEW s \in Sessions, NEW perm \in {"trade", "view"}, Request(s, perm)
  PROVE  AInv' /\ Kept
<1>1. perm \in Permissions /\ did'[s] = did[s] \cup {perm}
      /\ \A r \in Sessions \ {s} : session'[r] = session[r] /\ did'[r] = did[r]
  BY DEF AInv, ATypeOK, Request, Permissions
<1>2. ATypeOK'
  <2>1. CASE session' = session
    BY <1>1, <2>1 DEF AInv, ATypeOK, Request
  <2>2. CASE session' = [session EXCEPT ![s] = AutoLogin(@)]
    <3>0. /\ AutoLogin(session[s]) \in [open : BOOLEAN, authenticated : BOOLEAN,
                                        username : Strings, given : Strings,
                                        permissions : SUBSET Permissions]
          /\ AutoLogin(session[s]).open = session[s].open
      BY StringsAssumption DEF AInv, ATypeOK, AutoLogin
    <3>1. /\ session' \in [Sessions -> [open : BOOLEAN, authenticated : BOOLEAN,
                                        username : Strings, given : Strings,
                                        permissions : SUBSET Permissions]]
          /\ session'[s].open
      BY <2>2, <3>0 DEF AInv, ATypeOK, Request
    <3> QED BY <1>1, <3>1 DEF AInv, ATypeOK, Request
  <2> QED BY <2>1, <2>2 DEF Request
<1>3. CASE auth_required
  <2>1. session' = session /\ session[s].authenticated /\ perm \in session[s].permissions
    BY <1>3 DEF Request, Allowed, hasPermission
  <2>2. LoginProved' /\ SessionCurrent'
    BY <2>1 DEF AInv, LoginProved, SessionCurrent, Request, Guarded, Opens
  <2>3. ServedAllowed'
    BY <1>1, <2>1 DEF AInv, ServedAllowed, Request
  <2> QED BY <1>2, <2>2, <2>3, TableSame DEF AInv, Request
<1>4. CASE ~auth_required
  <2>1. LoginProved' /\ SessionCurrent' /\ ServedAllowed'
    BY <1>4 DEF LoginProved, SessionCurrent, ServedAllowed, Request, Guarded
  <2> QED BY <1>2, <2>1, TableSame DEF AInv, Request
<1> QED BY <1>3, <1>4

LEMMA StutterInv == AInv /\ UNCHANGED avars => AInv' /\ Kept
BY TableSame DEF AInv, avars, ATypeOK, LoginProved, SessionCurrent, ServedAllowed,
                 Guarded, Opens

LEMMA NextAInv == AInv /\ [ANext]_avars => AInv' /\ Kept
<1> SUFFICES ASSUME AInv, [ANext]_avars PROVE AInv' /\ Kept
  OBVIOUS
<1>1. CASE Start \/ seedDefaultUsers \/ Crash
  BY <1>1, StartInv, SeedInv, CrashInv
<1>2. CASE UNCHANGED avars
  BY <1>2, StutterInv
<1>3. ASSUME NEW s \in Sessions, Connect(s) \/ Disconnect(s) PROVE AInv' /\ Kept
  BY <1>3, ConnectInv, DisconnectInv
<1>4. ASSUME NEW s \in Sessions, NEW c \in Credentials,
             \/ handleLogin(s, c[1], c[2]) \/ handleRegister(s, c[1], c[2])
             \/ RegisterRefused(s, c[1], c[2])
      PROVE AInv' /\ Kept
  <2>1. c[1] \in Strings /\ c[2] \in Strings
    BY StringsAssumption
  <2> QED BY <1>4, <2>1, LoginInv, RegisterInv, StutterInv DEF RegisterRefused
<1>5. ASSUME NEW s \in Sessions, NEW perm \in {"trade", "view"},
             Request(s, perm) \/ RequestRefused(s, perm)
      PROVE AInv' /\ Kept
  BY <1>5, RequestInv, StutterInv DEF RequestRefused
<1> QED BY <1>1, <1>2, <1>3, <1>4, <1>5 DEF ANext

----------------------------------------------------------------------------
(* Whoever is logged in proved it, and gets no more than the account allows; *)
(* a confirmed registration stays valid (handleLogin, requireAuth,           *)
(* handleRegister).                                                          *)
THEOREM AccessSafe == ASpec => []AccessSound
<1>1. AInv => AccessSound
  BY DEF AInv, AccessSound, Authorised, SessionCurrent, ServedAllowed, Guarded
<1> QED BY <1>1, InitAInv, NextAInv, PTL DEF ASpec

(* No step of the server changes or removes an account, although saveUser    *)
(* replaces rows.                                                            *)
THEOREM AccountsSafe == ASpec => AccountsKept
<1>1. AInv /\ [ANext]_avars => [Kept]_avars
  BY NextAInv
<1> QED BY <1>1, InitAInv, NextAInv, PTL DEF ASpec, AccountsKept, Kept
=============================================================================
