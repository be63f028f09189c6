------------------------------ MODULE MobiChar ------------------------------
(***************************************************************************)
(* Characters that are loaded for players on mobile (CMobiCharManager and  *)
(* the hooks in the login code), and the db server's part in it            *)
(* (CClientManager::MobiLogin, MobiWarp).                                  *)
(*                                                                         *)
(* The bridge asks the auth core to load a character.  The auth core       *)
(* checks the password with a DESC that has no socket behind it and hands  *)
(* the login key to the db server, which tells the auth core to drop the   *)
(* DESC and a game core to log in with the key.  A character that enters   *)
(* the game at an unsafe place warps, perhaps to another core, the same    *)
(* way.  Every core keeps its own list of these DESCs, descs_, and tells   *)
(* the bridge on its own connection how each load goes.  Messages between  *)
(* a core and the db server keep their order; nothing else is ordered.     *)
(*                                                                         *)
(* Answers of the database for a DESC that is gone are dropped by the      *)
(* server (handles are not used again) and do not appear here.  The        *)
(* shutdown of a core, when these functions return at once, is left out.   *)
(***************************************************************************)
EXTENDS Naturals, Sequences

CONSTANTS
    Auth,           \* the auth core
    GameCores,      \* the other cores
    Pids,           \* characters
    MaxDescs        \* bound: DESCs created for mobile

ASSUME CoresAssumption == Auth \notin GameCores /\ MaxDescs \in Nat

VARIABLES
    descs,          \* for each core its descs_: the handle kept for a character
    desc,           \* DESC_MANAGER: the mobile DESCs by handle
    m_iHandleCount, \* handles given out (by all cores: no two share a number)
    gd,             \* for each core, what it sent to the db server
    dg,             \* for each core, what the db server sent to it
    told,           \* for each core, what it last told the bridge of a character
    verified        \* the login keys whose password was right

vars == <<descs, desc, m_iHandleCount, gd, dg, told, verified>>

Cores == {Auth} \cup GameCores
Handles == 1..MaxDescs
None == 0                   \* no entry

\* The phases of a DESC: the password is being checked; the db server registers
\* the login; the key was handed on; the login by key, and then the character,
\* are awaited; nothing more is awaited; the character is in game.
Phases == {"AUTH", "AUTH_LOGIN", "SENT", "LOGIN", "SELECT", "STUCK", "GAME"}

\* A login key is the handle of the DESC it was created for.
Desc == [core : Cores, key : Handles, phase : Phases, idle : BOOLEAN]

\* EMobiLoad; "FAILED" stands for every code for which IsLoadFailed holds, LOGOUT
\* and NO_ACTIVITY among them.
EMobiLoad == {"LOADING", "SUCCESS", "FAILED"}

Init ==
    /\ descs = [c \in Cores |-> [p \in Pids |-> None]]
    /\ desc = [h \in {} |-> None]
    /\ m_iHandleCount = 0
    /\ gd = [c \in Cores |-> <<>>]
    /\ dg = [c \in Cores |-> <<>>]
    /\ told = [c \in Cores |-> [p \in Pids |-> "none"]]
    /\ verified = {}

-----------------------------------------------------------------------------
(***************************************************************************)
(* The operations on descs_.                                               *)
(***************************************************************************)
\* DestroyDesc
Without(d, hs) == [h \in DOMAIN d \ hs |-> d[h]]

\* MobiGetByHandleID: the characters (at most one) kept under a handle.
MobiGetByHandleID(c, h) == {p \in Pids : descs[c][p] = h}

\* EraseByKey of some characters, whose DESCs the destructor of TMobiCharacter
\* destroys if they are still there.
EraseByKey(c, ps) ==
    /\ descs' = [descs EXCEPT ![c] = [p \in Pids |-> IF p \in ps THEN None ELSE @[p]]]
    /\ desc' = Without(desc, {descs[c][p] : p \in ps})

\* sendChLoadStatus
sendChLoadStatus(c, ps, code) ==
    told' = [told EXCEPT ![c] = [p \in Pids |-> IF p \in ps THEN code ELSE @[p]]]

\* NotifyStatus with a code that ends the load.
NotifyFailed(h) ==
    LET c == desc[h].core
    IN  /\ EraseByKey(c, MobiGetByHandleID(c, h))
        /\ sendChLoadStatus(c, MobiGetByHandleID(c, h), "FAILED")

\* CreateDesc and Emplace: a new DESC joins d under the next handle.
NewDesc(d, c, key, phase) ==
    LET n == m_iHandleCount + 1
    IN  [h \in DOMAIN d \cup {n} |->
            IF h = n THEN [core |-> c, key |-> key, phase |-> phase, idle |-> FALSE]
            ELSE d[h]]

CreateDesc == m_iHandleCount < MaxDescs /\ m_iHandleCount' = m_iHandleCount + 1

\* SetPhase, in the steps of a load that count as activity.
SetPhase(h, phase) ==
    desc' = [desc EXCEPT ![h].phase = phase, ![h].idle = FALSE]

-----------------------------------------------------------------------------
(***************************************************************************)
(* The auth core.                                                          *)
(***************************************************************************)
\* CInputAuth::Login with the new DESC: the account is asked for, or the login is
\* refused and the DESC is gone again.
AuthLogin(p) ==
    \/ /\ descs' = [descs EXCEPT ![Auth][p] = m_iHandleCount']
       /\ desc' = NewDesc(desc, Auth, m_iHandleCount', "AUTH")
       /\ UNCHANGED told
    \/ /\ sendChLoadStatus(Auth, {p}, "FAILED")
       /\ UNCHANGED <<descs, desc>>

\* CharacterLoad, asked for by the bridge (LOAD_CH).  A character that is being
\* loaded, and a login name this core knows, change nothing.  What P2P knows of
\* the other cores comes late: it may find the character there, loaded for mobile
\* or not, or miss it.
CharacterLoad(p) ==
    /\ descs[Auth][p] = None
    /\ \/ /\ \E code \in {"SUCCESS", "FAILED"} : sendChLoadStatus(Auth, {p}, code)
          /\ UNCHANGED <<descs, desc, m_iHandleCount>>
       \/ CreateDesc /\ AuthLogin(p)
    /\ UNCHANGED <<gd, dg, verified>>

\* QID_AUTH_LOGIN: the account's row has come, and is refused for one of many
\* reasons or not.
AnalyzeReturnQuery(h) ==
    /\ desc[h].phase = "AUTH"
    /\ \/ NotifyFailed(h)
       \/ /\ desc' = [desc EXCEPT ![h].phase = "AUTH_LOGIN"]
          /\ UNCHANGED <<descs, told>>
    /\ UNCHANGED <<m_iHandleCount, gd, dg, verified>>

\* GetMostAvailCore: the game core with the fewest users, by counts that come
\* late, so for all we know any.
GetMostAvailCore == GameCores

\* SendMobiLogin, after NotifyStatus(LOADING).
SendMobiLogin(h) ==
    LET ps == MobiGetByHandleID(Auth, h)
    IN  /\ desc' = [desc EXCEPT ![h].phase = "SENT"]
        /\ sendChLoadStatus(Auth, ps, "LOADING")
        /\ \E p \in ps :
              gd' = [gd EXCEPT ![Auth] =
                        Append(@, [pid |-> p, key |-> desc[h].key, targets |-> GetMostAvailCore])]
        /\ UNCHANGED descs

\* Mutant of HandleLoginResult: a refused login is handed on as well.
HandleLoginResultAnyway(h) ==
    /\ desc[h].phase = "AUTH_LOGIN"
    /\ SendMobiLogin(h)
    /\ verified' \in {verified, verified \cup {desc[h].key}}
    /\ UNCHANGED <<m_iHandleCount, dg>>

\* AuthLogin and HandleLoginResult.
HandleLoginResult(h) ==
    /\ desc[h].phase = "AUTH_LOGIN"
    /\ \/ /\ SendMobiLogin(h)
          /\ verified' = verified \cup {desc[h].key}
       \/ /\ NotifyFailed(h)                        \* WRONG_PWD
          /\ UNCHANGED <<gd, verified>>
    /\ UNCHANGED <<m_iHandleCount, dg>>

-----------------------------------------------------------------------------
(***************************************************************************)
(* The db server.                                                          *)
(***************************************************************************)
\* Mutant of MobiLogin: the order goes to every core that would do, not to one.
MobiLoginAll(c) ==
    /\ gd[c] # <<>>
    /\ gd' = [gd EXCEPT ![c] = Tail(@)]
    /\ LET m == Head(gd[c])
           login == [header |-> "LOGIN", pid |-> m.pid, key |-> m.key]
       IN  dg' = [k \in Cores |-> IF k \in m.targets THEN Append(dg[k], login) ELSE dg[k]]
    /\ UNCHANGED <<descs, desc, m_iHandleCount, told, verified>>

\* MobiLogin and MobiWarp: the requesting core is told to drop the character and
\* the target to log in.  Nothing happens if the login data or the target is
\* not there.
MobiLogin(c) ==
    /\ gd[c] # <<>>
    /\ gd' = [gd EXCEPT ![c] = Tail(@)]
    /\ LET m == Head(gd[c])
           logout == [header |-> "LOGOUT", pid |-> m.pid, key |-> m.key]
           login == [header |-> "LOGIN", pid |-> m.pid, key |-> m.key]
       IN  \/ UNCHANGED dg
           \/ \E target \in m.targets :
                 dg' = [k \in Cores |->
                          dg[k] \o (IF k = c THEN <<logout>> ELSE <<>>)
                                \o (IF k = target THEN <<login>> ELSE <<>>)]
    /\ UNCHANGED <<descs, desc, m_iHandleCount, told, verified>>

-----------------------------------------------------------------------------
(***************************************************************************)
(* Every core.                                                             *)
(***************************************************************************)
\* Mutant of HandleLogout: the bridge is not told.
HandleLogoutSilently(c) ==
    /\ dg[c] # <<>> /\ Head(dg[c]).header = "LOGOUT"
    /\ EraseByKey(c, {Head(dg[c]).pid})
    /\ dg' = [dg EXCEPT ![c] = Tail(@)]
    /\ UNCHANGED <<m_iHandleCount, gd, told, verified>>

\* HandleLogout (HEADER_DG_MOBI_LOGOUT): whatever entry the character has now.
HandleLogout(c) ==
    /\ dg[c] # <<>> /\ Head(dg[c]).header = "LOGOUT"
    /\ LET ps == {p \in {Head(dg[c]).pid} : descs[c][p] # None}
       IN  EraseByKey(c, ps) /\ sendChLoadStatus(c, ps, "FAILED")          \* LOGOUT
    /\ dg' = [dg EXCEPT ![c] = Tail(@)]
    /\ UNCHANGED <<m_iHandleCount, gd, verified>>

\* Mutant of SendLoginRequest: an entry that is there is not erased, so that
\* Emplace refuses the new one.
SendLoginRequestKeeps(c) ==
    /\ dg[c] # <<>> /\ Head(dg[c]).header = "LOGIN"
    /\ CreateDesc
    /\ LET m == Head(dg[c])
       IN  /\ desc' = NewDesc(desc, c, m.key, "LOGIN")
           /\ descs' = [descs EXCEPT ![c][m.pid] = IF @ = None THEN m_iHandleCount' ELSE @]
    /\ dg' = [dg EXCEPT ![c] = Tail(@)]
    /\ UNCHANGED <<gd, told, verified>>

\* CInputLogin::LoginByKey with a new DESC besides those that are left: the db
\* server is asked, or the core takes no more players (SHUTDOWN, USER_LIMIT).
LoginByKey(c, m, left) ==
    \/ /\ desc' = NewDesc(left, c, m.key, "LOGIN")
       /\ descs' = [descs EXCEPT ![c][m.pid] = m_iHandleCount']
       /\ UNCHANGED told
    \/ /\ desc' = left
       /\ descs' = [descs EXCEPT ![c][m.pid] = None]
       /\ sendChLoadStatus(c, {m.pid}, "FAILED")

\* SendLoginRequest (HEADER_DG_MOBI_LOGIN).  The character's old entry goes
\* without a word to the bridge, and so does any DESC of the same login key.  The
\* server makes a key for one DESC of the auth core, so that no player's own DESC has
\* the key of a mobile login and the return for one that has is not taken.
SendLoginRequest(c) ==
    /\ dg[c] # <<>> /\ Head(dg[c]).header = "LOGIN"
    /\ CreateDesc
    /\ LET m == Head(dg[c])
           sameKey == {h \in DOMAIN desc : desc[h].core = c /\ desc[h].key = m.key}
       IN  LoginByKey(c, m, Without(desc, {descs[c][m.pid]} \cup sameKey))
    /\ dg' = [dg EXCEPT ![c] = Tail(@)]
    /\ UNCHANGED <<gd, verified>>

\* CInputLogin::CharacterSelect: the character is asked for, or refused.
InputCharacterSelect(h) ==
    \/ SetPhase(h, "SELECT") /\ UNCHANGED <<descs, told>>
    \/ NotifyFailed(h)

\* CharacterSelect: the character is looked for among those of the account; if it
\* is not there, nothing more happens.
CharacterSelect(h) ==
    \/ InputCharacterSelect(h)
    \/ /\ desc' = [desc EXCEPT ![h].phase = "STUCK"]
       /\ UNCHANGED <<descs, told>>

\* LoginSuccess, or one of the answers that refuse the login.
LoginSuccess(h) ==
    /\ desc[h].phase = "LOGIN"
    /\ NotifyFailed(h) \/ CharacterSelect(h)
    /\ UNCHANGED <<m_iHandleCount, gd, dg, verified>>

\* SendMobiWarp to the core that has the place.
SendMobiWarp(h, target) ==
    LET c == desc[h].core
    IN  \E p \in MobiGetByHandleID(c, h) :
            gd' = [gd EXCEPT ![c] =
                      Append(@, [pid |-> p, key |-> desc[h].key, targets |-> {target}])]

\* GoToSafePosition: a character at an unsafe place warps to a safe one.
GoToSafePosition(h) ==
    \/ UNCHANGED gd
    \/ \E target \in GameCores : SendMobiWarp(h, target)

\* Entergame
Entergame(h) ==
    /\ GoToSafePosition(h)
    /\ SetPhase(h, "GAME")
    /\ sendChLoadStatus(desc[h].core, MobiGetByHandleID(desc[h].core, h), "SUCCESS")
    /\ UNCHANGED descs

\* PlayerLoad, or the answer that the character cannot be loaded.
PlayerLoad(h) ==
    /\ desc[h].phase = "SELECT"
    /\ \/ NotifyFailed(h) /\ UNCHANGED gd
       \/ Entergame(h)
    /\ UNCHANGED <<m_iHandleCount, dg, verified>>

\* HandleModifyCharacter(DISCONNECT), and the server when the player himself logs
\* in: the DESC goes, its entry stays.
Disconnect(h) ==
    /\ desc[h].phase = "GAME"
    /\ desc' = Without(desc, {h})
    /\ UNCHANGED <<descs, m_iHandleCount, gd, dg, told, verified>>

\* An offline shop request of the player is activity.
HandleOffshop(h) ==
    /\ desc[h].phase = "GAME"
    /\ desc' = [desc EXCEPT ![h].idle = FALSE]
    /\ UNCHANGED <<descs, m_iHandleCount, gd, dg, told, verified>>

\* The activity timeout of a DESC passes.
Idle(h) ==
    /\ ~desc[h].idle
    /\ desc' = [desc EXCEPT ![h].idle = TRUE]
    /\ UNCHANGED <<descs, m_iHandleCount, gd, dg, told, verified>>

Stale(c, p) == descs[c][p] # None /\ descs[c][p] \notin DOMAIN desc

\* Mutants of Inactive: only idle DESCs, and only missing ones, are noticed.
InactiveIdle(c) ==
    {p \in Pids : descs[c][p] \in DOMAIN desc /\ desc[descs[c][p]].idle}
InactiveMissing(c) == {p \in Pids : Stale(c, p)}

\* The characters Process finds to remove.
Inactive(c) ==
    {p \in Pids : /\ descs[c][p] # None
                  /\ descs[c][p] \in DOMAIN desc => desc[descs[c][p]].idle}

\* Process
Process(c) ==
    /\ EraseByKey(c, Inactive(c))
    /\ sendChLoadStatus(c, Inactive(c), "FAILED")      \* NO_ACTIVITY
    /\ UNCHANGED <<m_iHandleCount, gd, dg, verified>>

Next ==
    \/ \E p \in Pids : CharacterLoad(p)
    \/ \E h \in DOMAIN desc :
          \/ AnalyzeReturnQuery(h) \/ HandleLoginResult(h)
          \/ LoginSuccess(h) \/ PlayerLoad(h)
          \/ Disconnect(h) \/ HandleOffshop(h) \/ Idle(h)
    \/ \E c \in Cores : MobiLogin(c) \/ HandleLogout(c) \/ Process(c)
    \/ \E c \in GameCores : SendLoginRequest(c)

Spec == Init /\ [][Next]_vars

\* Heartbeats go on, and a DESC of the auth core, where no player acts, gets idle.
FairSpec ==
    /\ Spec
    /\ \A c \in Cores : WF_vars(Process(c))
    /\ WF_vars(\E h \in DOMAIN desc : desc[h].core = Auth /\ Idle(h))

-----------------------------------------------------------------------------
(***************************************************************************)
(* Properties.                                                             *)
(***************************************************************************)
GDMessage == [pid : Pids, key : Handles, targets : SUBSET GameCores]
DGMessage == [header : {"LOGIN", "LOGOUT"}, pid : Pids, key : Handles]

\* Type invariant.
TypeOK ==
    /\ descs \in [Cores -> [Pids -> Handles \cup {None}]]
    /\ DOMAIN desc \subseteq 1..m_iHandleCount
    /\ \A h \in DOMAIN desc : desc[h] \in Desc
    /\ m_iHandleCount \in 0..MaxDescs
    /\ gd \in [Cores -> Seq(GDMessage)]
    /\ dg \in [Cores -> Seq(DGMessage)]
    /\ told \in [Cores -> [Pids -> EMobiLoad \cup {"none"}]]
    /\ verified \subseteq Handles

\* A DESC without a socket is closed by nobody but Process, which looks through
\* descs_: every one has its entry there, however logins, warps and logouts of
\* the same character overtake each other.
Supervised ==
    \A h \in DOMAIN desc : MobiGetByHandleID(desc[h].core, h) # {}

\* A core that told the bridge that a character is loading or loaded has it
\* still, or has told the bridge of its end.  (The auth core's SUCCESS is what
\* P2P said of another core.)
ToldTheEnd ==
    \A c \in Cores : \A p \in Pids :
        (told[c][p] = "LOADING" \/ (told[c][p] = "SUCCESS" /\ c # Auth))
            => descs[c][p] # None

\* Only a login whose password was checked reaches a game core.
AuthFirst ==
    \A h \in DOMAIN desc : desc[h].core \in GameCores => desc[h].key \in verified

\* The loads under way: DESCs whose character is not in game yet, requests on their way
\* to the db server, and its orders to log in.
Loads ==
    {<<"DESC", desc[h].core, h>> : h \in {k \in DOMAIN desc :
            desc[k].phase \in {"AUTH", "AUTH_LOGIN", "LOGIN", "SELECT"}}}
        \cup (UNION {{<<"GD", c, i>> : i \in 1..Len(gd[c])} : c \in Cores})
        \cup (UNION {{<<"DG", c, i>> : i \in {j \in 1..Len(dg[c]) :
                                                dg[c][j].header = "LOGIN"}} : c \in Cores})

LoginKey(x) ==
    CASE x[1] = "DESC" -> desc[x[3]].key
      [] x[1] = "GD"   -> gd[x[2]][x[3]].key
      [] x[1] = "DG"   -> dg[x[2]][x[3]].key

\* A checked password opens one load at a time: however requests, orders, logouts and
\* warps of a character overtake each other, its login key is never on its way twice,
\* nor is it being loaded while the key is on its way to another core.
OneLoad == \A x, y \in Loads : LoginKey(x) = LoginKey(y) => x = y

\* An entry whose DESC was destroyed by others goes in the end ("it is checked
\* and cleaned up automatically in process", ch_manager.h).
StaleGoes == \A c \in Cores : \A p \in Pids : Stale(c, p) ~> ~Stale(c, p)

\* A load never blocks the auth core for good, whatever answer or message gets
\* lost on the way: a later request for the character is served.
LoadEnds == \A p \in Pids : descs[Auth][p] # None ~> descs[Auth][p] = None
=============================================================================
