----------------------------- MODULE SyncProofs -----------------------------
(***************************************************************************)
(* The sync packet and the administrator's files, for any players, kinds   *)
(* of files and number of retries.                                         *)
(***************************************************************************)
EXTENDS Sync, TLAPS

\* The flag and the history of the sync packet belong to one cache.
CacheScoped ==
    /\ ~bridge_cache_ready => ~sync_packet_sent
    /\ ~sync_packet_sent => syncs = 0

\* Encryption is the session's.
EncryptedSession == is_encrypted => connected

Inv ==
    /\ TypeOK /\ PlayersReported /\ OneSync /\ SessionServed
    /\ CacheScoped /\ EncryptedSession

-----------------------------------------------------------------------------
\* Nothing is known and nothing is sent at first.
LEMMA InitInv == Init => Inv
  <1> SUFFICES ASSUME Init PROVE Inv
    OBVIOUS
  <1>1. TypeOK
    <2>1. retry_count \in 0..kMaxRetryCount /\ syncs \in Nat
      BY SyncAssumption DEF Init
    <2>2. /\ chars \in [Players -> {"none", "loaded", "game"}]
          /\ served \in [Kinds -> {"none", "sent", "failed"}]
      BY DEF Init
    <2>3. /\ authority \subseteq EAuthorityType
          /\ told \subseteq Players /\ missed \subseteq Players
      BY DEF Init
    <2>4. due \in [Kinds -> BOOLEAN] /\ stale \in [Kinds -> BOOLEAN]
      BY DEF Init
    <2>5. /\ connected \in BOOLEAN /\ is_encrypted \in BOOLEAN
          /\ bridge_cache_ready \in BOOLEAN /\ sync_packet_sent \in BOOLEAN
          /\ gave_up \in BOOLEAN
      BY Zenon DEF Init
    <2> QED BY <2>1, <2>2, <2>3, <2>4, <2>5 DEF TypeOK
  <1>2. PlayersReported /\ OneSync /\ SessionServed
    BY DEF Init, PlayersReported, OneSync, SessionServed
  <1>3. CacheScoped /\ EncryptedSession
    BY DEF Init, CacheScoped, EncryptedSession
  <1> QED BY <1>1, <1>2, <1>3 DEF Inv

\* What reading files changes.
LEMMA LoadFacts ==
    ASSUME TypeOK, NEW STATE kinds, kinds \in SUBSET Kinds, LoadConfigFile(kinds)
    PROVE  /\ due' \in [Kinds -> BOOLEAN] /\ stale' \in [Kinds -> BOOLEAN]
           /\ served' \in [Kinds -> {"none", "sent", "failed"}]
           /\ connected => \A k \in kinds : served'[k] # "none"
           /\ \A k \in Kinds : served[k] # "none" => served'[k] # "none"
  <1>1. due' \in [Kinds -> BOOLEAN] /\ stale' \in [Kinds -> BOOLEAN]
    BY DEF LoadConfigFile, TypeOK
  <1>2. PICK out \in [kinds -> LoadNotifications] :
            served' = [k \in Kinds |-> IF k \in kinds /\ connected THEN out[k] ELSE served[k]]
    BY DEF LoadConfigFile
  <1>3. \A k \in Kinds : served'[k] = IF k \in kinds /\ connected THEN out[k] ELSE served[k]
    BY <1>2
  <1>4. \A k \in kinds : k \in Kinds /\ out[k] \in {"sent", "failed"}
    BY DEF LoadNotifications
  <1>5. served' \in [Kinds -> {"none", "sent", "failed"}]
    BY <1>2, <1>4 DEF TypeOK
  <1> QED BY <1>1, <1>3, <1>4, <1>5

\* A core that ends starts as every core does.
LEMMA ThrowInv ==
    ASSUME Inv, NEW STATE kinds, SettingsThrow(kinds)
    PROVE  Inv'
  <1>1. /\ connected' = FALSE /\ is_encrypted' = FALSE
        /\ bridge_cache_ready' = FALSE /\ sync_packet_sent' = FALSE /\ gave_up' = FALSE
        /\ retry_count' = 0 /\ syncs' = 0 /\ authority' = {} /\ told' = {} /\ missed' = {}
        /\ chars' = [p \in Players |-> "none"] /\ served' = [k \in Kinds |-> "none"]
        /\ due' = [k \in Kinds |-> TRUE] /\ stale' = [k \in Kinds |-> TRUE]
    BY DEF SettingsThrow
  <1>2. TypeOK'
    <2>1. retry_count' \in 0..kMaxRetryCount /\ syncs' \in Nat
      BY <1>1, SyncAssumption
    <2>2. /\ chars' \in [Players -> {"none", "loaded", "game"}]
          /\ served' \in [Kinds -> {"none", "sent", "failed"}]
      BY <1>1
    <2>3. authority' \subseteq EAuthorityType /\ told' \subseteq Players /\ missed' \subseteq Players
      BY <1>1
    <2>4. due' \in [Kinds -> BOOLEAN] /\ stale' \in [Kinds -> BOOLEAN]
      BY <1>1
    <2>5. /\ connected' \in BOOLEAN /\ is_encrypted' \in BOOLEAN
          /\ bridge_cache_ready' \in BOOLEAN /\ sync_packet_sent' \in BOOLEAN
          /\ gave_up' \in BOOLEAN
      BY <1>1, Zenon
    <2> QED BY <2>1, <2>2, <2>3, <2>4, <2>5 DEF TypeOK
  <1>3. PlayersReported' /\ OneSync' /\ SessionServed'
    BY <1>1 DEF PlayersReported, OneSync, SessionServed
  <1>4. CacheScoped' /\ EncryptedSession'
    BY <1>1 DEF CacheScoped, EncryptedSession
  <1> QED BY <1>2, <1>3, <1>4 DEF Inv

\* Steps of the files: session, sync packet and players stay as they are.
LEMMA AdminKeeps ==
    ASSUME Inv, UNCHANGED <<session, sync, players>>,
           authority' \subseteq EAuthorityType,
           due' \in [Kinds -> BOOLEAN], stale' \in [Kinds -> BOOLEAN],
           served' \in [Kinds -> {"none", "sent", "failed"}],
           SessionServed'
    PROVE  Inv'
  <1>1. /\ UNCHANGED <<connected, is_encrypted, bridge_cache_ready, sync_packet_sent>>
        /\ UNCHANGED <<retry_count, syncs, gave_up, chars, told, missed>>
    BY DEF session, sync, players
  <1>2. TypeOK'
    BY <1>1 DEF Inv, TypeOK
  <1>3. PlayersReported' /\ OneSync'
    BY <1>1 DEF Inv, PlayersReported, OneSync, InGame
  <1>4. CacheScoped' /\ EncryptedSession'
    BY <1>1 DEF Inv, CacheScoped, EncryptedSession
  <1> QED BY <1>2, <1>3, <1>4 DEF Inv

\* No step at all.
LEMMA StutterInv == Inv /\ UNCHANGED vars => Inv'
  <1> SUFFICES ASSUME Inv, UNCHANGED vars PROVE Inv'
    OBVIOUS
  <1>1. /\ UNCHANGED <<session, sync, players>>
        /\ UNCHANGED <<authority, due, stale, served>>
    BY DEF vars, admin
  <1>2. SessionServed'
    BY <1>1 DEF Inv, SessionServed, session
  <1> QED BY <1>1, <1>2, AdminKeeps DEF Inv, TypeOK

\* The bridge gives an authority.
LEMMA SetAuthorityInv ==
    ASSUME Inv, NEW a \in SUBSET EAuthorityType, SetAuthority(a)
    PROVE  Inv'
  <1>1. connected /\ TypeOK
    BY DEF SetAuthority, Inv
  <1>2. CASE UNCHANGED vars
    BY <1>2, StutterInv
  <1>3. CASE authority' = a /\ Refresh(a) /\ UNCHANGED <<session, sync, players>>
    <2> DEFINE kinds == Kinds \cap a
    <2>1. kinds \in SUBSET Kinds /\ LoadConfigFile(kinds)
      BY <1>3 DEF Refresh
    <2> HIDE DEF kinds
    <2>2. /\ due' \in [Kinds -> BOOLEAN] /\ stale' \in [Kinds -> BOOLEAN]
          /\ served' \in [Kinds -> {"none", "sent", "failed"}]
          /\ \A k \in kinds : served'[k] # "none"
      BY <1>1, <2>1, LoadFacts
    <2>3. SessionServed'
      BY <1>1, <1>3, <2>2 DEF SessionServed, kinds
    <2> QED BY <1>1, <1>3, <2>2, <2>3, AdminKeeps
  <1>4. CASE SettingsThrow(a)
    BY <1>4, ThrowInv
  <1> QED BY <1>2, <1>3, <1>4 DEF SetAuthority

\* Files that are due are read.
LEMMA doWorkInv ==
    ASSUME Inv, doWork
    PROVE  Inv'
  <1> DEFINE kinds == {k \in authority \cap Kinds : due[k]}
  <1>1. TypeOK /\ kinds \in SUBSET Kinds
    BY DEF Inv
  <1>2. \/ LoadConfigFile(kinds) /\ UNCHANGED <<session, sync, players, authority>>
        \/ SettingsThrow(kinds)
    BY DEF doWork
  <1> HIDE DEF kinds
  <1>3. CASE LoadConfigFile(kinds) /\ UNCHANGED <<session, sync, players, authority>>
    <2>1. /\ due' \in [Kinds -> BOOLEAN] /\ stale' \in [Kinds -> BOOLEAN]
          /\ served' \in [Kinds -> {"none", "sent", "failed"}]
          /\ \A k \in Kinds : served[k] # "none" => served'[k] # "none"
      BY <1>1, <1>3, LoadFacts
    <2>2. SessionServed'
      BY <1>3, <2>1 DEF Inv, SessionServed, session
    <2> QED BY <1>1, <1>3, <2>1, <2>2, AdminKeeps DEF TypeOK
  <1>4. CASE SettingsThrow(kinds)
    BY <1>4, ThrowInv
  <1> QED BY <1>2, <1>3, <1>4

\* Time and the administrator.
LEMMA FilesInv ==
    ASSUME Inv, NEW k \in Kinds, IntervalPasses(k) \/ Edit(k)
    PROVE  Inv'
  <1>1. /\ UNCHANGED <<session, sync, players>> /\ UNCHANGED <<authority, served>>
        /\ due' \in [Kinds -> BOOLEAN] /\ stale' \in [Kinds -> BOOLEAN]
    BY DEF IntervalPasses, Edit, Inv, TypeOK
  <1>2. SessionServed'
    BY <1>1 DEF Inv, SessionServed, session, HasFlag
  <1> QED BY <1>1, <1>2, AdminKeeps DEF Inv, TypeOK

\* The session begins.
LEMMA ConnectInv ==
    ASSUME Inv, Connect
    PROVE  Inv'
  <1>1. /\ connected' = TRUE /\ UNCHANGED is_encrypted
        /\ UNCHANGED <<bridge_cache_ready, sync_packet_sent, retry_count, syncs, gave_up>>
        /\ UNCHANGED <<chars, told, missed>>
        /\ UNCHANGED <<authority, due, stale, served>>
    BY DEF Connect, sync, players, admin
  <1>2. TypeOK'
    BY <1>1 DEF Inv, TypeOK
  <1>3. PlayersReported' /\ OneSync' /\ SessionServed'
    BY <1>1 DEF Inv, PlayersReported, OneSync, SessionServed, InGame, HasFlag
  <1>4. CacheScoped' /\ EncryptedSession'
    BY <1>1 DEF Inv, CacheScoped, EncryptedSession
  <1> QED BY <1>2, <1>3, <1>4 DEF Inv

\* Encryption is enabled and the files are sent.
LEMMA OnEnabledEncInv ==
    ASSUME Inv, OnEnabledEnc, ~SettingsThrow(authority)
    PROVE  Inv'
  <1> DEFINE kinds == Kinds \cap authority
  <1>1. /\ connected /\ is_encrypted' = TRUE /\ UNCHANGED connected
        /\ UNCHANGED <<bridge_cache_ready, sync_packet_sent, retry_count, syncs, gave_up>>
        /\ UNCHANGED <<chars, told, missed>> /\ UNCHANGED authority
        /\ TypeOK /\ kinds \in SUBSET Kinds /\ LoadConfigFile(kinds)
    BY DEF OnEnabledEnc, sync, players, Refresh, Inv
  <1> HIDE DEF kinds
  <1>2. /\ due' \in [Kinds -> BOOLEAN] /\ stale' \in [Kinds -> BOOLEAN]
        /\ served' \in [Kinds -> {"none", "sent", "failed"}]
        /\ \A k \in kinds : served'[k] # "none"
    BY <1>1, LoadFacts
  <1>3. TypeOK'
    BY <1>1, <1>2 DEF TypeOK
  <1>4. SessionServed'
    BY <1>1, <1>2 DEF SessionServed, kinds
  <1>5. PlayersReported' /\ OneSync'
    BY <1>1 DEF Inv, PlayersReported, OneSync, InGame, HasFlag
  <1>6. CacheScoped' /\ EncryptedSession'
    BY <1>1 DEF Inv, CacheScoped, EncryptedSession
  <1> QED BY <1>3, <1>4, <1>5, <1>6 DEF Inv

\* The bridge's cache comes and goes.
LEMMA CacheFacts ==
    ASSUME Inv, NEW b \in BOOLEAN, SetBridgeCacheStatus(b)
    PROVE  /\ bridge_cache_ready' = b /\ sync_packet_sent' \in BOOLEAN
           /\ retry_count' = retry_count /\ chars' = chars
           /\ told' \subseteq Players /\ missed' \subseteq Players
           /\ syncs' \in Nat /\ gave_up' \in BOOLEAN
           /\ PlayersReported' /\ OneSync' /\ CacheScoped'
  <1>1. bridge_cache_ready' = b /\ retry_count' = retry_count /\ chars' = chars
    BY DEF SetBridgeCacheStatus
  <1>2. CASE /\ bridge_cache_ready /\ ~b
             /\ sync_packet_sent' = FALSE /\ syncs' = 0 /\ gave_up' = FALSE
             /\ told' = {} /\ missed' = {}
    <2>1. PlayersReported' /\ OneSync' /\ CacheScoped'
      BY <1>1, <1>2 DEF PlayersReported, OneSync, CacheScoped
    <2>2. /\ told' \subseteq Players /\ missed' \subseteq Players
          /\ syncs' \in Nat
      BY <1>2
    <2>3. sync_packet_sent' \in BOOLEAN /\ gave_up' \in BOOLEAN
      BY <1>2, Zenon
    <2> QED BY <1>1, <2>1, <2>2, <2>3
  <1>3. CASE /\ ~(bridge_cache_ready /\ ~b)
             /\ UNCHANGED <<sync_packet_sent, syncs, gave_up, told, missed>>
    <2>1. CacheScoped' /\ OneSync'
      BY <1>1, <1>3 DEF Inv, CacheScoped, OneSync
    <2>2. PlayersReported'
      BY <1>1, <1>3 DEF Inv, CacheScoped, PlayersReported, InGame
    <2> QED BY <1>1, <1>3, <2>1, <2>2 DEF Inv, TypeOK
  <1> QED BY <1>2, <1>3 DEF SetBridgeCacheStatus

\* The session ends.
LEMMA OnDisconnectInv ==
    ASSUME Inv, OnDisconnect
    PROVE  Inv'
  <1>1. /\ connected' = FALSE /\ is_encrypted' = FALSE /\ SetBridgeCacheStatus(FALSE)
        /\ served' = [k \in Kinds |-> "none"] /\ UNCHANGED <<authority, due, stale>>
    BY DEF OnDisconnect
  <1>2. /\ bridge_cache_ready' = FALSE /\ sync_packet_sent' \in BOOLEAN
        /\ retry_count' = retry_count /\ chars' = chars
        /\ told' \subseteq Players /\ missed' \subseteq Players
        /\ syncs' \in Nat /\ gave_up' \in BOOLEAN
        /\ PlayersReported' /\ OneSync' /\ CacheScoped'
    BY <1>1, CacheFacts
  <1>3. TypeOK'
    BY <1>1, <1>2 DEF Inv, TypeOK
  <1>4. SessionServed' /\ EncryptedSession'
    BY <1>1 DEF Inv, SessionServed, EncryptedSession, HasFlag
  <1> QED BY <1>2, <1>3, <1>4 DEF Inv

\* The bridge tells of its cache.
LEMMA HandleCacheStatusInv ==
    ASSUME Inv, NEW b \in BOOLEAN, HandleCacheStatus(b)
    PROVE  Inv'
  <1>1. /\ UNCHANGED <<connected, is_encrypted>> /\ SetBridgeCacheStatus(b)
        /\ UNCHANGED <<authority, due, stale, served>>
    BY DEF HandleCacheStatus, session, admin
  <1>2. /\ bridge_cache_ready' = b /\ sync_packet_sent' \in BOOLEAN
        /\ retry_count' = retry_count /\ chars' = chars
        /\ told' \subseteq Players /\ missed' \subseteq Players
        /\ syncs' \in Nat /\ gave_up' \in BOOLEAN
        /\ PlayersReported' /\ OneSync' /\ CacheScoped'
    BY <1>1, CacheFacts
  <1>3. TypeOK'
    BY <1>1, <1>2 DEF Inv, TypeOK
  <1>4. SessionServed' /\ EncryptedSession'
    BY <1>1 DEF Inv, SessionServed, EncryptedSession, HasFlag
  <1> QED BY <1>2, <1>3, <1>4 DEF Inv

\* Steps of players and of the sync packet: session and files stay as they are.
LEMMA PlayersKeep ==
    ASSUME Inv, UNCHANGED <<session, admin>>,
           bridge_cache_ready' \in BOOLEAN, sync_packet_sent' \in BOOLEAN,
           retry_count' \in 0..kMaxRetryCount, syncs' \in Nat, gave_up' \in BOOLEAN,
           chars' \in [Players -> {"none", "loaded", "game"}],
           told' \subseteq Players, missed' \subseteq Players,
           PlayersReported', OneSync', CacheScoped'
    PROVE  Inv'
  <1>1. /\ UNCHANGED <<connected, is_encrypted>>
        /\ UNCHANGED <<authority, due, stale, served>>
    BY DEF session, admin
  <1>2. TypeOK'
    BY <1>1 DEF Inv, TypeOK
  <1>3. SessionServed' /\ EncryptedSession'
    BY <1>1 DEF Inv, SessionServed, EncryptedSession, HasFlag
  <1> QED BY <1>2, <1>3 DEF Inv

\* The sync packet is sent, given up, or fails.
LEMMA SendSyncInv ==
    ASSUME Inv, SendSync
    PROVE  Inv'
  <1>1. /\ UNCHANGED <<session, admin>> /\ UNCHANGED <<bridge_cache_ready, chars, missed>>
        /\ TypeOK /\ bridge_cache_ready /\ ~sync_packet_sent /\ syncs = 0
    BY DEF SendSync, Inv, CacheScoped
  <1>2. GetSyncData \subseteq Players /\ InGame \subseteq GetSyncData
    BY DEF GetSyncData, InGame
  <1>3. InGame' = InGame
    BY <1>1 DEF InGame
  <1>4. CASE /\ GetSyncData = {} /\ sync_packet_sent' = TRUE
             /\ UNCHANGED <<retry_count, syncs, gave_up, told>>
    <2>1. PlayersReported' /\ OneSync' /\ CacheScoped'
      BY <1>1, <1>2, <1>3, <1>4 DEF PlayersReported, OneSync, CacheScoped
    <2> QED BY <1>1, <1>4, <2>1, PlayersKeep DEF TypeOK
  <1>5. CASE /\ sync_packet_sent' = TRUE /\ retry_count' = 0 /\ gave_up' = TRUE
             /\ UNCHANGED <<syncs, told>>
    <2>1. PlayersReported' /\ OneSync' /\ CacheScoped'
      BY <1>1, <1>5 DEF PlayersReported, OneSync, CacheScoped
    <2>2. retry_count' \in 0..kMaxRetryCount
      BY <1>5, SyncAssumption
    <2> QED BY <1>1, <1>5, <2>1, <2>2, PlayersKeep DEF TypeOK
  <1>6. CASE /\ retry_count < kMaxRetryCount /\ retry_count' = retry_count + 1
             /\ UNCHANGED <<sync_packet_sent, syncs, gave_up, told>>
    <2>1. PlayersReported' /\ OneSync' /\ CacheScoped'
      BY <1>1, <1>6 DEF PlayersReported, OneSync, CacheScoped
    <2>2. retry_count' \in 0..kMaxRetryCount
      BY <1>1, <1>6, SyncAssumption DEF TypeOK
    <2> QED BY <1>1, <1>6, <2>1, <2>2, PlayersKeep DEF TypeOK
  <1>7. CASE /\ sync_packet_sent' = TRUE /\ retry_count' = 0
             /\ told' = told \cup GetSyncData /\ syncs' = syncs + 1
             /\ UNCHANGED gave_up
    <2>1. syncs' = 1
      BY <1>1, <1>7
    <2>2. PlayersReported' /\ OneSync' /\ CacheScoped'
      BY <1>1, <1>2, <1>3, <1>7, <2>1 DEF PlayersReported, OneSync, CacheScoped
    <2>3. retry_count' \in 0..kMaxRetryCount /\ told' \subseteq Players /\ syncs' \in Nat
      BY <1>1, <1>2, <1>7, <2>1, SyncAssumption DEF TypeOK
    <2> QED BY <1>1, <1>7, <2>2, <2>3, PlayersKeep DEF TypeOK
  <1> QED BY <1>4, <1>5, <1>6, <1>7 DEF SendSync

\* Players come and go.
LEMMA PlayerInv ==
    ASSUME Inv, NEW p \in Players, PlayerLoad(p) \/ Entergame(p) \/ Destroy(p)
    PROVE  Inv'
  <1>1. /\ UNCHANGED <<session, admin>>
        /\ UNCHANGED <<bridge_cache_ready, sync_packet_sent, retry_count, syncs, gave_up>>
        /\ TypeOK
    BY DEF PlayerLoad, Entergame, Destroy, sendLogin, sendLogout, sync, Inv
  <1>2. chars' \in [Players -> {"none", "loaded", "game"}]
    BY <1>1 DEF PlayerLoad, Entergame, Destroy, sendLogin, sendLogout, TypeOK
  <1>3. told' \subseteq Players /\ missed' \subseteq Players
    BY <1>1 DEF PlayerLoad, Entergame, Destroy, sendLogin, sendLogout, TypeOK
  <1>4. OneSync' /\ CacheScoped'
    BY <1>1 DEF Inv, OneSync, CacheScoped
  <1>5. PlayersReported'
    <2> SUFFICES ASSUME bridge_cache_ready, sync_packet_sent, ~gave_up,
                        NEW q \in Players, chars'[q] = "game"
                 PROVE  q \in told' \cup missed'
      BY <1>1 DEF PlayersReported, InGame
    <2>1. CASE q # p
      <3>1. chars[q] = "game"
        BY <1>1, <2>1 DEF PlayerLoad, Entergame, Destroy, sendLogin, sendLogout, TypeOK
      <3>2. q \in told \cup missed
        BY <3>1 DEF Inv, PlayersReported, InGame
      <3> QED BY <2>1, <3>2 DEF PlayerLoad, Entergame, Destroy, sendLogin, sendLogout
    <2>2. CASE q = p
      <3>1. Entergame(p)
        BY <1>1, <2>2 DEF PlayerLoad, Destroy, TypeOK
      <3> QED BY <2>2, <3>1 DEF Entergame, sendLogin
    <2> QED BY <2>1, <2>2
  <1> QED BY <1>1, <1>2, <1>3, <1>4, <1>5, PlayersKeep DEF TypeOK

-----------------------------------------------------------------------------
\* Every step preserves the invariant.
LEMMA StepKeeps == Inv /\ [Next]_vars => Inv'
  <1> SUFFICES ASSUME Inv, [Next]_vars PROVE Inv'
    OBVIOUS
  <1>1. CASE UNCHANGED vars
    BY <1>1, StutterInv
  <1>2. CASE Connect \/ OnEnabledEnc \/ OnDisconnect
    BY <1>2, ConnectInv, OnEnabledEncInv, ThrowInv, OnDisconnectInv
  <1>3. CASE \E b \in BOOLEAN : HandleCacheStatus(b)
    BY <1>3, HandleCacheStatusInv
  <1>4. CASE \E a \in SUBSET EAuthorityType : SetAuthority(a)
    BY <1>4, SetAuthorityInv
  <1>5. CASE SendSync \/ doWork
    BY <1>5, SendSyncInv, doWorkInv
  <1>6. CASE \E k \in Kinds : IntervalPasses(k) \/ Edit(k)
    BY <1>6, FilesInv
  <1>7. CASE \E p \in Players : PlayerLoad(p) \/ Entergame(p) \/ Destroy(p)
    BY <1>7, PlayerInv
  <1> QED BY <1>1, <1>2, <1>3, <1>4, <1>5, <1>6, <1>7 DEF Next

\* The invariant holds in every reachable state.
LEMMA Invariance == Spec => []Inv
  BY InitInv, StepKeeps, PTL DEF Spec

\* The state has its type; in particular the retries keep to their limit.
THEOREM TypeCorrect == Spec => []TypeOK
  <1>1. Inv => TypeOK
    BY DEF Inv
  <1> QED BY <1>1, Invariance, PTL

\* Once the sync packet counts as sent, the bridge knows of every player in game,
\* by the packet or by his login.
THEOREM EveryoneReported == Spec => []PlayersReported
  <1>1. Inv => PlayersReported
    BY DEF Inv
  <1> QED BY <1>1, Invariance, PTL

\* The sync packet goes at most once to each cache of the bridge.
THEOREM SyncedOnce == Spec => []OneSync
  <1>1. Inv => OneSync
    BY DEF Inv
  <1> QED BY <1>1, Invariance, PTL

\* A core that manages a file has sent it, or tried to, in every encrypted session.
THEOREM EverySessionServed == Spec => []SessionServed
  <1>1. Inv => SessionServed
    BY DEF Inv
  <1> QED BY <1>1, Invariance, PTL

-----------------------------------------------------------------------------
(***************************************************************************)
(* The session this module reduces the connection to is the client's.      *)
(***************************************************************************)
Session == INSTANCE BridgeSession
    WITH up <- connected, secure <- is_encrypted, informed <- bridge_cache_ready

\* What the bridge said of its cache is the session's, as the key is.
CacheSession == bridge_cache_ready => connected

\* The steps that are none of the session's, unless the core ends in them.
LEMMA OtherSteps ==
    ASSUME \/ \E a \in SUBSET EAuthorityType : SetAuthority(a)
           \/ SendSync \/ doWork
           \/ \E k \in Kinds : IntervalPasses(k) \/ Edit(k)
           \/ \E p \in Players : PlayerLoad(p) \/ Entergame(p) \/ Destroy(p)
           \/ UNCHANGED vars
    PROVE  \/ UNCHANGED <<connected, is_encrypted, bridge_cache_ready>>
           \/ connected' = FALSE /\ is_encrypted' = FALSE /\ bridge_cache_ready' = FALSE
  <1>1. CASE \E a \in SUBSET EAuthorityType : SetAuthority(a)
    BY <1>1 DEF SetAuthority, SettingsThrow, session, sync, vars
  <1>2. CASE SendSync \/ doWork
    BY <1>2 DEF SendSync, doWork, SettingsThrow, session, sync
  <1>3. CASE \E k \in Kinds : IntervalPasses(k) \/ Edit(k)
    BY <1>3 DEF IntervalPasses, Edit, session, sync
  <1>4. CASE \E p \in Players : PlayerLoad(p) \/ Entergame(p) \/ Destroy(p)
    BY <1>4 DEF PlayerLoad, Entergame, Destroy, session, sync
  <1>5. CASE UNCHANGED vars
    BY <1>5 DEF vars, session, sync
  <1> QED BY <1>1, <1>2, <1>3, <1>4, <1>5

LEMMA SessionStep ==
    Inv /\ CacheSession /\ [Next]_vars => [Session!Next]_(Session!vars) /\ CacheSession'
  <1> SUFFICES ASSUME Inv, CacheSession, [Next]_vars
               PROVE  [Session!Next]_(Session!vars) /\ CacheSession'
    OBVIOUS
  <1>6. CASE connected' = FALSE /\ is_encrypted' = FALSE /\ bridge_cache_ready' = FALSE
    <2>1. CASE connected
      BY <1>6, <2>1 DEF Session!End, Session!Next, CacheSession
    <2>2. CASE ~connected
      <3>1. connected = FALSE /\ is_encrypted = FALSE /\ bridge_cache_ready = FALSE
        BY <2>2, Zenon DEF Inv, TypeOK, EncryptedSession, CacheSession
      <3> QED BY <1>6, <3>1 DEF Session!vars, CacheSession
    <2> QED BY <2>1, <2>2
  <1>1. CASE Connect
    <2>1. /\ ~connected /\ connected' = TRUE
          /\ UNCHANGED <<is_encrypted, bridge_cache_ready>>
      BY <1>1 DEF Connect, sync
    <2>2. is_encrypted = FALSE /\ bridge_cache_ready = FALSE
      BY <2>1, Zenon DEF Inv, TypeOK, EncryptedSession, CacheSession
    <2> QED BY <2>1, <2>2 DEF Session!Begin, Session!Next, CacheSession
  <1>2. CASE OnEnabledEnc
    <2>1. CASE SettingsThrow(authority)
      BY <1>6, <2>1 DEF SettingsThrow
    <2>2. CASE ~SettingsThrow(authority)
      BY <1>2, <2>2 DEF OnEnabledEnc, sync, Session!Secure, Session!Next, CacheSession
    <2> QED BY <2>1, <2>2
  <1>3. CASE OnDisconnect
    BY <1>3 DEF OnDisconnect, SetBridgeCacheStatus, Session!End, Session!Next, CacheSession
  <1>4. CASE \E is_ready \in BOOLEAN : HandleCacheStatus(is_ready)
    BY <1>4 DEF HandleCacheStatus, SetBridgeCacheStatus, session, Session!Inform, Session!Next,
                CacheSession
  <1>5. CASE UNCHANGED <<connected, is_encrypted, bridge_cache_ready>>
    BY <1>5 DEF Session!vars, CacheSession
  <1> QED BY <1>1, <1>2, <1>3, <1>4, <1>5, <1>6, OtherSteps DEF Next

\* Logins, files and the sync packet are modelled on sessions as BridgeSession has them,
\* which are those of the client (session_start, OnEnabledEnc, OnDisconnect).
THEOREM ImplementsSession == Spec => Session!Spec
  <1>1. Init => Session!Init /\ CacheSession
    BY DEF Init, Session!Init, CacheSession
  <1> QED BY <1>1, SessionStep, Invariance, PTL DEF Spec, Session!Spec
=============================================================================
