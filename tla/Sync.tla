-------------------------------- MODULE Sync --------------------------------
(***************************************************************************)
(* What a core tells the bridge of itself in every session: who is in game *)
(* (SendSync and the logins and logouts after it), the settings and the    *)
(* notifications of the administrator (CConfigManager and                  *)
(* CNotificationManager), each if the bridge gave the core the authority.  *)
(*                                                                         *)
(* The session itself is that of RawClient: it begins, encryption is       *)
(* enabled, it ends.  A packet sent in a session reaches the bridge, unless*)
(* it cannot be encrypted; of what this module sends without a session     *)
(* nothing is kept.  The bridge, which is not in the repository, may send  *)
(* its packets at any time.                                                *)
(***************************************************************************)
EXTENDS Naturals

CONSTANTS
    Players,
    Kinds,          \* the authorities for files: CONFIG_, NOTIFICATION_MANAGER
    kMaxRetryCount

ASSUME SyncAssumption == kMaxRetryCount \in Nat /\ "P2P_MANAGER" \notin Kinds

VARIABLES
    connected, is_encrypted,    \* the session
    bridge_cache_ready,         \* the bridge has its cache
    sync_packet_sent,
    retry_count,                \* static: it outlives sessions
    authority,                  \* authority_ of the manager and its two helpers
    chars,                      \* how far each player's character is in this core
    due,                        \* READ_FILE_INTERVAL has passed since last_checktime_
    stale,                      \* a file has changed since it was last looked at
    \* What the bridge makes of it:
    told,                       \* the players it heard of since its cache is ready
    missed,                     \* those whose login it missed, not being encrypted
    syncs,                      \* the sync packets since its cache is ready
    gave_up,                    \* the sync packet was given up
    served                      \* what became of each file in this session

session == <<connected, is_encrypted>>
sync == <<bridge_cache_ready, sync_packet_sent, retry_count, syncs, gave_up>>
players == <<chars, told, missed>>
admin == <<authority, due, stale, served>>
vars == <<session, sync, players, admin>>

EAuthorityType == Kinds \cup {"P2P_MANAGER"}

InGame == {p \in Players : chars[p] = "game"}

Init ==
    /\ connected = FALSE /\ is_encrypted = FALSE
    /\ bridge_cache_ready = FALSE /\ sync_packet_sent = FALSE /\ retry_count = 0
    /\ authority = {}
    /\ chars = [p \in Players |-> "none"]
    /\ due = [k \in Kinds |-> TRUE] /\ stale = [k \in Kinds |-> TRUE]
    /\ told = {} /\ missed = {} /\ syncs = 0 /\ gave_up = FALSE
    /\ served = [k \in Kinds |-> "none"]

\* The results of Send: without a session it fails, and encryption may fail.
Send ==
    IF ~connected THEN {"NOT_CONNECTED"}
    ELSE {"SUCCESS"} \cup (IF is_encrypted THEN {"ENCRYPTION_FAILED"} ELSE {})

SendSucceeds == "SUCCESS" \in Send
SendFails == Send # {"SUCCESS"}

-----------------------------------------------------------------------------
(***************************************************************************)
(* The files.                                                              *)
(***************************************************************************)
\* LoadFile of the JSON loader: the file is there and complete, or not.
LoadFile == BOOLEAN

\* What may become of a file in LoadNotifications, once it is time, and likewise in
\* LoadConfigFile: it is read and what it holds is sent, or one of the two fails.
\* What fails is not tried again before the next time.
LoadNotifications ==
    {IF read /\ result = "SUCCESS" THEN "sent" ELSE "failed" : read \in LoadFile, result \in Send}

\* LoadConfigFile, LoadNotifications or both.
LoadConfigFile(kinds) ==
    /\ due' = [k \in Kinds |-> due[k] /\ k \notin kinds]
    /\ stale' = [k \in Kinds |-> stale[k] /\ k \notin kinds]
    /\ \E out \in [kinds -> LoadNotifications] :
          served' = [k \in Kinds |-> IF k \in kinds /\ connected THEN out[k] ELSE served[k]]

\* CheckSettingsFields is content with one field of several.  Settings that lack another,
\* or hold one of the wrong kind, make LoadConfigFile throw.  Nobody catches it, and in
\* SetAuthority (noexcept) nobody could: the core ends, and starts anew.
SettingsThrow(kinds) ==
    /\ "CONFIG_MANAGER" \in kinds
    /\ connected' = FALSE /\ is_encrypted' = FALSE
    /\ bridge_cache_ready' = FALSE /\ sync_packet_sent' = FALSE /\ retry_count' = 0
    /\ authority' = {}
    /\ chars' = [p \in Players |-> "none"]
    /\ due' = [k \in Kinds |-> TRUE] /\ stale' = [k \in Kinds |-> TRUE]
    /\ told' = {} /\ missed' = {} /\ syncs' = 0 /\ gave_up' = FALSE
    /\ served' = [k \in Kinds |-> "none"]

\* Refresh, without regard to the time: LoadConfigFile and LoadNotifications.
Refresh(auth) == LoadConfigFile(Kinds \cap auth)

\* HasFlag: two sets of flags have one in common.
HasFlag(flags, flag) == flags \cap flag # {}

\* Mutant of SetAuthority: the files wait for their time.
SetAuthorityLater(a) ==
    /\ connected
    /\ authority' = IF HasFlag(authority, a) THEN authority ELSE a
    /\ UNCHANGED <<session, sync, players, due, stale, served>>

\* SetAuthority (HEADER_SM_CORE_AUTHORITY).  A grant that shares a flag with the
\* authority the core has is ignored.
SetAuthority(a) ==
    /\ connected
    /\ \/ /\ HasFlag(authority, a)
          /\ UNCHANGED vars
       \/ /\ ~HasFlag(authority, a)
          /\ authority' = a /\ Refresh(a)
          /\ UNCHANGED <<session, sync, players>>
       \/ /\ ~HasFlag(authority, a)
          /\ SettingsThrow(a)

\* Mutant of doWork: the time of the check is noted before it is compared.
doWorkNotes ==
    /\ \E k \in authority \cap Kinds : due[k]
    /\ due' = [k \in Kinds |-> due[k] /\ k \notin authority]
    /\ UNCHANGED <<session, sync, players, authority, stale, served>>

\* Process of the managers in a heartbeat: the files that are due.
doWork ==
    /\ \E k \in authority \cap Kinds : due[k]
    /\ LET kinds == {k \in authority \cap Kinds : due[k]}
       IN  \/ LoadConfigFile(kinds) /\ UNCHANGED <<session, sync, players, authority>>
           \/ SettingsThrow(kinds)

IntervalPasses(k) ==
    /\ ~due[k]
    /\ due' = [due EXCEPT ![k] = TRUE]
    /\ UNCHANGED <<session, sync, players, authority, stale, served>>

\* The administrator changes a file.
Edit(k) ==
    /\ stale' = [stale EXCEPT ![k] = TRUE]
    /\ UNCHANGED <<session, sync, players, authority, due, served>>

-----------------------------------------------------------------------------
(***************************************************************************)
(* The session and the bridge's cache.                                     *)
(***************************************************************************)
\* Mutant of SetBridgeCacheStatus: the sync packet counts as sent for ever.
SetBridgeCacheStatusKeeps(uptodate) ==
    /\ bridge_cache_ready' = uptodate
    /\ IF bridge_cache_ready /\ ~uptodate
       THEN /\ syncs' = 0 /\ gave_up' = FALSE
            /\ told' = {} /\ missed' = {}
       ELSE UNCHANGED <<syncs, gave_up, told, missed>>
    /\ UNCHANGED <<retry_count, chars, sync_packet_sent>>

\* SetBridgeCacheStatus: a new cache wants a new sync packet.
SetBridgeCacheStatus(uptodate) ==
    /\ bridge_cache_ready' = uptodate
    /\ IF bridge_cache_ready /\ ~uptodate
       THEN /\ sync_packet_sent' = FALSE
            /\ syncs' = 0 /\ gave_up' = FALSE
            /\ told' = {} /\ missed' = {}
       ELSE UNCHANGED <<sync_packet_sent, syncs, gave_up, told, missed>>
    /\ UNCHANGED <<retry_count, chars>>

\* session_start
Connect ==
    /\ ~connected
    /\ connected' = TRUE
    /\ UNCHANGED <<is_encrypted, sync, players, admin>>

\* session_enable_encryption, with OnEnabledEnc.
OnEnabledEnc ==
    /\ connected /\ ~is_encrypted
    /\ \/ /\ is_encrypted' = TRUE
          /\ Refresh(authority)
          /\ UNCHANGED <<connected, sync, players, authority>>
       \/ SettingsThrow(authority)

\* session_stop, with OnDisconnect.
OnDisconnect ==
    /\ connected
    /\ connected' = FALSE /\ is_encrypted' = FALSE
    /\ SetBridgeCacheStatus(FALSE)
    /\ served' = [k \in Kinds |-> "none"]
    /\ UNCHANGED <<authority, due, stale>>

HandleCacheStatus(is_ready) ==
    /\ connected
    /\ SetBridgeCacheStatus(is_ready)
    /\ UNCHANGED <<session, admin>>

-----------------------------------------------------------------------------
(***************************************************************************)
(* Players.                                                                *)
(***************************************************************************)
\* GetSyncData: everyone with a character.  The packet also holds the guild wars,
\* so that it may have content when there are no players.
GetSyncData == {p \in Players : chars[p] # "none"}

\* Mutants of SendSync: success is not noted, and giving up only starts the count
\* again.
SendSyncAgain ==
    /\ ~sync_packet_sent /\ bridge_cache_ready /\ "P2P_MANAGER" \in authority
    /\ syncs < 2
    /\ told' = told \cup GetSyncData
    /\ syncs' = syncs + 1
    /\ UNCHANGED <<session, bridge_cache_ready, sync_packet_sent, retry_count, gave_up,
                   chars, missed, admin>>
SendSyncForever ==
    /\ ~sync_packet_sent /\ bridge_cache_ready /\ "P2P_MANAGER" \in authority
    /\ \/ SendSucceeds /\ sync_packet_sent' = TRUE /\ retry_count' = 0
       \/ /\ SendFails /\ UNCHANGED sync_packet_sent
          /\ retry_count' = IF retry_count < kMaxRetryCount THEN retry_count + 1 ELSE 0
    /\ UNCHANGED <<session, bridge_cache_ready, syncs, gave_up, players, admin>>

\* SendSync, in a heartbeat.
SendSync ==
    /\ ~sync_packet_sent /\ bridge_cache_ready /\ "P2P_MANAGER" \in authority
    /\ \/ /\ GetSyncData = {}                                \* and no wars
          /\ sync_packet_sent' = TRUE
          /\ UNCHANGED <<retry_count, syncs, gave_up, told>>
       \/ /\ retry_count >= kMaxRetryCount                   \* players or wars
          /\ sync_packet_sent' = TRUE /\ retry_count' = 0
          /\ gave_up' = TRUE
          /\ UNCHANGED <<syncs, told>>
       \/ /\ retry_count < kMaxRetryCount /\ SendFails
          /\ retry_count' = retry_count + 1
          /\ UNCHANGED <<sync_packet_sent, syncs, gave_up, told>>
       \/ /\ retry_count < kMaxRetryCount /\ SendSucceeds
          /\ sync_packet_sent' = TRUE /\ retry_count' = 0
          /\ told' = told \cup GetSyncData /\ syncs' = syncs + 1
          /\ UNCHANGED gave_up
    /\ UNCHANGED <<session, bridge_cache_ready, chars, missed, admin>>

\* A player's character is loaded; it is not in game yet.
PlayerLoad(p) ==
    /\ chars[p] = "none"
    /\ chars' = [chars EXCEPT ![p] = "loaded"]
    /\ UNCHANGED <<session, sync, told, missed, admin>>

\* sendLogin, which is not kept if it cannot be sent.  A bridge without its cache
\* makes nothing of it.
sendLogin(p) ==
    \/ /\ ~bridge_cache_ready
       /\ UNCHANGED <<told, missed>>
    \/ /\ bridge_cache_ready /\ SendSucceeds
       /\ told' = told \cup {p}
       /\ UNCHANGED missed
    \/ /\ bridge_cache_ready /\ SendFails
       /\ missed' = missed \cup {p}
       /\ UNCHANGED told

\* sendLogout
sendLogout(p) ==
    /\ \/ SendSucceeds /\ told' = told \ {p}
       \/ SendFails /\ UNCHANGED told
    /\ missed' = missed \ {p}

\* CInputLogin::Entergame: for every player, on mobile or not.
Entergame(p) ==
    /\ chars[p] = "loaded"
    /\ chars' = [chars EXCEPT ![p] = "game"]
    /\ sendLogin(p)
    /\ UNCHANGED <<session, sync, admin>>

\* CHARACTER::Destroy, in whatever state the character is.
Destroy(p) ==
    /\ chars[p] # "none"
    /\ chars' = [chars EXCEPT ![p] = "none"]
    /\ sendLogout(p)
    /\ UNCHANGED <<session, sync, admin>>

Next ==
    \/ Connect \/ OnEnabledEnc \/ OnDisconnect
    \/ \E is_ready \in BOOLEAN : HandleCacheStatus(is_ready)
    \/ \E a \in SUBSET EAuthorityType : SetAuthority(a)
    \/ SendSync \/ doWork
    \/ \E k \in Kinds : IntervalPasses(k) \/ Edit(k)
    \/ \E p \in Players : PlayerLoad(p) \/ Entergame(p) \/ Destroy(p)

Spec == Init /\ [][Next]_vars

\* Heartbeats and time go on.
FairSpec ==
    /\ Spec
    /\ WF_vars(SendSync) /\ WF_vars(doWork)
    /\ \A k \in Kinds : WF_vars(IntervalPasses(k))

-----------------------------------------------------------------------------
(***************************************************************************)
(* Properties.                                                             *)
(***************************************************************************)
\* Type invariant.
TypeOK ==
    /\ connected \in BOOLEAN /\ is_encrypted \in BOOLEAN
    /\ bridge_cache_ready \in BOOLEAN /\ sync_packet_sent \in BOOLEAN
    /\ retry_count \in 0..kMaxRetryCount
    /\ authority \subseteq EAuthorityType
    /\ chars \in [Players -> {"none", "loaded", "game"}]
    /\ due \in [Kinds -> BOOLEAN] /\ stale \in [Kinds -> BOOLEAN]
    /\ told \subseteq Players /\ missed \subseteq Players
    /\ syncs \in Nat /\ gave_up \in BOOLEAN
    /\ served \in [Kinds -> {"none", "sent", "failed"}]

\* Once the sync packet counts as sent, the bridge knows of every player in game,
\* whenever he came and however often sessions and caches were lost since: by the
\* packet or by his login.  Known exceptions: the packet was given up, the login
\* could not be encrypted.
PlayersReported ==
    (bridge_cache_ready /\ sync_packet_sent /\ ~gave_up)
        => InGame \subseteq told \cup missed

\* "This packet must run once" (sync.cpp): at most once for each cache.
OneSync == syncs <= 1

\* A manager has sent its file, or tried to, in every session that is encrypted,
\* whether the authority came before, in this or in an earlier session.
SessionServed ==
    \A k \in Kinds : (is_encrypted /\ k \in authority) => served[k] # "none"

\* A core whose bridge has its cache gets done with the sync packet.
SyncEnds ==
    (bridge_cache_ready /\ "P2P_MANAGER" \in authority)
        ~> (sync_packet_sent \/ ~bridge_cache_ready \/ "P2P_MANAGER" \notin authority)

\* A change of a file is looked at in the end, whatever becomes of sessions and of the
\* attempts before, by a core that keeps the authority for it.  It loses the authority
\* to another grant, or to its own end, when the settings throw (SettingsThrow).
EditsRead ==
    \A k \in Kinds : (stale[k] /\ k \in authority) ~> (~stale[k] \/ k \notin authority)
=============================================================================
