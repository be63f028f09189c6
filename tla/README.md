# mobicore: a verification project

mobicore connects the cores of an MT game server to a *bridge server*, through
which players on their phones chat with players in game, see who is online,
read guild news and trade in offline shops.  The bridge itself is not in the
repository; the repository holds the client that each game core runs
(`Source/Raw`, `IMPL/mt/source/server/game.src/mobigame`) and the patches that
hook it into the game and the db server.  This directory holds TLA+ modules that
model that client, TLC configurations that check them on small instances, and
proofs that TLAPS checks for every instance.

Paths below are relative to `src/`; `game.src` is
`IMPL/mt/source/server/game.src`, `db.src` is `IMPL/mt/source/server/db.src`.
The build modelled is the one for the game core, with `__MT_DB_INFO__`,
`__MOBI_PACKET_ENCRYPTION__` and `__OFFSHOP__` on.

## 1. The system

### Threads and time

A core is single threaded.  Its heartbeat calls `MobiClient::Process`, which
calls `NetworkClientImpl::DoWork`, and `DoWork` runs the completed handlers of
one `boost::asio::io_context` one at a time, first in first out, within a time
budget.  There are no data races.  What is hard is asynchrony: every resolve,
connect, read, write, timer and database query is begun in one heartbeat and
completes in another; operations complete in any order; a handler that is
already queued cannot be cancelled; and the state it finds is not the state that
started it.

### Components

| component | state | operations | talks to |
|---|---|---|---|
| **Connection** `NetworkClientImpl` (`Source/Raw/raw_client.cpp`, `raw_session.cpp`, `raw_data.cpp`) | `connect_state_`, `is_encrypted_`, `socket_`, two timers, the outstanding operations | `Connect`, `Disconnect`, `StartReconnectTimer`, `session_start/stop`, `session_read`, `session_read_encrypted`, `packet_process`, `packet_handle`, `session_handle_error` | calls `OnDisconnect`, `OnDataReceived`, `OnEnabledEnc` of the game client |
| **Outgoing packets** (`Send`, `SendPacket`, `session_write`, `HandleKeyExchange`) | `write_queue_`, `pending_tasks_count_`, writes on the socket | `Send`, `PostTask`, `session_write`, its handler, key exchange | every packet sender of the game ends here |
| **Unprocessed packets** `CUnprocessedHelper` (`mobigame/unprocessed/unprocessed.cpp`) | `unp_packets_` | add while there is no session, replay when encryption is on, clean up | called by `SendPacket`, `OnEnabledEnc`, `Process` |
| **Whispers** `CMessageHelper`, `sendUserCheck`, `HandleUserCheck` | `message_queue_`, `s_message_container_id` | add, process, remove, expire | asks the bridge, is answered by packet |
| **Messenger** `MessengerManager(Enhanced)` (`game.src/messenger_manager.cpp`) | `m_Relation`, `m_InverseRelation`, `m_set_loginAccount`, `m_set_mobileAccount`, table `messenger_list` | `Login`, `LoadList`, `Logout`, `MobileLogin/Logout`, `HandleConnectionLost`, changes of the lists | database, clients, bridge; decides which whispers go to mobile |
| **Sync** `SendSync`, `SetBridgeCacheStatus` (`mobigame/mobi/sync.cpp`, `base.cpp`) | `bridge_cache_ready_`, a static retry counter | sync after encryption, cache status from the bridge | reads guild wars, guild members, mobile characters |
| **Admin data** (`mobigame/admin/*`) | authority bits, file times, caches | `Process`, `SetAuthority`, `Refresh`, `LoadInfoFile`, notifications | files, db cache, bridge |
| **Mobile characters** `CMobiCharManager` (`mobigame/character/ch_manager.cpp`) and the login flow in `input_db.cpp`, `input_login.cpp`, `input_auth.cpp`, `db.cpp`, `char.cpp` | `descs_` by player id and by handle | load, login by key, warp, log out, expire | bridge, db server, game client logins |
| **Routing in the db server** `CClientManager` (`db.src/ClientManager.cpp`) | peers and their loads | `MobiLogin`, `MobiWarp`, choice of the least loaded core | two cores |
| **Dispatch and other handlers** (`mobigame/mobi/packet_registry.cpp`, `packet_handlers.cpp`) | none of their own | login validation, forwarded packets, character changes | messenger, characters, shops |
| **Guild, war, character and shop hooks** (`guild.cpp`, `war_map.cpp`, `input_db.cpp`, `offshop_ikarus`) | the game server's | report changes; `HandleOffshop` carries out requests of mobile players | db server, other cores, bridge |
| **Crypto, JSON, logging, containers, scripts** | | | |

### What is hard, and what must hold

* *Connection.* Timers race with connects, old attempts complete into new ones.
  The client must never wait for nothing, must recover from every loss, and
  nothing of a session (key, reads, belief in the bridge's cache) may outlive it.
* *Outgoing packets.* Writes overlap, tasks are dropped at a limit, the key
  exchange switches encryption on between packets, sessions end with packets
  queued.  Nothing may be sent twice, order must hold, nothing may be stranded,
  the public key has to go first.
* *Incoming packets.* A packet is cut out of the byte stream by two or three reads,
  the way of cutting changes with the key exchange in the middle of the stream, and
  every failure has to find the way back to a next read.  Packets have to be handled
  whole, in order and once, and reading must go on.
* *Whispers.* Answers come late, repeatedly, out of order, for containers that
  are gone; the queue is not kept in order.  An answer must settle its own
  whisper, once.
* *Messenger.* Lists load asynchronously between logins, logouts and lost
  sessions.  What clients show must be true, and mobile presence must end with
  its session.
* *News of several cores.* Every core hears of a change in its own time, one of them
  is to tell the bridge, and which one changes.  A core that lags behind must not put
  the bridge back, and what was done for a mobile player must be answered.
* *Sync, characters, routing.* Retries that give up, stale keys, a login of the
  same account by two ways, two cores told in either order.

`PROJECT.json` lists the hazards, each at its line, with the properties that
would catch it.

## 2. Modules

| module | models | state and actions |
|---|---|---|
| `RawClient` | the connection | one variable per field; outstanding operations as counts or sequences; `ready` is the io_context's queue, in which at most `MaxTasks` tasks wait (`MAX_PENDING_TASKS`). One `Run...` action per handler (`DoWork` runs the head of the queue), one `...Completes`/`...Expires` action per asynchronous operation |
| `MCRawClient` | instance for TLC, and the statement of the late timeout finding | |
| `RawClientProofs` | theorems about `RawClient` | |
| `BridgeSession` | what the rest of a core may take for granted of its sessions | whether there is one, whether it is encrypted, whether the core counts on something the bridge said in it; begin, secure, inform, end |
| `Delivery` | outgoing packets, key exchange, unprocessed packets | the write queue, the io_context's queue, the writes pending on the socket, what the socket took (`wire`), the buffer. Sessions begin and are lost at any time |
| `MCDelivery` | instance for TLC, and the statement of the whole key finding | |
| `DeliveryProofs` | theorems about `Delivery` | |
| `PacketChannel` | what the connection promises for one direction: in order, whole, at most once, until the promise lapses | a queue and what was handled; put, take, drop, lapse, reset |
| `Inbound` | the read loop on the byte stream, the key exchange and decryption, and the bridge's side of both | what the loop is reading (`stage`, `pkt`), what is left of that frame, the frames after it, the key; one action per read that ends, `SoftReadError`, and the bridge's sends. `Channel` is its refinement mapping to `PacketChannel` |
| `InboundProofs` | theorems about `Inbound`, the refinement among them | |
| `MessageQueue` | whispers to mobile | the queue, the id counter, the checks the bridge got; history variables for what was passed on or refused |
| `MessageQueueProofs` | theorems about `MessageQueue` | |
| `Messenger` | friends and presence | both maps (and which accounts have an entry in the first), both presence sets, the table, the outstanding queries, `seen`: what each client was last told of each friend, and who has come into the game unannounced |
| `MessengerProofs` | theorems about `Messenger` | |
| `MobiChar` | mobile characters in the auth core and the game cores, and the db server's `MobiLogin` and `MobiWarp` | `descs_` of every core, the DESCs by handle, the two message queues between each core and the db server, what each core last told the bridge of a character, and the login keys whose password was right. One action per hook of the login flow and per packet, `Process`, and the passing of the activity timeout |
| `MobiCharProofs` | theorems about `MobiChar` | |
| `Sync` | the sync packet, logins and logouts after it, the bridge's cache status, the core's authority and the administrator's files | the session (two flags), the flags and the static counter of `SendSync`, the authority, how far each character is, whether a file is due and whether it changed; what the bridge knows (`told`, `missed`), and what became of each file in this session. One action per hook, per heartbeat function and per packet of the bridge |
| `SyncProofs` | theorems about `Sync` | |
| `News` | shops, guild members, guild statistics, characters and wars as several cores report them; requests of mobile players about shops | per subject the latest change and the one the bridge heard of, and which changes were starts of wars; per core what the db server has told it, its session, its authority, what it has written and what it keeps. One action per hook, `HandleOffshop` with every check that may refuse, and the bridge's reading of the tables (`Load`) |
| `MCNews` | instance for TLC | |
| `NewsProofs` | theorems about `News` | |

Definitions keep the source's names where TLA+ allows it (`write_queue_` is
`write_queue`).  Operators named *mutant* in a comment are plausible bugs; they
are used only to show that a property notices them.

Modelling decisions worth knowing:

* **Cancelled timers** return at once from their handlers, so a cancelled wait is
  forgotten; a handler already in `ready` runs.
* **The timeout handler** reports a normal expiry as a critical error, which
  disconnects; its second half then finds the state changed and only arms a timer
  that is armed already.
* **A packet** is read in two stages, header and body in the clear (the body
  stands for the fixed and the dynamic part) or size and data when encrypted.
* **Tasks** of reads and writes share one limit in `RawClient`, and `PostTask` drops what
  exceeds it, the next read of a session included.  Outstanding writes are only counted;
  a write task may find a packet or none; `Delivery` follows them
  piece by piece (`Parts` pieces): the socket may take any number of pieces, and
  other writes then go on before the rest.
* **After a lost session** `Delivery` keeps of `ready` only the write tasks: the
  other handlers were queued before any new session's handler and have no effect
  without a session.
* **The admin packets** `OnEnabledEnc` sends after the replay are ordinary
  packets that the game sends next.
* **Time** is a choice: expiry takes any prefix by age, the once-a-minute cleanup
  may or may not run.
* **Container ids** are 32 bits wide and cannot wrap within the 120 seconds a
  message may wait.
* **Messenger patches**: the repository shows `LoadList`, `AddToList` and
  `RemoveFromList` with the server's own lines left out ("...").  What is left out
  is modelled from its use: loaded rows join both maps, an account still in game
  is sent its list, and the query returns the rows as of the login (the database queue
  is first in first out).  The callback gets the rows and nothing else, so a result
  without rows names no account: nothing joins the maps and nobody is told.
* **Login keys** in `MobiChar` are the handles of the auth core's DESCs they were
  created for; the db server passes them on and the game core's DESC carries them.
* **What is known late** is any answer: `P2P_MANAGER` may find a character on
  another core or miss it, and the core with the fewest users may be any game
  core.  The db server drops a request whose login data or core is missing.
* **Answers for a DESC that is gone** are dropped by the server, since handles are
  not used again; they do not appear in the model.
* **A login key of somebody else.**  `SendLoginRequest` gives up if a DESC without a mobile
  character has the key (`ch_manager.cpp:309`).  The server makes a key for one DESC of
  the auth core, so no player's own DESC has the key of a mobile load, and the model
  leaves this return out.
* **"FAILED"** stands for every status for which `IsLoadFailed` holds, logout and
  inactivity included: all of them tell the bridge that the core has the character
  no more.
* **An entry of `descs_`** stays when its DESC is destroyed by others (`DISCONNECT`
  from the bridge, the player's own login); only `Process`, a logout or the next
  login removes it.
* **A session in `Sync`** is RawClient's in short: it begins, is encrypted, ends.  The
  same holds for `Messenger`, `Inbound` and `Delivery`; that all of them mean what
  `RawClient` provides is the refinement of `BridgeSession` below.
  What is sent in it reaches the bridge unless it cannot be encrypted (`Delivery`
  looks at the rest); logins and logouts sent without a session are not kept, since
  `IsSyncPacket` does not name them.  The bridge may send its cache status and
  authorities at any time of a session.
* **The sync packet** names everyone with a character, in game or not yet; guild wars
  may give it content when there is no one.
* **The files** (settings, notifications) are good or broken whenever they are read,
  and a broken file, like a failed send, waits for the next time.  Settings with a field
  that is missing or of the wrong kind get past `CheckSettingsFields`, which joins the
  required fields with `||`, and make `LoadConfigFile` throw.  Nothing on the way up
  catches that and `SetAuthority` is `noexcept`, so the core ends (`SettingsThrow`) and
  starts anew, without session, players and authority.
* **The stream in `Inbound`** is a sequence of frames counted in units of a header: a
  packet of its header alone, with a fixed part, with a dynamic part that may be
  empty, or encrypted.  Sizes are the ones the bridge wrote; the limits on them are
  not reached.  Once the loop takes bytes for what they are not, nothing more is said
  of the session (`out_of_step`).
* **The bridge in `Inbound`** sends its key in the clear, waits for the client's and
  encrypts from then on, which is what the comment in `HandleKeyExchange` expects.
* **A change in `News`** is a number, the latest of a subject being the greatest; what
  a packet says is the change the core knows of.  The db server broadcasts changes of
  shops, guilds and the starts of wars, and answers one core about its characters; it and
  the bridge are external.  `steady` and `sole` are history: the sessions that have lost nothing, and
  one manager all along, since the bridge last read the tables; a core that was the
  manager before and now replays what it kept of guild members ends the latter.  Replay and overflow
  of the buffer are `Delivery`'s; `News` keeps what is to be kept and loses the rest.
* **Wars in `News`.**  Every core runs `StartWar` when the db server says so and tells the
  bridge; what happens in the war is told by the core of its map, once it has begun
  there.  The tables do not hold wars, so reading them (`Load`) changes nothing that the
  bridge knows of one, and nothing is claimed of a war until it changes again (`fresh`).
* **Shop news that a core withholds.**  A core that does not find the shop, the item or the
  offer in its own copy does not tell the bridge.  Why it would not find it is in the
  shops' own code, which is not in the repository; so every core may withhold any, and
  its session then counts as one that lost something.
* **Requests in `News`.**  The bridge may send one in any encrypted session.  One that nobody will
  hear of is `Unheard`: refused without a word, its answer not encrypted, its session
  lost.
* **Choices by position.**  `Delivery` and `MessageQueue` select from sequences by
  increasing positions (`Ascending`), so that the provers can follow.
* **RemoveAllList** runs for an account that has an entry, empty or not.  It erases from
  the set it iterates over, which is undefined behaviour: any non-empty part of the
  list is removed.

## 3. Runs

| run | configuration | states | shows |
|---|---|---|---|
| `raw_client` | three overlapping attempts, one write, one pending task, every kind of packet | 157,972 | `RetryPending`, `SessionScoped`, `SessionsSound`: `RawClient` implements `BridgeSession`, `SingleReader`, `ReadModeMatches`, `KeepsListening`, `Recovers` |
| `delivery` | packets of two pieces, 3 packets of which 2 are kept without a session, 2 sessions, all limits 2, soft write errors | 1,495,213 | `AtMostOnce`, `SentInOrder`, `QueueServed`, `KeyScheduledFirst`, the limits |
| `inbound` | 2 sessions of up to 4 packets of 5 kinds, dynamic parts of 0 or 1 units | 205,033 | `InStep`, `KeyAgrees`, `Drains`, and `DeliversInOrder`: `Inbound` implements `PacketChannel` |
| `message_queue` | 5 whispers, a queue of 3 | 9,585 | `UniqueIds`, `AnswersMatch`, `SettledOnce`, `OthersUntouched` |
| `messenger` | 2 accounts, 2 outstanding queries | 139,513 | `MobileNeedsSession`, `StatusSeen`, `Subscribed`, `LoginShown` |
| `mobi_char` | the auth core and 2 game cores, 1 character, 4 DESCs | 215,421 | `Supervised`, `ToldTheEnd`, `AuthFirst`, `OneLoad`, `StaleGoes`, `LoadEnds` |
| `sync` | 2 players, one kind of file, 3 failed attempts allowed | 32,408 | `PlayersReported`, `OneSync`, `SessionServed`, `SyncEnds`, `EditsRead` |
| `news` | 2 cores, one subject of each kind, the war and the character on the second core, 2 changes, 2 sessions | 1,055,152 | `NewsKnown`, `NewsArrives`, `RequestEnds` |
| `late_timeout`, `whole_key`, `messenger_list`, `news_kept` | the smallest instances | | the findings below |

**Bounds.**  Three attempts let an old and a new one meet a third that re-opens the
socket.  `SingleReader` and `ReadModeMatches` are about the behaviours in which no more
than two are outstanding at a time, whatever the bound: a third needs a name resolution
that outlasts two retry periods (180 s) or a stalled game thread, and with it they fail,
as TLC shows in 22 steps when the condition is dropped (a connect handler starts a
session on a socket another attempt has re-opened, while a read task of the session
before is still queued).  Everything else that is said of `RawClient` needs no such
condition.  A limit of one task lets a write's take the place of the next read.  In `Delivery` every limit is
reached and passed; `MaxTasks` is at least 2 because at most one pending task is
the read loop's.  Two sessions let the buffer be filled, replayed and met again.
`KeyScheduledFirst` speaks of states in which no key of the session was lost, since
overflow and soft errors may take the key itself.  Four packets let the bridge send one
in the clear, its key and two encrypted ones, and two sessions let key and mode be met
again.  Two cores and two changes let one core lag behind the other while the manager
changes; one subject of each kind is enough, because subjects meet only in the order of
queues and connections, and `NewsKnown` is proved for any sets.  Five whispers over a queue of three reach the overflow,
the hole in the middle and at the end, and answers for messages long gone.  Two
accounts reach every relation between two clients; the invariants are proved for
any set of accounts.  Four DESCs let two loads of a character overlap in the auth
core and two game cores, or a load and its warps; a second character adds nothing,
since cores keep characters apart and a DESC belongs to one.  The invariants of
`MobiChar` are proved for any number of all three.  In `Sync` the three retries are
the code's, spent in one session or over several; two players let one be named by
the packet and one by his login.  One kind of file is enough for `Sync`, because the
two managers share nothing but the authority; it is the settings, whose manager may throw.
The invariants are proved for any kinds.

**Fairness.**  `RawClient`: the heartbeat calls `DoWork` for ever; timers expire;
resolves and connects end, one way or the other; and, the only assumption about
the world, whoever tries for ever to resolve and to connect succeeds sometimes
(strong fairness on success).  Reads and writes need not complete.  `Inbound`:
the handlers of the read loop run as their bytes arrive (`PollOnce` in every pulse); the
bridge need not send.  `News`: every core reads what the db server sends it, and a session
delivers what was written; no session need begin or last, no request need come.  `Messenger`: the database answers.  `MobiChar`:
heartbeats call `Process` for ever, and a DESC of the auth core becomes idle,
because nothing there counts as activity of the player; no database answer and no
message between cores need ever arrive.  `Sync`: heartbeats call `SendSync` and
`doWork` for ever, and `READ_FILE_INTERVAL` passes; no packet of the bridge need ever
come.

**Deadlock** is checked in every run except `inbound`, `news` and `news_kept`, where the
bounded packets, changes and sessions come to an end.

**Refinement.**  `DeliversInOrder` is `PacketChannel`'s specification under the mapping
`Channel` of `Inbound`: the queue is the packet being read and those behind it, and the
promise lapses when the loop is out of step.  It is checked by TLC and proved.
`SessionsSound` is `BridgeSession`'s under the mapping `Session` of `RawClient`, checked
and proved as well; the other modules with sessions are proved to implement it too.

## 4. Findings

* `late_timeout`: the timeout handler (`raw_client.cpp:160`) treats a normal
  expiry as a critical error before it asks whether the client is connected.  A
  timeout queued just before the connection succeeds tears down the new session.
* `whole_key`: `HandleKeyExchange` schedules the public key first so that the
  bridge can read what follows, but writes are not serialised: pieces of an
  encrypted packet may go between the pieces of the key.
* `messenger_list`: the clean-up after an account that goes offline erases it
  from the lists of accounts that are in game.
* `news_kept`: `sendCharacterCreate` and `sendCharacterDelete` return unless the core
  is the manager, but the db server answers only the core where the player is; if that
  is another, nobody tells the bridge, of a change that is to be kept.

Also met while modelling: packets sent between `session_start` and the key exchange go
out in the clear (`raw_client.cpp:281`, where `README.md:51` promises encrypted
transfer) and overtake older ones that wait in the buffer (`SentInOrder` names this as the
only overtaking); packets that must reach the bridge are kept only if they are sent without a
session, so those in the write queue when it ends are gone (`unprocessed.cpp:21`);
statistics of guilds, ladder points and the start of wars are sent by every core, where
`packet_constants.h:30` wants a single one, and a core that is late with the start of a
war puts the bridge back to it, after its end even (`NewsKnown` names this; without the
exception TLC finds it); the login of an account with an empty list is announced to none
of those who have it as a friend (`messenger_manager.cpp:185`, the exception of
`StatusSeen`); settings that lack a field end the core (`config_manager.cpp:122`); a guild's founding is reported by its own
core and its end by the manager, over two connections (`mobi_client.cpp:450`);
`RegisterMemberStats` is never called (`sync.cpp:103`, `war_map.cpp:6`).  A packet with an unknown header ends the read loop of a
session that stays up, and a read task dropped at `MAX_PENDING_TASKS` does the same
(`KeepsListening` names both as the only ways); giving up on a host without IPv4
(`raw_client.cpp:187`) is undone by the armed timeout.  `SetAuthority` ignores a
grant that shares one flag with the authority the core has (`HasFlag` asks for any
bit), so an authority cannot be widened or narrowed, only replaced by a disjoint one.  The retry counter of `SendSync` is static and
outlives sessions: a new session may give up after fewer attempts than three, or
none (`PlayersReported` excepts what was given up).  Seen in the code but below the
model's level: the size of the sync packet leaves out the mobile characters that are
counted in it (`sync.cpp:170`); the size of a war's team is taken from its member
count and not from the fighters written; the checks of the settings and of the info
file join required fields with `||` (what follows for the settings is in `Sync`); `sendOnlineCount` never moves `last_sent_`
(`mobi_client.cpp:173`); `GetTotalAsYang` multiplies in 32 bits (`packets.h:565`); the
entry `GetCharacterByPid` finds in `P2P_MANAGER` is changed (`ch_manager.cpp:158`);
statuses of two cores for one character reach the bridge on two connections
(`ch_manager.cpp:456`).

## 5. Proofs

The theorems hold for every value of the constants under their `ASSUME`s, which
only say that bounds are naturals, packets are packet kinds, the auth core is no
game core, `P2P_MANAGER` is no authority for a file, kinds of subjects are disjoint, and
the limit of tasks leaves room for one beside the read loop's.  Every proof module also
proves the type invariant (`TypeCorrect`).

**RawClient.**  `NeverStuck` (`RetryPending`) and `NothingOutlivesSession`
(`SessionScoped`).  The inductive invariant `Inv` is the
conjunction of the two and the type.  `RetryPending` alone is not inductive: a `resolve` or
`read` handler preserves it only because the queue is a sequence of handlers and
running one that is not a timer's keeps the queued timer handlers; `SessionScoped`
needs to know that `session_stop` ran, which it does exactly when the state is
still `CONNECTED`.  Two lemmas carry the argument: `DisconnectEstablishes` and
`ConnectEstablishes` (both make all three true whatever was queued), and
`QueuedKept`/`QuietKeeps` (every other handler takes one handler off the queue and
adds some at its end).

`OneReadLoop` (`SingleReader`) and `ReadsInMode` (`ReadModeMatches`), for behaviours with
at most two attempts outstanding.  `LoopInv` has four parts.  `OneLoop` is the property,
stated by positions in the queue instead of a count.  `SessionAlone` says that a session
leaves at most one other attempt outstanding and no reconnect timer.  `LeftBehind` is the
heart of it: after a session, whatever is left of its read loop in the queue has at most
one attempt ahead of it, and that one cannot start a session because the socket it finds
is closed; so by the time another could, the remains have run and come to nothing.
`ModeKept` is the second property; it needs the first, since the key exchange changes the
mode under every read but the one that brought the key.  `NeverDeaf` (`KeepsListening`) is
an action property and needs no such condition: the handlers of the loop read on, post the
next read, or end the session, all but the one that meets a packet nobody knows and the
one whose task finds no room.

**Sessions.**  `ImplementsSession` in `RawClientProofs` (`SessionsSound`) shows that the
connection implements `BridgeSession`, for any number of attempts.  It rests on
`NothingOutlivesSession`: a session can begin in the clear only because the one before
left no key.  The theorems of the same name in `SyncProofs`, `MessengerProofs`,
`InboundProofs` and `DeliveryProofs` show that the sessions which those modules let begin,
be encrypted and end by themselves are sessions of that kind (what a core was told is the
bridge's cache in `Sync` and the presence of players on mobile in `Messenger`).  They do not
say that the modules behave the same in every other respect, only that none of them counts
on a session the connection would not give.

**Messenger.**  `NobodyOnMobileAlone` (`MobileNeedsSession`), `NewsReachesClients`
(`Subscribed`) and `ClientsShowTheTruth` (`StatusSeen`).  `StatusSeen` needs
`Subscribed` (a status change reaches exactly those in `m_InverseRelation`), and
accounts whose login was not announced are excepted; `Subscribed` needs `RelationsAgree`, stated in the proof module: a friend in
`m_Relation[a]` has `a` in his `m_InverseRelation`.  The clean-ups break the other
direction of that relation, which is why the property must not ask for it.  Every
change of presence goes through one lemma, `PresenceKeeps`.

**MobiChar.**  `NoDescEscapes` (`Supervised`), `BridgeLearnsTheEnd` (`ToldTheEnd`)
and `OnlyCheckedLogins` (`AuthFirst`).  `AuthFirst` is not inductive: a game core
takes a key from a message that came from another core by way of the db server.
The proof adds `KeysVerified` (every key in a queue belongs to a checked login) and
`PhaseOfCore` (the phases before the hand-over belong to the auth core, those after
it to game cores, so that a warping character has a checked key).  Four lemmas carry
the argument, one for each way `descs_` and the DESCs change together: characters
are dropped (`DropInv`), a DESC moves on (`RelabelInv`), a new one takes the place
of the old (`CreateInv`), a login is refused (`RefuseInv`).

`OneLoadPerKey` (`OneLoad`): a login key is with one DESC, in one request to the db server
or in one of its orders until its character is in game.  `OneLoad` is made inductive by
`KeysGiven` (no load has a key that is still to be given out).  Every step takes each load
that it leaves from one that was there, and no two from the same (`LoadsMoved`, by an
injection from the new places to the old): DESCs go or move on (`FewerLoads`), a request
takes over from a DESC (`SentLoads`), an order from a request (`OrderedLoads`), a DESC from
an order (`TakenLoads`); a new login has a key of its own (`NewLoad`).

**Sync.**  `EveryoneReported` (`PlayersReported`), `SyncedOnce` (`OneSync`) and
`EverySessionServed` (`SessionServed`).  The inductive invariant adds
`CacheScoped` (the flag and the history of the sync packet belong to
one cache: no packet counts as sent or was sent while the bridge has none, and one
that was sent is noted) and `EncryptedSession` (only a session is encrypted).
`OneSync` needs `CacheScoped` to know that a packet that may still be sent is the
first; `PlayersReported` needs it when a cache becomes ready, where a flag left from
the old one would make the claim false at once.

That the core may end with its settings costs nothing here: it starts in `Init`.

**Delivery.**  `NothingStranded` (`QueueServed`), `NeverTwice` (`AtMostOnce`), `OrderKept`
(`SentInOrder`) and `KeyBeforeUse` (`KeyScheduledFirst`), for any limits, pieces,
packets, sessions and key exchanges, with soft errors and overflow.  The invariant has
two halves.  `Traffic` is about handlers: the types, `QueueServed`, and `OneReader` (one
read at most is posted, outstanding or ended, so that of a full queue of tasks one at
least is a write: this is why nothing is stranded when a task is dropped).  `LineInv` is
about packets.  Those of a session stand in a line, from the wire over the writes that
wait to the queue, and every step either puts packets at its end or makes it thinner:
`EnqueueThins`, `TakenThinned`, `SentThinned` and `RestThinned` give the order-preserving
map from the new places to the old, and `ThinKeeps` shows that uniqueness, order and the
place of the keys survive it (that of the keys by a count: if no key is lost, the map is
onto).  What joins the line must fit: `Fits` says that nothing on it is in the buffer, was
sent in an earlier session or is encrypted before encryption is on; `Numbered` that the
buffer is in order; `FirstPiece` that whatever is partly written has its first piece on
the wire, without which a session's end could forget a packet that was begun.

**Inbound.**  `StaysInStep` (`InStep`), `KeyOfSession` (`KeyAgrees`) and
`ImplementsChannel` (`DeliversInOrder`), for any numbers of packets, sessions and sizes.
`InStep` is made inductive by four statements: `Remainder` (what is left of a frame is
what the stage has still to read), `Mode` (the loop reads as the rest of the stream was
written), `Exchange` (how far the two sides of the key exchange can be apart) and
`Frames` (frames in the clear precede those encrypted, the bridge's key being the last of
the former), with `Fresh` for what a session begins with.  Each step of the loop then is
a `Take`, a `Drop` or a stutter of the channel.

**MessageQueue.**  `IdsAreUnique`, `AnswersFindTheirs`, `WhispersSettleOnce` and the action
property `OthersWait` (`OthersUntouched`).  `Numbered` ties every check to the number its
whisper was given and keeps all numbers below the counter.

**News.**  `BridgeIsCurrent` (`NewsKnown`).  The invariant adds `QueueCurrent` (what the db
server has still to tell a core of a subject ends with its latest change), `SteadySecure`
and `SoleManager` (what the history variables say of sessions), `OthersQuiet` (while there
is one manager, no other core has anything on the wire of what managers tell), `OnlyStarts`
(what other cores than its own have still to say of a war, or keep, are starts) and `Kept`
(an encrypted session has nothing left in the buffer, and what is kept of a character is
kept by its core).
`OthersQuiet` is what makes a change of the manager harmless: the old one's words are gone
with the tables' reading before the new one's count.

**Only model-checked**: liveness (`Recovers`, `Drains`, `LoginShown`, `StaleGoes`,
`LoadEnds`, `SyncEnds`, `EditsRead`, `NewsArrives`, `RequestEnds`), which is out of the
prover's reach.  Every invariant, action property and refinement that a run checks is
proved.

## 6. Not modelled

The bridge server (not in the repository, and modelled only as far as the client expects
something of it); cryptographic algorithms (only whose key is used, and that every step
may fail); the layout and contents of packets; `StopIO` and `Disconnect(false)`, which
run when the process ends; JSON, logging and scripts.  Founding and disbanding of guilds
and the counters of war maps, of which the repository shows only the inserted lines; the
shops themselves, which are a third party's.  Chat, kills, levels and other reports that
nothing depends on.  `ForwardPacket` and login validation, which parse, query and answer
without state of their own.  Of mobile characters, what a core does while it shuts down
and the hooks that only report an event.  Statuses of two cores for the same character
reach the bridge on two connections, so a late "inactive" of one may follow the "success"
of the other; what the bridge makes of it is not in the repository.  Of the
administrator's data, the info file read once at start and `GetDBCache`, which answers
with its contents.

## 7. What is left

1. Abstract specifications of a mobile load as the bridge sees it (asked, loading, here,
   gone), refined by `MobiChar`, and of presence (who knows what of whom), refined by
   `Messenger`; that of sessions is `BridgeSession`.
2. A composition of whispers, presence and sessions: `Messenger` decides by presence,
   `MessageQueue` holds, `Delivery` carries.
3. `Sync` over several cores: only the core with `P2P_MANAGER` names its own players,
   where the comment above `GetSyncData` (`sync.cpp:154`) wants the ports of all.
4. Founding and disbanding of guilds, the traits of characters, `ForwardPacket` and login
   validation.
