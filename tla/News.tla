-------------------------------- MODULE News --------------------------------
(***************************************************************************)
(* How the bridge learns what happens in a game server of several cores:   *)
(* changes of offline shops, guild members, guilds, characters and guild   *)
(* wars.  The db server tells every core of a change, each in its own      *)
(* time, and the core that holds P2P_MANAGER is to tell the bridge; some   *)
(* changes are told by every core, others are known to one core only.      *)
(* Mobile players change the shops through requests that any core may      *)
(* handle.                                                                 *)
(*                                                                         *)
(* A change of a subject is a number, the latest being the greatest.  The  *)
(* way of one packet is the matter of modules RawClient and Delivery; the  *)
(* db server and the bridge are not in the repository.                     *)
(***************************************************************************)
EXTENDS Naturals, Sequences

CONSTANTS
    Cores,          \* the cores of the game server
    Shops,          \* the offline shops
    Members,        \* players, as members of guilds
    Guilds,         \* guilds, with their statistics and points
    Players,        \* characters that are created and deleted
    Wars,           \* wars and who takes part in them
    Home,           \* the core where a character or a war is
    MaxNews,        \* bound: changes
    MaxSessions     \* bound: sessions

\* What the db server tells every core of; of a war, its start.
Broadcast == Shops \cup Members \cup Guilds \cup Wars
Subjects == Broadcast \cup Players

ASSUME NewsAssumption ==
    /\ Cores # {} /\ Home \in [Players \cup Wars -> Cores]
    /\ MaxNews \in Nat /\ MaxSessions \in Nat
    /\ Broadcast \cap Players = {} /\ Wars \cap (Shops \cup Members \cup Guilds) = {}
    /\ Shops \cap (Members \cup Guilds) = {} /\ Members \cap Guilds = {}
    /\ "answer" \notin Subjects

VARIABLES
    last,       \* the number of the latest change of each subject
    starts,     \* the changes that were the start of a war
    fresh,      \* the wars that have changed since the bridge read the tables
    queue,      \* what the db server has told each core, in order
    authority,  \* the cores that hold P2P_MANAGER
    session,    \* the session of each core
    wire,       \* what is on its way from each core to the bridge
    unp_packets,\* unp_packets_ of each core
    bridge,     \* the change of each subject the bridge heard of last
    request,    \* a request about a shop from a mobile player
    steady,     \* the cores in sessions that, since the bridge read the tables, have told all
                \* they had to tell and lost nothing of it
    sole,       \* since then one core in a session, and the same, has held P2P_MANAGER, and
                \* none has replayed what it kept of the members
    news,       \* how many changes there were
    sessions    \* how many sessions there were

changes == <<last, starts, fresh, news>>
game == <<changes, queue>>
link == <<session, sessions>>
watch == <<steady, sole>>
vars == <<game, authority, link, wire, unp_packets, bridge, request, watch>>

-----------------------------------------------------------------------------
(***************************************************************************)
(* Packets and sessions.                                                   *)
(***************************************************************************)
Change == [about : Subjects, no : 0..MaxNews]

\* An answer to a request, among the changes.
Answer == [about |-> "answer", no |-> 0]

\* IsSyncPacket: the packets that are kept when there is no session.
\* HEADER_MS_GUILD_JOIN and _LEAVE, _DATA_UPDATE, _GUILD_WAR.
IsSyncPacket(p) == p.about \in Members \cup Players \cup Wars

\* Whether a sequence holds a change of s, and whether the last one it holds is n.
Has(q, s) == \E i \in 1..Len(q) : q[i].about = s
EndsWith(q, s, n) ==
    \E i \in 1..Len(q) :
        q[i].about = s /\ q[i].no = n /\ \A j \in 1..Len(q) : q[j].about = s => j <= i

\* No request, or one that the player has heard the end of.
NoRequest == [at |-> "none"]

\* One whose end he does not hear of: a check ends it without a word, the answer cannot
\* be encrypted, the session is lost.
Unheard == [at |-> "unheard"]

\* A request: ended, refused with an answer, or carried out as the change of that number.
Request ==
    {NoRequest, Unheard}
        \cup [at : {"answer"}, core : Cores]
        \cup [at : {"news"}, shop : Shops, no : 0..MaxNews]

Init ==
    /\ last = [s \in Subjects |-> 0] /\ queue = [c \in Cores |-> <<>>] /\ news = 0
    /\ starts = {} /\ fresh = {}
    /\ authority = {}
    /\ session = [c \in Cores |-> "none"] /\ sessions = 0
    /\ wire = [c \in Cores |-> <<>>] /\ unp_packets = [c \in Cores |-> <<>>]
    /\ bridge = [s \in Subjects |-> 0]
    /\ request = NoRequest
    /\ steady = {} /\ sole = FALSE

\* The cores that tell the bridge of what the manager tells.
Managers == {c \in authority : session[c] # "none"}

\* SendPacket of core c.  In a session it is written, unless its encryption fails;
\* without one it is kept or lost.
SendPacket(c, p) ==
    \/ /\ session[c] # "none"
       /\ wire' = [wire EXCEPT ![c] = Append(@, p)]
       /\ UNCHANGED <<unp_packets, steady>>
    \/ /\ session[c] = "secure"
       /\ steady' = steady \ {c}
       /\ UNCHANGED <<wire, unp_packets>>
    \/ /\ session[c] = "none"
       /\ unp_packets' = IF IsSyncPacket(p)
                         THEN [unp_packets EXCEPT ![c] = Append(@, p)] ELSE unp_packets
       /\ UNCHANGED <<wire, steady>>

Skip == UNCHANGED <<wire, unp_packets, steady>>

\* Core c has something to tell and does not.
Withhold(c) == steady' = steady \ {c} /\ UNCHANGED <<wire, unp_packets>>

\* session_start
SessionStart(c) ==
    /\ session[c] = "none" /\ sessions < MaxSessions
    /\ session' = [session EXCEPT ![c] = "clear"] /\ sessions' = sessions + 1
    /\ sole' = (sole /\ c \notin authority)
    /\ UNCHANGED <<game, authority, wire, unp_packets, bridge, request, steady>>

\* OnEnabledEnc and unprocessed_process, whoever the manager is by now.  What is replayed
\* twice or not at all is the matter of module Delivery.
OnEnabledEnc(c) ==
    /\ session[c] = "clear"
    /\ session' = [session EXCEPT ![c] = "secure"]
    /\ wire' = [wire EXCEPT ![c] = @ \o unp_packets[c]]
    /\ unp_packets' = [unp_packets EXCEPT ![c] = <<>>]
    /\ sole' = (sole /\ \A s \in Members : ~Has(unp_packets[c], s))
    /\ UNCHANGED <<game, authority, sessions, bridge, request, steady>>

\* The request that goes with the session of core c.
Forget(c) ==
    request' = IF request.at = "answer" /\ request.core = c THEN Unheard
               ELSE request

\* OnDisconnect: the write queue is lost, and the authority stays.
OnDisconnect(c) ==
    /\ session[c] # "none"
    /\ session' = [session EXCEPT ![c] = "none"]
    /\ wire' = [wire EXCEPT ![c] = <<>>]
    /\ steady' = steady \ {c} /\ sole' = (sole /\ c \notin authority)
    /\ Forget(c)
    /\ UNCHANGED <<game, authority, sessions, unp_packets, bridge>>

\* A core ends, its session first, and starts again with what is in the tables.
Restart(c) ==
    /\ session[c] = "none"
    /\ queue' = [queue EXCEPT ![c] = <<>>]
    /\ unp_packets' = [unp_packets EXCEPT ![c] = <<>>]
    /\ authority' = authority \ {c}
    /\ UNCHANGED <<changes, link, wire, bridge, request, watch>>

\* SetAuthority, with P2P_MANAGER or without.
SetAuthority(c) ==
    /\ session[c] # "none"
    /\ authority' \in {authority \cup {c}, authority \ {c}}
    /\ sole' = (sole /\ authority' = authority)
    /\ UNCHANGED <<game, link, wire, unp_packets, bridge, request, steady>>

-----------------------------------------------------------------------------
(***************************************************************************)
(* The senders.                                                            *)
(***************************************************************************)
\* Mutant of IsCoreP2PManager: every core tells.
IsCoreP2PManagerEvery(c) == TRUE

IsCoreP2PManager(c) == c \in authority

\* sendShopCreate, sendShopItemAdd, sendShopItemBuy and the others.
sendShop(c, p) == IF IsCoreP2PManager(c) THEN SendPacket(c, p) ELSE Skip

\* sendGuildJoin, sendGuildLeave
sendGuildJoin(c, p) == IF IsCoreP2PManager(c) THEN SendPacket(c, p) ELSE Skip

\* sendGuildStats, sendLadderPoint: every core sends them.
sendGuildStats(c, p) == SendPacket(c, p)

\* sendCharacterCreate, sendCharacterDelete
sendCharacterCreate(c, p) == IF IsCoreP2PManager(c) THEN SendPacket(c, p) ELSE Skip

\* sendGuildWarStart, sendGuildWarPlayerJoin, sendGuildWarPlayerLeave, sendGuildWarEnd and
\* the others: whichever core has something to tell sends them.
sendGuildWar(c, p) == SendPacket(c, p)

-----------------------------------------------------------------------------
(***************************************************************************)
(* Changes.                                                                *)
(***************************************************************************)
Happens(s) ==
    /\ news < MaxNews
    /\ news' = news + 1 /\ last' = [last EXCEPT ![s] = news + 1]
    /\ fresh' = fresh \cup ({s} \cap Wars)

\* The db server tells every core.
Broadcasts(s) ==
    /\ Happens(s)
    /\ queue' = [c \in Cores |-> Append(queue[c], [about |-> s, no |-> news + 1])]
    /\ starts' = IF s \in Wars THEN starts \cup {news + 1} ELSE starts

DbEvent ==
    /\ \E s \in Broadcast : Broadcasts(s)
    /\ UNCHANGED <<authority, link, wire, unp_packets, bridge, request, watch>>

\* Mutant of NextMessage: a core that is not the manager leaves the message where it is.
NextManaged(c) == queue[c] # <<>> /\ c \in authority /\ queue' = [queue EXCEPT ![c] = Tail(@)]

\* A core takes the next message of the db server.
NextMessage(c) == queue[c] # <<>> /\ queue' = [queue EXCEPT ![c] = Tail(@)]

\* RecvShopCreateNewDBPacket, RecvShopBuyDBPacket, ModifyItemPrice, MoveItem and the others.
\* A core that does not find the shop, the item or the offer in its own copy tells nothing.
RecvShopDBPacket(c) ==
    /\ NextMessage(c) /\ Head(queue[c]).about \in Shops
    /\ sendShop(c, Head(queue[c])) \/ Withhold(c)
    /\ UNCHANGED <<changes, authority, link, bridge, request, sole>>

\* AddMember, RemoveMember
AddMember(c) ==
    /\ NextMessage(c) /\ Head(queue[c]).about \in Members
    /\ sendGuildJoin(c, Head(queue[c]))
    /\ UNCHANGED <<changes, authority, link, bridge, request, sole>>

\* SetWarData, SetLadderPoint
SetWarData(c) ==
    /\ NextMessage(c) /\ Head(queue[c]).about \in Guilds
    /\ sendGuildStats(c, Head(queue[c]))
    /\ UNCHANGED <<changes, authority, link, bridge, request, sole>>

\* StartWar, which every core runs; the sender in EndWar is commented out.
StartWar(c) ==
    /\ NextMessage(c) /\ Head(queue[c]).about \in Wars
    /\ sendGuildWar(c, Head(queue[c]))
    /\ UNCHANGED <<changes, authority, link, bridge, request, sole>>

\* PlayerCreateSuccess, PlayerDeleteSuccess: the answer to the core that asked.
PlayerCreateSuccess ==
    /\ \E s \in Players :
         Happens(s) /\ sendCharacterCreate(Home[s], [about |-> s, no |-> news + 1])
    /\ UNCHANGED <<queue, starts, authority, link, bridge, request, sole>>

\* IncMember, DecMember, SetEnded, OnKill, Notice of the map where the war is, on the core
\* where it has started.
IncMember ==
    /\ \E s \in Wars :
         /\ last[s] # 0 /\ ~Has(queue[Home[s]], s)
         /\ Happens(s) /\ sendGuildWar(Home[s], [about |-> s, no |-> news + 1])
    /\ UNCHANGED <<queue, starts, authority, link, bridge, request, sole>>

-----------------------------------------------------------------------------
(***************************************************************************)
(* Requests about shops.                                                   *)
(***************************************************************************)
\* How the checks of each request may end it: with an answer, or "SILENT".
RemoveItemRefusals == {"SILENT", "FLOOD", "NOT_ENOUGH_SAFEBOX_SPACE", "NOT_EXISTS_ITEM"}
BuyItemRefusals ==
    {"FLOOD", "CHARACTER_ACTIONS", "SILENT", "NOT_EXISTS_SHOP", "NOT_EXISTS_ITEM",
     "NOT_ENOUGH_MONEY", "PRICE_MISMATCH"}
MoveItemRefusals ==
    {"NOT_EXISTS_SHOP", "NOT_EXISTS_ITEM", "FLOOD", "NOT_ENOUGH_SAFEBOX_SPACE"}
EditItemRefusals ==
    {"NOT_EXISTS_SHOP", "SILENT", "FLOOD", "INVALID_SALE_PRICE", "NOT_EXISTS_ITEM"}
CreateNewRefusals == {"FLOOD", "CHARACTER_ACTIONS", "NOT_ENOUGH_MONEY", "OTHERS"}

\* Before them: another player's shop, no character, one that is played for real.
Refusals ==
    {"SILENT", "NOT_EXISTS_CH", "INGAME_REAL"}
        \cup RemoveItemRefusals \cup BuyItemRefusals \cup MoveItemRefusals
        \cup EditItemRefusals \cup CreateNewRefusals

\* Mutant of sendShopOpResponse: the answer is not sent.
sendShopOpResponseNot(c) == Skip /\ request' = [at |-> "answer", core |-> c]

\* sendShopOpResponse.
sendShopOpResponse(c) ==
    /\ SendPacket(c, Answer)
    /\ request' = IF wire' = wire THEN Unheard ELSE [at |-> "answer", core |-> c]

\* HandleOffshop, on the core the bridge sent a request to: a check refuses it, with or
\* without an answer, or the db server carries it out and tells every core.
HandleOffshop(c) ==
    /\ session[c] = "secure" /\ request \in {NoRequest, Unheard}
    /\ \/ "SILENT" \in Refusals /\ request' = Unheard /\ Skip /\ UNCHANGED game
       \/ Refusals \ {"SILENT"} # {} /\ sendShopOpResponse(c) /\ UNCHANGED game
       \/ \E s \in Shops :
            /\ Broadcasts(s) /\ Skip
            /\ request' = [at |-> "news", shop |-> s, no |-> news + 1]
    /\ UNCHANGED <<authority, link, bridge, sole>>

-----------------------------------------------------------------------------
(***************************************************************************)
(* The bridge.                                                             *)
(***************************************************************************)
\* It applies what it hears.
Apply(c) ==
    /\ wire[c] # <<>>
    /\ wire' = [wire EXCEPT ![c] = Tail(@)]
    /\ LET p == Head(wire[c])
       IN  /\ bridge' = IF p = Answer THEN bridge ELSE [bridge EXCEPT ![p.about] = p.no]
           /\ request' = IF \/ p = Answer /\ request.at = "answer" /\ request.core = c
                            \/ request.at = "news" /\ request.shop = p.about /\ request.no <= p.no
                         THEN NoRequest ELSE request
    /\ UNCHANGED <<game, authority, link, unp_packets, watch>>

\* It reads the tables of the db server (HandleDbInfo tells it how), when it has
\* applied what it heard.  The wars are not in them.
Load ==
    /\ \A c \in Cores : wire[c] = <<>>
    /\ bridge' = [s \in Subjects |-> IF s \in Wars THEN bridge[s] ELSE last[s]]
    /\ fresh' = {}
    /\ steady' = {c \in Cores : session[c] = "secure"}
    /\ sole' = \E c \in Cores : Managers = {c}
    /\ request' = IF request.at = "news" THEN NoRequest ELSE request
    /\ UNCHANGED <<last, queue, news, starts, authority, link, wire, unp_packets>>

-----------------------------------------------------------------------------
\* A core reads what the db server sends.
DbMessage(c) == RecvShopDBPacket(c) \/ AddMember(c) \/ SetWarData(c) \/ StartWar(c)

Next ==
    \/ \E c \in Cores :
         \/ SessionStart(c) \/ OnEnabledEnc(c) \/ OnDisconnect(c) \/ Restart(c) \/ SetAuthority(c)
         \/ DbMessage(c) \/ HandleOffshop(c) \/ Apply(c)
    \/ DbEvent \/ PlayerCreateSuccess \/ IncMember \/ Load

Spec == Init /\ [][Next]_vars

\* A core reads what the db server sends (main_loop), and a session delivers what was
\* written.
FairSpec ==
    Spec /\ \A c \in Cores : WF_vars(DbMessage(c)) /\ WF_vars(Apply(c))

-----------------------------------------------------------------------------
(***************************************************************************)
(* Properties.                                                             *)
(***************************************************************************)
\* The type of every variable: what the senders and CUnprocessedHelper may hold.
TypeOK ==
    /\ last \in [Subjects -> 0..MaxNews] /\ news \in 0..MaxNews
    /\ starts \subseteq 0..MaxNews /\ fresh \subseteq Wars
    /\ queue \in [Cores -> Seq([about : Broadcast, no : 0..MaxNews])]
    /\ authority \subseteq Cores
    /\ session \in [Cores -> {"none", "clear", "secure"}] /\ sessions \in 0..MaxSessions
    /\ wire \in [Cores -> Seq(Change \cup {Answer})]
    /\ unp_packets \in [Cores -> Seq({p \in Change : p.about \in Members \cup Players \cup Wars})]
    /\ bridge \in [Subjects -> 0..MaxNews]
    /\ request \in Request
    /\ steady \subseteq Cores /\ sole \in BOOLEAN

\* Who tells the bridge of the changes of a subject.  The start of a war is told by all,
\* what comes after it by the core where the war is.
Tellers(s) ==
    IF s \in Shops \cup Members THEN Managers
    ELSE IF s \in Guilds THEN Cores ELSE {Home[s]}

\* Since the bridge read the tables, those who tell it of the subject have, in
\* sessions that lost nothing.  A war is not in the tables: it has changed since.
Covered(s) ==
    /\ s \in Shops \cup Members \cup Players => sole
    /\ s \in Players => Home[s] \in Managers
    /\ s \in Wars => s \in fresh
    /\ Tellers(s) \subseteq steady

\* The bridge knows the latest change; or, of a war, it has been put back to its start by
\* a core that was late to tell it, which only the next change puts right.
Known(s) == bridge[s] = last[s] \/ (s \in Wars /\ bridge[s] \in starts)

\* However far the cores are behind each other, and whoever told the bridge before:
\* what a teller still has to say of a subject ends with its latest change, and when
\* they have said it all the bridge knows that change (IsCoreP2PManager and SendPacket
\* in the senders).  A war is the exception in one way only: the start that every core
\* tells (StartWar) may come after what the core of the war told.
NewsKnown ==
    \A s \in Subjects : Covered(s) =>
        /\ \A c \in Tellers(s) :
              IF Has(queue[c], s) THEN EndsWith(queue[c], s, last[s])
              ELSE Has(wire[c], s) => EndsWith(wire[c], s, last[s])
        /\ (\A c \in Tellers(s) : ~Has(queue[c], s) /\ ~Has(wire[c], s)) => Known(s)

\* The subjects the bridge is behind with although it should not be.
Behind == {s \in Subjects : Covered(s) /\ ~Known(s)}

\* The bridge does catch up with all of them when no more happens, as long as the
\* sessions and the authority last (NextMessage, the senders, SendPacket); with a war, to
\* its latest change or to a start that a late core told after it.
NewsArrives == (Behind # {}) ~> (Behind = {})

\* A mobile player who changes a shop hears of it: an answer, or the change itself
\* from whichever core is the manager (HandleOffshop, sendShopOpResponse).  He does not
\* when a check refuses the request without a word, when the answer cannot be encrypted,
\* when the session of the core he asked is lost; nor, of a change that was made, when
\* there is no one manager that has been in an undisturbed session since the bridge read
\* the tables, or that manager could not tell (RecvShopDBPacket).
RequestEnds ==
    (request.at \in {"answer", "news"}) ~>
        \/ request = NoRequest
        \/ request = Unheard
        \/ request.at = "news" /\ ~Covered(request.shop)

\* "Packets of which all information has to be received when the connection from mt
\* to the bridge is established again" (unprocessed.cpp): while every core is in a
\* session that lost nothing and one of them is the manager, such a change is known
\* to the bridge or under way.
NewsKept ==
    sole /\ steady = Cores =>
        \A s \in Members \cup Players \cup Wars :
            \/ bridge[s] = last[s]
            \/ \E c \in Cores : EndsWith(queue[c], s, last[s]) \/ EndsWith(wire[c], s, last[s])
=============================================================================
