----------------------------- MODULE Messenger -----------------------------
(***************************************************************************)
(* Friends and their presence (MessengerManager).  An account may be in    *)
(* game, on mobile, or both; what the game's clients show of their friends *)
(* is what they were last told.  The lists live in the database and in two *)
(* maps in memory, and are loaded asynchronously after a login.  Mobile    *)
(* presence is news from the bridge and ends with the session that         *)
(* brought it.                                                             *)
(*                                                                         *)
(* Clients connected to other cores are told by those cores: the accounts  *)
(* in game stand for the ones whose characters this core has.              *)
(***************************************************************************)
EXTENDS Naturals, Sequences

CONSTANTS
    Accounts,
    MaxLoads        \* bound: queries for friend lists outstanding at once

ASSUME LoadsAssumption == MaxLoads \in Nat

VARIABLES
    connected,              \* there is a session with the bridge
    m_set_loginAccount,
    m_set_mobileAccount,
    m_Relation,             \* for each account its friends
    entries,                \* the accounts m_Relation has an entry for
    m_InverseRelation,      \* for each account those who have it as a friend
    messenger_list,         \* the table messenger_list: for each account its friends
    loads,                  \* the results of FuncQuery that LoadList has yet to get
    seen,                   \* for each account, the statuses its client was told
    unannounced             \* history: those whose status was told to no friend
                            \* since their login

lists == <<m_Relation, entries, m_InverseRelation, messenger_list>>
vars == <<connected, m_set_loginAccount, m_set_mobileAccount, lists, loads, seen,
          unannounced>>

\* A status is a set of flags.  OFFLINE is a flag of its own that is only used
\* alone: it is the empty set here.  A friend not yet shown is untold.
EUserStatus == SUBSET {"IN_GAME", "IN_MOBILE"}
Untold == {"untold"}

Status(game, mobile, account) ==
    (IF account \in game THEN {"IN_GAME"} ELSE {})
        \cup (IF account \in mobile THEN {"IN_MOBILE"} ELSE {})

GetUserStatus(account) == Status(m_set_loginAccount, m_set_mobileAccount, account)

IsAccountInGame(account) == account \in m_set_loginAccount

Init ==
    /\ connected = FALSE
    /\ m_set_loginAccount = {}
    /\ m_set_mobileAccount = {}
    /\ m_Relation = [a \in Accounts |-> {}]
    /\ entries = {}
    /\ m_InverseRelation = [a \in Accounts |-> {}]
    /\ messenger_list \in {l \in [Accounts -> SUBSET Accounts] : \A a \in Accounts : a \notin l[a]}
    /\ loads = <<>>
    /\ seen = [a \in Accounts |-> [b \in Accounts |-> Untold]]
    /\ unannounced = {}

-----------------------------------------------------------------------------
\* NotifyStatusChange of each changed account: every one who is in game and has
\* it as a friend is told its new status.
Told(changed, inverse, game, mobile) ==
    [f \in Accounts |-> [b \in Accounts |->
        IF b \in changed /\ f \in inverse[b] /\ f \in game
        THEN Status(game, mobile, b) ELSE seen[f][b]]]

NotifyStatusChange(changed, game, mobile) ==
    /\ seen' = Told(changed, m_InverseRelation, game, mobile)
    /\ unannounced' = unannounced \ changed

\* "Clean up relations only if completely offline": the accounts that are gone
\* leave every list of friends, and lose their own.
CleanUp(gone) ==
    /\ m_Relation' = [a \in Accounts |-> IF a \in gone THEN {} ELSE m_Relation[a] \ gone]
    /\ entries' = entries \ gone

\* Login: the list is asked for before the account counts as in game.  Its
\* client starts with an empty list.
Login(account) ==
    /\ ~IsAccountInGame(account)
    /\ Len(loads) < MaxLoads
    /\ loads' = Append(loads, [account |-> account, rows |-> messenger_list[account]])
    /\ m_set_loginAccount' = m_set_loginAccount \cup {account}
    /\ seen' = [seen EXCEPT ![account] = [b \in Accounts |-> Untold]]
    /\ unannounced' = unannounced \cup {account}
    /\ UNCHANGED <<connected, m_set_mobileAccount, lists>>

\* The rows of a result join both maps.
JoinRows(account, rows) ==
    /\ m_Relation' = [m_Relation EXCEPT ![account] = @ \cup rows]
    /\ entries' = entries \cup {account}
    /\ m_InverseRelation' = [b \in Accounts |-> IF b \in rows
                                                THEN m_InverseRelation[b] \cup {account}
                                                ELSE m_InverseRelation[b]]

\* SendList: an account that is still there is sent its friends.
ListSent(account, before) ==
    IF IsAccountInGame(account)
    THEN [before EXCEPT ![account] =
            [b \in Accounts |-> IF b \in m_Relation'[account] THEN GetUserStatus(b) ELSE @[b]]]
    ELSE before

\* Mutant of LoadList: the friends are not told.
LoadListSilently ==
    /\ loads # <<>>
    /\ LET account == Head(loads).account
           rows == Head(loads).rows
       IN  \/ /\ rows # {}
              /\ JoinRows(account, rows)
              /\ seen' = ListSent(account, seen)
              /\ UNCHANGED <<messenger_list, unannounced>>
           \/ /\ rows = {}
              /\ UNCHANGED <<lists, seen, unannounced>>
    /\ loads' = Tail(loads)
    /\ UNCHANGED <<connected, m_set_loginAccount, m_set_mobileAccount>>

\* LoadList: the rows join both maps, the account they name is sent its list, and its
\* friends are told.  The account is known from the rows alone: a result without any
\* changes nothing, and its login is announced to nobody.
LoadList ==
    /\ loads # <<>>
    /\ LET account == Head(loads).account
           rows == Head(loads).rows
       IN  \/ /\ rows # {}
              /\ JoinRows(account, rows)
              /\ seen' = ListSent(account, Told({account}, m_InverseRelation',
                                                m_set_loginAccount, m_set_mobileAccount))
              /\ unannounced' = unannounced \ {account}
              /\ UNCHANGED messenger_list
           \/ /\ rows = {}
              /\ UNCHANGED <<lists, seen, unannounced>>
    /\ loads' = Tail(loads)
    /\ UNCHANGED <<connected, m_set_loginAccount, m_set_mobileAccount>>

\* Mutant of Logout: nobody is told.
LogoutSilently(account) ==
    /\ IsAccountInGame(account)
    /\ m_set_loginAccount' = m_set_loginAccount \ {account}
    /\ CleanUp({account} \ m_set_mobileAccount)
    /\ UNCHANGED <<connected, m_set_mobileAccount, m_InverseRelation, messenger_list,
                   loads, seen, unannounced>>

Logout(account) ==
    /\ IsAccountInGame(account)
    /\ m_set_loginAccount' = m_set_loginAccount \ {account}
    /\ NotifyStatusChange({account}, m_set_loginAccount', m_set_mobileAccount)
    /\ CleanUp({account} \ m_set_mobileAccount)
    /\ UNCHANGED <<connected, m_set_mobileAccount, m_InverseRelation, messenger_list, loads>>

-----------------------------------------------------------------------------
(***************************************************************************)
(* News from the bridge.                                                   *)
(***************************************************************************)
\* session_start
SessionStart ==
    /\ ~connected
    /\ connected' = TRUE
    /\ UNCHANGED <<m_set_loginAccount, m_set_mobileAccount, lists, loads, seen,
                   unannounced>>

MobileLogin(account) ==
    /\ connected
    /\ account \notin m_set_mobileAccount
    /\ m_set_mobileAccount' = m_set_mobileAccount \cup {account}
    /\ NotifyStatusChange({account}, m_set_loginAccount, m_set_mobileAccount')
    /\ UNCHANGED <<connected, m_set_loginAccount, lists, loads>>

MobileLogout(account) ==
    /\ connected
    /\ account \in m_set_mobileAccount
    /\ m_set_mobileAccount' = m_set_mobileAccount \ {account}
    /\ NotifyStatusChange({account}, m_set_loginAccount, m_set_mobileAccount')
    /\ CleanUp({account} \ m_set_loginAccount)
    /\ UNCHANGED <<connected, m_set_loginAccount, m_InverseRelation, messenger_list, loads>>

\* Mutant of HandleConnectionLost: friends are told, the set is not cleared.
HandleConnectionLostKeeps ==
    /\ seen' = Told(m_set_mobileAccount, m_InverseRelation, m_set_loginAccount, {})
    /\ unannounced' = unannounced \ m_set_mobileAccount
    /\ CleanUp(m_set_mobileAccount \ m_set_loginAccount)
    /\ UNCHANGED m_set_mobileAccount

\* HandleConnectionLost: nobody is on mobile any more.
HandleConnectionLost ==
    /\ m_set_mobileAccount' = {}
    /\ NotifyStatusChange(m_set_mobileAccount, m_set_loginAccount, {})
    /\ CleanUp(m_set_mobileAccount \ m_set_loginAccount)

\* Disconnect and OnDisconnect
Disconnect ==
    /\ connected
    /\ connected' = FALSE
    /\ HandleConnectionLost
    /\ UNCHANGED <<m_set_loginAccount, m_InverseRelation, messenger_list, loads>>

-----------------------------------------------------------------------------
(***************************************************************************)
(* Changes of the lists.                                                   *)
(***************************************************************************)
\* AddToList and __AddToList
AddToList(account, companion) ==
    /\ IsAccountInGame(account) /\ account # companion
    /\ companion \notin m_Relation[account]
    /\ messenger_list' = [messenger_list EXCEPT ![account] = @ \cup {companion}]
    /\ m_Relation' = [m_Relation EXCEPT ![account] = @ \cup {companion}]
    /\ entries' = entries \cup {account}
    /\ m_InverseRelation' = [m_InverseRelation EXCEPT ![companion] = @ \cup {account}]
    /\ seen' = [seen EXCEPT ![account][companion] = GetUserStatus(companion)]
    /\ UNCHANGED <<connected, m_set_loginAccount, m_set_mobileAccount, loads, unannounced>>

\* Mutant of RemoveFromList: the maps are swapped.
RemoveFromListSwapped(account, companion) ==
    /\ IsAccountInGame(account) /\ account # companion
    /\ messenger_list' = [messenger_list EXCEPT ![account] = @ \ {companion}]
    /\ m_Relation' = [m_Relation EXCEPT ![companion] = @ \ {account}]
    /\ m_InverseRelation' = [m_InverseRelation EXCEPT ![account] = @ \ {companion}]
    /\ seen' = [seen EXCEPT ![account][companion] = Untold]
    /\ UNCHANGED <<connected, m_set_loginAccount, m_set_mobileAccount, entries, loads,
                   unannounced>>

\* RemoveFromList and __RemoveFromList; the client drops the friend.
RemoveFromList(account, companion) ==
    /\ IsAccountInGame(account) /\ account # companion
    /\ messenger_list' = [messenger_list EXCEPT ![account] = @ \ {companion}]
    /\ m_Relation' = [m_Relation EXCEPT ![account] = @ \ {companion}]
    /\ m_InverseRelation' = [m_InverseRelation EXCEPT ![companion] = @ \ {account}]
    /\ seen' = [seen EXCEPT ![account][companion] = Untold]
    /\ UNCHANGED <<connected, m_set_loginAccount, m_set_mobileAccount, entries, loads,
                   unannounced>>

\* RemoveAllList: the rows of the table go in both directions.  The loop over
\* the list erases from the set it iterates over, so that it may miss some; the
\* first it does not miss.
RemoveAllList(account) ==
    /\ account \in entries
    /\ messenger_list' = [a \in Accounts |-> IF a = account THEN {}
                                             ELSE messenger_list[a] \ {account}]
    /\ \E removed \in SUBSET m_Relation[account] :
          /\ m_Relation[account] # {} => removed # {}
          /\ m_Relation' = [m_Relation EXCEPT ![account] = @ \ removed]
          /\ m_InverseRelation' = [b \in Accounts |-> IF b \in removed
                                                      THEN m_InverseRelation[b] \ {account}
                                                      ELSE m_InverseRelation[b]]
          /\ seen' = [seen EXCEPT ![account] =
                        [b \in Accounts |-> IF b \in removed THEN Untold ELSE @[b]]]
    /\ UNCHANGED <<connected, m_set_loginAccount, m_set_mobileAccount, entries, loads,
                   unannounced>>

Next ==
    \/ \E a \in Accounts : Login(a) \/ Logout(a) \/ RemoveAllList(a)
    \/ LoadList
    \/ SessionStart \/ Disconnect
    \/ \E a \in Accounts : MobileLogin(a) \/ MobileLogout(a)
    \/ \E a, b \in Accounts : AddToList(a, b) \/ RemoveFromList(a, b)

Spec == Init /\ [][Next]_vars

\* The database answers.
FairSpec == Spec /\ WF_vars(LoadList)

-----------------------------------------------------------------------------
(***************************************************************************)
(* Properties.                                                             *)
(***************************************************************************)
\* Type invariant.
TypeOK ==
    /\ connected \in BOOLEAN
    /\ m_set_loginAccount \subseteq Accounts
    /\ m_set_mobileAccount \subseteq Accounts
    /\ m_Relation \in [Accounts -> SUBSET Accounts]
    /\ entries \subseteq Accounts
    /\ m_InverseRelation \in [Accounts -> SUBSET Accounts]
    /\ messenger_list \in [Accounts -> SUBSET Accounts]
    /\ loads \in Seq([account : Accounts, rows : SUBSET Accounts])
    /\ seen \in [Accounts -> [Accounts -> EUserStatus \cup {Untold}]]
    /\ unannounced \subseteq Accounts

Loading(account) == \E i \in 1..Len(loads) : loads[i].account = account

\* Nobody is on mobile without a session with the bridge, so that a whisper is
\* never held back for a check the bridge cannot be asked.
MobileNeedsSession == ~connected => m_set_mobileAccount = {}

\* What a client shows of a friend is the friend's status, whatever happened to
\* lists, logins and the session since it was told.  The exception is a friend whose
\* login was not announced: his list is still being loaded, or came back empty, and
\* then LoadList does not know whom to announce and the client shows him as he was
\* before, until the next change of his status.
StatusSeen ==
    \A a \in m_set_loginAccount : \A b \in Accounts \ unannounced :
        seen[a][b] # Untold => seen[a][b] = GetUserStatus(b)

\* Who shows a friend hears of it: no clean-up of relations loses him the news.
Subscribed ==
    \A a \in m_set_loginAccount : \A b \in Accounts :
        seen[a][b] # Untold => a \in m_InverseRelation[b]

\* The login of an account that has friends is shown in the end, by everybody who
\* shows it, or was over before: no change of lists, presence or session while its
\* list is loaded keeps LoadList from announcing it.
Announcing(account) ==
    \E i \in 1..Len(loads) : loads[i].account = account /\ loads[i].rows # {}

LoginShown ==
    \A a, b \in Accounts :
        (/\ a \in m_set_loginAccount /\ seen[a][b] # Untold
         /\ seen[a][b] # GetUserStatus(b) /\ Announcing(b))
            ~> (\/ a \notin m_set_loginAccount \/ seen[a][b] = Untold
                \/ seen[a][b] = GetUserStatus(b))

\* "Clean up relations only if completely offline": the list of an account that
\* is in game, and whose list is loaded, has every friend the table has.
ListKept ==
    \A a \in m_set_loginAccount : ~Loading(a) => messenger_list[a] \subseteq m_Relation[a]
=============================================================================
