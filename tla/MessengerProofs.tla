-------------------------- MODULE MessengerProofs --------------------------
(***************************************************************************)
(* What clients are told of their friends is true, for any number of       *)
(* accounts and outstanding queries.                                       *)
(***************************************************************************)
EXTENDS Messenger, SequenceTheorems, TLAPS

Row == [account : Accounts, rows : SUBSET Accounts]

\* The two maps agree: the clean-up of m_Relation may only lose friends.
RelationsAgree ==
    \A a, b \in Accounts : b \in m_Relation[a] => a \in m_InverseRelation[b]

\* The inductive invariant.  Subscribed needs RelationsAgree, because LoadList
\* sends whatever is in m_Relation; StatusSeen needs Subscribed, because only
\* those in m_InverseRelation are told of a change.
Inv == TypeOK /\ MobileNeedsSession /\ RelationsAgree /\ Subscribed /\ StatusSeen

-----------------------------------------------------------------------------
\* What is told has the type of a status, and replaces nothing else.
LEMMA StatusType ==
    ASSUME NEW ACTION game, NEW ACTION mobile, NEW a
    PROVE  Status(game, mobile, a) \in EUserStatus
  BY DEF Status, EUserStatus

LEMMA ToldType ==
    ASSUME TypeOK, NEW ACTION changed, NEW ACTION inverse, NEW ACTION game,
           NEW ACTION mobile
    PROVE  /\ Told(changed, inverse, game, mobile)
                 \in [Accounts -> [Accounts -> EUserStatus \cup {Untold}]]
           /\ \A f, b \in Accounts :
                 Told(changed, inverse, game, mobile)[f][b] =
                     IF b \in changed /\ f \in inverse[b] /\ f \in game
                     THEN Status(game, mobile, b) ELSE seen[f][b]
  BY StatusType DEF Told, TypeOK

\* The queue of query results.
LEMMA LoadsAppend ==
    ASSUME TypeOK, NEW STATE r, r \in Row, loads' = Append(loads, r)
    PROVE  loads' \in Seq(Row)
  BY AppendProperties DEF TypeOK, Row

LEMMA LoadsTail ==
    ASSUME TypeOK, loads # <<>>, loads' = Tail(loads)
    PROVE  loads' \in Seq(Row) /\ Head(loads) \in Row
  <1>1. loads \in Seq(Row)
    BY DEF TypeOK, Row
  <1> QED BY <1>1, HeadTailProperties, EmptySeq

LEMMA InitInv == Init => Inv
  <1> SUFFICES ASSUME Init PROVE Inv
    OBVIOUS
  <1>1. TypeOK
    <2>1. connected \in BOOLEAN
      BY DEF Init
    <2>2. messenger_list \in [Accounts -> SUBSET Accounts]
      BY DEF Init
    <2>3. /\ m_set_loginAccount \subseteq Accounts /\ m_set_mobileAccount \subseteq Accounts
          /\ m_Relation \in [Accounts -> SUBSET Accounts]
          /\ m_InverseRelation \in [Accounts -> SUBSET Accounts]
          /\ entries \subseteq Accounts /\ unannounced \subseteq Accounts
          /\ loads \in Seq([account : Accounts, rows : SUBSET Accounts])
      BY DEF Init
    <2>4. seen \in [Accounts -> [Accounts -> EUserStatus \cup {Untold}]]
      BY DEF Init
    <2> QED BY <2>1, <2>2, <2>3, <2>4 DEF TypeOK
  <1>2. MobileNeedsSession /\ RelationsAgree /\ Subscribed /\ StatusSeen
    BY DEF Init, MobileNeedsSession, RelationsAgree, Subscribed, StatusSeen
  <1> QED BY <1>1, <1>2 DEF Inv

-----------------------------------------------------------------------------
(***************************************************************************)
(* Each kind of step preserves the invariant.                              *)
(***************************************************************************)
LEMMA LoginKeeps ==
    ASSUME Inv, NEW a \in Accounts, Login(a)
    PROVE  Inv'
  <1> DEFINE r == [account |-> a, rows |-> messenger_list[a]]
  <1>1. r \in Row /\ r.account = a
    BY DEF Row, Inv, TypeOK
  <1>2. loads' = Append(loads, r)
    BY DEF Login
  <1> HIDE DEF r
  <1>3. loads' \in Seq(Row)
    BY <1>1, <1>2, LoadsAppend DEF Inv
  <1>4. /\ m_set_loginAccount' = m_set_loginAccount \cup {a}
        /\ unannounced' = unannounced \cup {a}
        /\ UNCHANGED <<connected, m_set_mobileAccount, m_Relation, entries,
                       m_InverseRelation, messenger_list>>
        /\ seen' = [seen EXCEPT ![a] = [b \in Accounts |-> Untold]]
    BY DEF Login, lists
  <1>5. /\ seen' \in [Accounts -> [Accounts -> EUserStatus \cup {Untold}]]
        /\ \A f, b \in Accounts : seen'[f][b] = IF f = a THEN Untold ELSE seen[f][b]
    BY <1>4 DEF Inv, TypeOK
  <1>6. TypeOK'
    BY <1>3, <1>4, <1>5 DEF Inv, TypeOK, Row
  <1>7. MobileNeedsSession' /\ RelationsAgree'
    BY <1>4 DEF Inv, MobileNeedsSession, RelationsAgree
  <1>8. Subscribed'
    BY <1>4, <1>5 DEF Inv, TypeOK, Subscribed
  <1>9. StatusSeen'
    BY <1>3, <1>4, <1>5 DEF Inv, TypeOK, StatusSeen, GetUserStatus, Status
  <1> QED BY <1>6, <1>7, <1>8, <1>9 DEF Inv

\* A change of presence of some accounts, of which their friends are told, and
\* the clean-up after it.
LEMMA PresenceKeeps ==
    ASSUME Inv, NEW ACTION changed,
           m_set_loginAccount' \subseteq m_set_loginAccount,
           m_set_mobileAccount' \subseteq Accounts,
           connected' \in BOOLEAN, MobileNeedsSession',
           \A b \in Accounts \ changed :
               /\ b \in m_set_loginAccount' <=> b \in m_set_loginAccount
               /\ b \in m_set_mobileAccount' <=> b \in m_set_mobileAccount,
           NotifyStatusChange(changed, m_set_loginAccount', m_set_mobileAccount'),
           m_Relation' \in [Accounts -> SUBSET Accounts],
           \A a \in Accounts : m_Relation'[a] \subseteq m_Relation[a],
           entries' \subseteq Accounts,
           UNCHANGED <<m_InverseRelation, messenger_list, loads>>
    PROVE  Inv'
  <1>1. /\ seen' \in [Accounts -> [Accounts -> EUserStatus \cup {Untold}]]
        /\ \A f, b \in Accounts :
              seen'[f][b] = IF /\ b \in changed /\ f \in m_InverseRelation[b]
                               /\ f \in m_set_loginAccount'
                            THEN Status(m_set_loginAccount', m_set_mobileAccount', b)
                            ELSE seen[f][b]
    BY ToldType DEF Inv, NotifyStatusChange
  <1>2. unannounced' = unannounced \ changed
    BY DEF NotifyStatusChange
  <1>5. TypeOK'
    BY <1>1, <1>2 DEF Inv, TypeOK
  <1>3. RelationsAgree'
    BY DEF Inv, RelationsAgree
  <1>4. Subscribed'
    BY <1>1 DEF Inv, TypeOK, Subscribed
  <1>6. StatusSeen'
    <2> SUFFICES ASSUME NEW a \in m_set_loginAccount', NEW b \in Accounts \ unannounced',
                        seen'[a][b] # Untold
                 PROVE  seen'[a][b] = GetUserStatus(b)'
      BY DEF StatusSeen
    <2>1. a \in Accounts /\ a \in m_set_loginAccount
      BY DEF Inv, TypeOK
    <2>2. CASE b \in changed
      <3>1. a \in m_InverseRelation[b]
        BY <1>4, <2>1 DEF Subscribed
      <3> QED BY <1>1, <2>1, <2>2, <3>1 DEF GetUserStatus
    <2>3. CASE b \notin changed
      <3>1. seen'[a][b] = seen[a][b]
        BY <1>1, <2>1, <2>3
      <3>2. seen[a][b] = GetUserStatus(b)
        BY <1>2, <2>1, <2>3, <3>1 DEF Inv, StatusSeen
      <3>3. GetUserStatus(b)' = GetUserStatus(b)
        BY <2>3 DEF GetUserStatus, Status
      <3> QED BY <3>1, <3>2, <3>3
    <2> QED BY <2>2, <2>3
  <1> QED BY <1>3, <1>4, <1>5, <1>6 DEF Inv

\* The clean-up only takes friends away.
LEMMA CleanUpShrinks ==
    ASSUME TypeOK, NEW ACTION gone, CleanUp(gone)
    PROVE  /\ m_Relation' \in [Accounts -> SUBSET Accounts]
           /\ \A a \in Accounts : m_Relation'[a] \subseteq m_Relation[a]
           /\ entries' \subseteq Accounts
  BY DEF TypeOK, CleanUp

LEMMA LogoutKeeps ==
    ASSUME Inv, NEW a \in Accounts, Logout(a)
    PROVE  Inv'
  <1>1. /\ m_set_loginAccount' = m_set_loginAccount \ {a}
        /\ NotifyStatusChange({a}, m_set_loginAccount', m_set_mobileAccount')
        /\ UNCHANGED <<connected, m_set_mobileAccount, m_InverseRelation, messenger_list,
                       loads>>
    BY DEF Logout
  <1>2. /\ m_Relation' \in [Accounts -> SUBSET Accounts]
        /\ \A x \in Accounts : m_Relation'[x] \subseteq m_Relation[x]
        /\ entries' \subseteq Accounts
    BY CleanUpShrinks DEF Logout, Inv
  <1>3. MobileNeedsSession' /\ connected' \in BOOLEAN /\ m_set_mobileAccount' \subseteq Accounts
    BY <1>1 DEF Inv, TypeOK, MobileNeedsSession
  <1> QED BY <1>1, <1>2, <1>3, PresenceKeeps

LEMMA MobileKeeps ==
    ASSUME Inv, NEW a \in Accounts, MobileLogin(a) \/ MobileLogout(a)
    PROVE  Inv'
  <1>1. /\ connected
        /\ NotifyStatusChange({a}, m_set_loginAccount', m_set_mobileAccount')
        /\ UNCHANGED <<connected, m_set_loginAccount, m_InverseRelation, messenger_list,
                       loads>>
    BY DEF MobileLogin, MobileLogout, lists
  <1>2. \/ m_set_mobileAccount' = m_set_mobileAccount \cup {a}
        \/ m_set_mobileAccount' = m_set_mobileAccount \ {a}
    BY DEF MobileLogin, MobileLogout
  <1>3. /\ m_Relation' \in [Accounts -> SUBSET Accounts]
        /\ \A x \in Accounts : m_Relation'[x] \subseteq m_Relation[x]
        /\ entries' \subseteq Accounts
    <2>1. CASE MobileLogin(a)
      BY <2>1 DEF MobileLogin, lists, Inv, TypeOK
    <2>2. CASE MobileLogout(a)
      BY <2>2, CleanUpShrinks DEF MobileLogout, Inv
    <2> QED BY <2>1, <2>2
  <1>4. MobileNeedsSession' /\ connected' \in BOOLEAN
    BY <1>1, Zenon DEF MobileNeedsSession, Inv, TypeOK
  <1>5. m_set_mobileAccount' \subseteq Accounts
    BY <1>2 DEF Inv, TypeOK
  <1> QED BY <1>1, <1>2, <1>3, <1>4, <1>5, PresenceKeeps

LEMMA SessionKeeps ==
    ASSUME Inv, SessionStart \/ Disconnect
    PROVE  Inv'
  <1>1. CASE SessionStart
    <2>1. /\ connected' = TRUE
          /\ UNCHANGED <<m_set_loginAccount, m_set_mobileAccount, m_Relation, entries,
                         m_InverseRelation, messenger_list, loads, seen, unannounced>>
      BY <1>1 DEF SessionStart, lists
    <2>2. TypeOK'
      <3>1. connected' \in BOOLEAN
        BY <2>1
      <3> QED BY <2>1, <3>1, Zenon DEF Inv, TypeOK
    <2>3. MobileNeedsSession'
      BY <2>1 DEF MobileNeedsSession
    <2>4. RelationsAgree' /\ Subscribed' /\ StatusSeen'
      BY <2>1 DEF Inv, RelationsAgree, Subscribed, StatusSeen, GetUserStatus
    <2> QED BY <2>2, <2>3, <2>4 DEF Inv
  <1>2. CASE Disconnect
    <2>1. /\ connected' = FALSE /\ m_set_mobileAccount' = {}
          /\ NotifyStatusChange(m_set_mobileAccount, m_set_loginAccount', m_set_mobileAccount')
          /\ UNCHANGED <<m_set_loginAccount, m_InverseRelation, messenger_list, loads>>
      BY <1>2 DEF Disconnect, HandleConnectionLost
    <2>2. /\ m_Relation' \in [Accounts -> SUBSET Accounts]
          /\ \A x \in Accounts : m_Relation'[x] \subseteq m_Relation[x]
          /\ entries' \subseteq Accounts
      BY <1>2, CleanUpShrinks DEF Disconnect, HandleConnectionLost, Inv
    <2>3. MobileNeedsSession' /\ connected' \in BOOLEAN
      BY <2>1 DEF MobileNeedsSession
    <2> QED BY <2>1, <2>2, <2>3, PresenceKeeps
  <1> QED BY <1>1, <1>2

\* The load of a list that has friends.
LEMMA LoadListKeeps ==
    ASSUME Inv, LoadList, Head(loads).rows # {}
    PROVE  Inv'
  <1> DEFINE account == Head(loads).account
             rows == Head(loads).rows
             told == Told({account}, m_InverseRelation', m_set_loginAccount, m_set_mobileAccount)
  <1>1. loads' \in Seq(Row) /\ Head(loads) \in Row
    BY LoadsTail DEF LoadList, Inv
  <1>2. account \in Accounts /\ rows \subseteq Accounts
    BY <1>1 DEF Row
  <1>3. /\ UNCHANGED <<connected, m_set_loginAccount, m_set_mobileAccount, messenger_list>>
        /\ m_Relation' = [m_Relation EXCEPT ![account] = @ \cup rows]
        /\ m_InverseRelation' = [b \in Accounts |-> IF b \in rows
                                                    THEN m_InverseRelation[b] \cup {account}
                                                    ELSE m_InverseRelation[b]]
        /\ seen' = IF IsAccountInGame(account)
                   THEN [told EXCEPT ![account] =
                           [b \in Accounts |-> IF b \in m_Relation'[account]
                                               THEN GetUserStatus(b) ELSE @[b]]]
                   ELSE told
        /\ unannounced' = unannounced \ {account} /\ entries' = entries \cup {account}
    BY DEF LoadList, JoinRows, ListSent
  <1>4. /\ told \in [Accounts -> [Accounts -> EUserStatus \cup {Untold}]]
        /\ \A f, b \in Accounts :
              told[f][b] = IF /\ b = account /\ f \in m_InverseRelation'[b]
                              /\ f \in m_set_loginAccount
                           THEN GetUserStatus(b) ELSE seen[f][b]
    BY ToldType DEF Inv, GetUserStatus
  <1> HIDE DEF account, rows, told
  <1>5. \A b : GetUserStatus(b) \in EUserStatus
    BY StatusType DEF GetUserStatus
  <1>6. /\ seen' \in [Accounts -> [Accounts -> EUserStatus \cup {Untold}]]
        /\ \A f, b \in Accounts :
              seen'[f][b] = IF /\ f = account /\ IsAccountInGame(f)
                               /\ b \in m_Relation'[account]
                            THEN GetUserStatus(b) ELSE told[f][b]
    BY <1>2, <1>3, <1>4, <1>5
  <1>7. /\ m_Relation' \in [Accounts -> SUBSET Accounts]
        /\ m_InverseRelation' \in [Accounts -> SUBSET Accounts]
        /\ \A a, b \in Accounts :
              b \in m_Relation'[a] <=> b \in m_Relation[a] \/ (a = account /\ b \in rows)
        /\ \A a, b \in Accounts :
              a \in m_InverseRelation'[b] <=>
                  a \in m_InverseRelation[b] \/ (a = account /\ b \in rows)
    BY <1>2, <1>3 DEF Inv, TypeOK
  <1>8. TypeOK'
    BY <1>1, <1>2, <1>3, <1>6, <1>7 DEF Inv, TypeOK, Row
  <1>9. MobileNeedsSession' /\ RelationsAgree'
    BY <1>3, <1>7 DEF Inv, MobileNeedsSession, RelationsAgree
  <1>10. Subscribed'
    <2> SUFFICES ASSUME NEW a \in m_set_loginAccount, NEW b \in Accounts,
                        seen'[a][b] # Untold
                 PROVE  a \in m_InverseRelation'[b]
      BY <1>3 DEF Subscribed
    <2>1. a \in Accounts
      BY DEF Inv, TypeOK
    <2>2. \/ a = account /\ b \in m_Relation'[account]
          \/ a \in m_InverseRelation'[b]
          \/ seen'[a][b] = seen[a][b]
      BY <1>2, <1>4, <1>6, <2>1
    <2>3. CASE a = account /\ b \in m_Relation'[account]
      BY <1>9, <2>1, <2>3 DEF RelationsAgree
    <2>4. CASE seen'[a][b] = seen[a][b]
      BY <1>7, <2>1, <2>4 DEF Inv, Subscribed
    <2> QED BY <2>2, <2>3, <2>4
  <1>11. StatusSeen'
    <2> SUFFICES ASSUME NEW a \in m_set_loginAccount, NEW b \in Accounts \ unannounced',
                        seen'[a][b] # Untold
                 PROVE  seen'[a][b] = GetUserStatus(b)
      BY <1>3 DEF StatusSeen, GetUserStatus
    <2>1. a \in Accounts
      BY DEF Inv, TypeOK
    <2>2. a \in m_InverseRelation'[b]
      BY <1>3, <1>10 DEF Subscribed
    <2>3. CASE b = account
      BY <1>2, <1>4, <1>6, <2>1, <2>2, <2>3
    <2>4. CASE b # account
      <3>1. b \notin unannounced
        BY <1>3, <2>4
      <3>2. seen'[a][b] = seen[a][b] \/ seen'[a][b] = GetUserStatus(b)
        BY <1>4, <1>6, <2>1, <2>4
      <3> QED BY <3>1, <3>2 DEF Inv, StatusSeen
    <2> QED BY <2>3, <2>4
  <1> QED BY <1>8, <1>9, <1>10, <1>11 DEF Inv

\* An empty list changes nothing but the queue of results.
LEMMA EmptyListKeeps ==
    ASSUME Inv, LoadList, Head(loads).rows = {}
    PROVE  Inv'
  <1>1. loads' \in Seq(Row)
    BY LoadsTail DEF LoadList, Inv
  <1>2. UNCHANGED <<connected, m_set_loginAccount, m_set_mobileAccount, m_Relation, entries,
                    m_InverseRelation, messenger_list, seen, unannounced>>
    BY DEF LoadList, lists
  <1>3. TypeOK'
    BY <1>1, <1>2, Zenon DEF Inv, TypeOK, Row
  <1>4. MobileNeedsSession' /\ RelationsAgree' /\ Subscribed' /\ StatusSeen'
    BY <1>2 DEF Inv, MobileNeedsSession, RelationsAgree, Subscribed, StatusSeen, GetUserStatus
  <1> QED BY <1>3, <1>4 DEF Inv

LEMMA AddKeeps ==
    ASSUME Inv, NEW a \in Accounts, NEW b \in Accounts, AddToList(a, b)
    PROVE  Inv'
  <1>1. /\ UNCHANGED <<connected, m_set_loginAccount, m_set_mobileAccount, loads,
                       unannounced>>
        /\ entries' = entries \cup {a}
        /\ messenger_list' = [messenger_list EXCEPT ![a] = @ \cup {b}]
        /\ m_Relation' = [m_Relation EXCEPT ![a] = @ \cup {b}]
        /\ m_InverseRelation' = [m_InverseRelation EXCEPT ![b] = @ \cup {a}]
        /\ seen' = [seen EXCEPT ![a][b] = GetUserStatus(b)]
    BY DEF AddToList
  <1>2. GetUserStatus(b) \in EUserStatus
    BY StatusType DEF GetUserStatus
  <1>3. /\ seen' \in [Accounts -> [Accounts -> EUserStatus \cup {Untold}]]
        /\ \A x, y \in Accounts :
              seen'[x][y] = IF x = a /\ y = b THEN GetUserStatus(b) ELSE seen[x][y]
    BY <1>1, <1>2 DEF Inv, TypeOK
  <1>4. /\ m_Relation' \in [Accounts -> SUBSET Accounts]
        /\ m_InverseRelation' \in [Accounts -> SUBSET Accounts]
        /\ messenger_list' \in [Accounts -> SUBSET Accounts]
        /\ \A x, y \in Accounts :
              y \in m_Relation'[x] <=> y \in m_Relation[x] \/ (x = a /\ y = b)
        /\ \A x, y \in Accounts :
              x \in m_InverseRelation'[y] <=> x \in m_InverseRelation[y] \/ (x = a /\ y = b)
    BY <1>1 DEF Inv, TypeOK
  <1>5. TypeOK'
    BY <1>1, <1>3, <1>4 DEF Inv, TypeOK
  <1>6. MobileNeedsSession' /\ RelationsAgree'
    BY <1>1, <1>4 DEF Inv, MobileNeedsSession, RelationsAgree
  <1>7. Subscribed'
    BY <1>1, <1>3, <1>4 DEF Inv, TypeOK, Subscribed
  <1>8. StatusSeen'
    BY <1>1, <1>3 DEF Inv, TypeOK, StatusSeen, GetUserStatus
  <1> QED BY <1>5, <1>6, <1>7, <1>8 DEF Inv

\* Some friends of an account leave its list, in both maps and at its client.
Removal(a, removed) ==
    /\ UNCHANGED <<connected, m_set_loginAccount, m_set_mobileAccount, entries, loads,
                   unannounced>>
    /\ messenger_list' \in [Accounts -> SUBSET Accounts]
    /\ m_Relation' \in [Accounts -> SUBSET Accounts]
    /\ m_InverseRelation' \in [Accounts -> SUBSET Accounts]
    /\ seen' \in [Accounts -> [Accounts -> EUserStatus \cup {Untold}]]
    /\ \A x, y \in Accounts :
           y \in m_Relation'[x] <=> y \in m_Relation[x] /\ ~(x = a /\ y \in removed)
    /\ \A x, y \in Accounts :
           x \in m_InverseRelation'[y] <=>
               x \in m_InverseRelation[y] /\ ~(x = a /\ y \in removed)
    /\ \A x, y \in Accounts :
           seen'[x][y] = IF x = a /\ y \in removed THEN Untold ELSE seen[x][y]

LEMMA RemovalKeeps ==
    ASSUME Inv, NEW a \in Accounts, NEW removed \in SUBSET Accounts, Removal(a, removed)
    PROVE  Inv'
  <1> USE DEF Removal
  <1>1. TypeOK'
    BY Zenon DEF Inv, TypeOK
  <1>2. MobileNeedsSession' /\ RelationsAgree'
    BY DEF Inv, MobileNeedsSession, RelationsAgree
  <1>3. Subscribed'
    BY DEF Inv, TypeOK, Subscribed
  <1>4. StatusSeen'
    BY DEF Inv, TypeOK, StatusSeen, GetUserStatus
  <1> QED BY <1>1, <1>2, <1>3, <1>4 DEF Inv

LEMMA RemoveKeeps ==
    ASSUME Inv, NEW a \in Accounts, NEW b \in Accounts, RemoveFromList(a, b)
    PROVE  Inv'
  <1>1. /\ UNCHANGED <<connected, m_set_loginAccount, m_set_mobileAccount, entries, loads,
                   unannounced>>
        /\ messenger_list' = [messenger_list EXCEPT ![a] = @ \ {b}]
        /\ m_Relation' = [m_Relation EXCEPT ![a] = @ \ {b}]
        /\ m_InverseRelation' = [m_InverseRelation EXCEPT ![b] = @ \ {a}]
        /\ seen' = [seen EXCEPT ![a][b] = Untold]
    BY DEF RemoveFromList
  <1>2. /\ seen' \in [Accounts -> [Accounts -> EUserStatus \cup {Untold}]]
        /\ \A x, y \in Accounts :
              seen'[x][y] = IF x = a /\ y \in {b} THEN Untold ELSE seen[x][y]
    BY <1>1 DEF Inv, TypeOK
  <1>3. /\ messenger_list' \in [Accounts -> SUBSET Accounts]
        /\ m_Relation' \in [Accounts -> SUBSET Accounts]
        /\ m_InverseRelation' \in [Accounts -> SUBSET Accounts]
        /\ \A x, y \in Accounts :
              y \in m_Relation'[x] <=> y \in m_Relation[x] /\ ~(x = a /\ y \in {b})
        /\ \A x, y \in Accounts :
              x \in m_InverseRelation'[y] <=>
                  x \in m_InverseRelation[y] /\ ~(x = a /\ y \in {b})
    BY <1>1 DEF Inv, TypeOK
  <1>4. {b} \in SUBSET Accounts
    OBVIOUS
  <1>5. Removal(a, {b})
    BY <1>1, <1>2, <1>3, Zenon DEF Removal
  <1> QED BY <1>4, <1>5, RemovalKeeps

LEMMA RemoveAllKeeps ==
    ASSUME Inv, NEW a \in Accounts, RemoveAllList(a)
    PROVE  Inv'
  <1>1. PICK removed \in SUBSET m_Relation[a] :
          /\ m_Relation' = [m_Relation EXCEPT ![a] = @ \ removed]
          /\ m_InverseRelation' = [b \in Accounts |-> IF b \in removed
                                                      THEN m_InverseRelation[b] \ {a}
                                                      ELSE m_InverseRelation[b]]
          /\ seen' = [seen EXCEPT ![a] =
                        [b \in Accounts |-> IF b \in removed THEN Untold ELSE @[b]]]
    BY DEF RemoveAllList
  <1>2. /\ UNCHANGED <<connected, m_set_loginAccount, m_set_mobileAccount, entries, loads,
                   unannounced>>
        /\ messenger_list' \in [Accounts -> SUBSET Accounts]
    BY DEF RemoveAllList, Inv, TypeOK
  <1>3. removed \in SUBSET Accounts
    BY DEF Inv, TypeOK
  <1>4. /\ seen' \in [Accounts -> [Accounts -> EUserStatus \cup {Untold}]]
        /\ \A x, y \in Accounts :
              seen'[x][y] = IF x = a /\ y \in removed THEN Untold ELSE seen[x][y]
    BY <1>1 DEF Inv, TypeOK
  <1>5. /\ m_Relation' \in [Accounts -> SUBSET Accounts]
        /\ m_InverseRelation' \in [Accounts -> SUBSET Accounts]
        /\ \A x, y \in Accounts :
              y \in m_Relation'[x] <=> y \in m_Relation[x] /\ ~(x = a /\ y \in removed)
        /\ \A x, y \in Accounts :
              x \in m_InverseRelation'[y] <=>
                  x \in m_InverseRelation[y] /\ ~(x = a /\ y \in removed)
    BY <1>1 DEF Inv, TypeOK
  <1>6. Removal(a, removed)
    BY <1>2, <1>4, <1>5, Zenon DEF Removal
  <1> QED BY <1>3, <1>6, RemovalKeeps

LEMMA StepKeeps == Inv /\ [Next]_vars => Inv'
  <1> SUFFICES ASSUME Inv, [Next]_vars PROVE Inv'
    OBVIOUS
  <1>1. ASSUME NEW a \in Accounts, Login(a) PROVE Inv'
    BY <1>1, LoginKeeps
  <1>2. ASSUME NEW a \in Accounts, Logout(a) PROVE Inv'
    BY <1>2, LogoutKeeps
  <1>3. ASSUME NEW a \in Accounts, RemoveAllList(a) PROVE Inv'
    BY <1>3, RemoveAllKeeps
  <1>4. CASE LoadList
    <2>1. CASE Head(loads).rows # {} BY <1>4, <2>1, LoadListKeeps
    <2>2. CASE Head(loads).rows = {} BY <1>4, <2>2, EmptyListKeeps
    <2> QED BY <2>1, <2>2
  <1>5. CASE SessionStart \/ Disconnect
    BY <1>5, SessionKeeps
  <1>6. ASSUME NEW a \in Accounts, MobileLogin(a) \/ MobileLogout(a) PROVE Inv'
    BY <1>6, MobileKeeps
  <1>7. ASSUME NEW a \in Accounts, NEW b \in Accounts, AddToList(a, b) PROVE Inv'
    BY <1>7, AddKeeps
  <1>8. ASSUME NEW a \in Accounts, NEW b \in Accounts, RemoveFromList(a, b) PROVE Inv'
    BY <1>8, RemoveKeeps
  <1>9. CASE UNCHANGED vars
    BY <1>9 DEF vars, lists, Inv, TypeOK, MobileNeedsSession, RelationsAgree, Subscribed,
                StatusSeen, GetUserStatus
  <1> QED
    BY <1>1, <1>2, <1>3, <1>4, <1>5, <1>6, <1>7, <1>8, <1>9 DEF Next

-----------------------------------------------------------------------------
\* The inductive invariant holds throughout.
LEMMA Invariance == Spec => []Inv
  BY InitInv, StepKeeps, PTL DEF Spec

\* The sets and maps of the messenger hold accounts, and clients show statuses.
THEOREM TypeCorrect == Spec => []TypeOK
  <1>1. Inv => TypeOK
    BY DEF Inv
  <1> QED BY <1>1, Invariance, PTL

\* Mobile presence ends with the session that brought it, so that no whisper is
\* held back for a bridge that cannot be asked.
THEOREM NobodyOnMobileAlone == Spec => []MobileNeedsSession
  <1>1. Inv => MobileNeedsSession
    BY DEF Inv
  <1> QED BY <1>1, Invariance, PTL

\* Whoever shows a friend is in m_InverseRelation for him, whatever the
\* clean-ups do to m_Relation.
THEOREM NewsReachesClients == Spec => []Subscribed
  <1>1. Inv => Subscribed
    BY DEF Inv
  <1> QED BY <1>1, Invariance, PTL

\* What a client shows of a friend is the friend's status, unless the friend's login was
\* not announced (NotifyStatusChange, LoadList).
THEOREM ClientsShowTheTruth == Spec => []StatusSeen
  <1>1. Inv => StatusSeen
    BY DEF Inv
  <1> QED BY <1>1, Invariance, PTL

-----------------------------------------------------------------------------
(***************************************************************************)
(* Who is on mobile is what the core believes of the bridge in a session.  *)
(* Encryption makes no difference to it.                                   *)
(***************************************************************************)
Session == INSTANCE BridgeSession
    WITH up <- connected, secure <- FALSE, informed <- m_set_mobileAccount # {}

LEMMA SessionStep == Inv /\ [Next]_vars => [Session!Next]_(Session!vars)
  <1> SUFFICES ASSUME Inv, [Next]_vars PROVE [Session!Next]_(Session!vars)
    OBVIOUS
  <1>1. CASE SessionStart
    BY <1>1 DEF SessionStart, Inv, MobileNeedsSession, Session!Begin, Session!Next
  <1>2. CASE Disconnect
    BY <1>2 DEF Disconnect, HandleConnectionLost, Session!End, Session!Next
  <1>3. CASE \E a \in Accounts : MobileLogin(a) \/ MobileLogout(a)
    BY <1>3 DEF MobileLogin, MobileLogout, Session!Inform, Session!Next
  <1>4. CASE UNCHANGED <<connected, m_set_mobileAccount>>
    BY <1>4 DEF Session!vars
  <1>5. CASE \/ LoadList \/ UNCHANGED vars
             \/ \E a \in Accounts : Login(a) \/ Logout(a) \/ RemoveAllList(a)
             \/ \E a, b \in Accounts : AddToList(a, b) \/ RemoveFromList(a, b)
    BY <1>4, <1>5 DEF LoadList, vars, Login, Logout, RemoveAllList, AddToList, RemoveFromList
  <1> QED BY <1>1, <1>2, <1>3, <1>5 DEF Next

\* Presence on mobile begins and ends within a session, and the whole of it ends in the
\* step that ends the session (MobileLogin, MobileLogout, HandleConnectionLost).
THEOREM ImplementsSession == Spec => Session!Spec
  <1>1. Init => Session!Init
    BY DEF Init, Session!Init
  <1> QED BY <1>1, SessionStep, Invariance, PTL DEF Spec, Session!Spec
=============================================================================
