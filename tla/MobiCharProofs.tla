--------------------------- MODULE MobiCharProofs ---------------------------
(***************************************************************************)
(* Mobile characters, for any cores, characters and number of DESCs: no    *)
(* DESC escapes the clean-up, the bridge learns the end of what it was     *)
(* told, no login reaches a game core unchecked, and no login key is in    *)
(* two places.                                                             *)
(***************************************************************************)
EXTENDS MobiChar, SequenceTheorems, TLAPS

\* The auth core's DESCs are in the phases before the key is handed on, the game
\* cores' in those after it.
PhaseOfCore ==
    \A h \in DOMAIN desc :
        IF desc[h].phase \in {"AUTH", "AUTH_LOGIN", "SENT"}
        THEN desc[h].core = Auth ELSE desc[h].core \in GameCores

\* Every key on its way belongs to a login that was checked.
KeysVerified ==
    /\ \A c \in Cores : \A i \in 1..Len(gd[c]) : gd[c][i].key \in verified
    /\ \A c \in Cores : \A i \in 1..Len(dg[c]) : dg[c][i].key \in verified

Inv == TypeOK /\ Supervised /\ ToldTheEnd /\ AuthFirst /\ PhaseOfCore /\ KeysVerified

-----------------------------------------------------------------------------
\* No core has any DESC at first.
LEMMA InitInv == Init => Inv
  <1> SUFFICES ASSUME Init PROVE Inv
    OBVIOUS
  <1>1. DOMAIN desc = {}
    BY DEF Init
  <1>2. TypeOK
    <2>1. gd \in [Cores -> Seq(GDMessage)] /\ dg \in [Cores -> Seq(DGMessage)]
      BY DEF Init
    <2>2. m_iHandleCount \in 0..MaxDescs
      BY CoresAssumption DEF Init
    <2> QED BY <1>1, <2>1, <2>2 DEF Init, TypeOK, None
  <1>3. Supervised /\ AuthFirst /\ PhaseOfCore
    BY <1>1 DEF Supervised, AuthFirst, PhaseOfCore
  <1>4. ToldTheEnd
    BY DEF Init, ToldTheEnd
  <1>5. KeysVerified
    BY DEF Init, KeysVerified
  <1> QED BY <1>2, <1>3, <1>4, <1>5 DEF Inv

\* The operations on descs_.
LEMMA EraseFacts ==
    ASSUME TypeOK, NEW c \in Cores, NEW STATE ps, ps \in SUBSET Pids, EraseByKey(c, ps)
    PROVE  /\ descs' \in [Cores -> [Pids -> Handles \cup {None}]]
           /\ \A k \in Cores, p \in Pids :
                 descs'[k][p] = IF k = c /\ p \in ps THEN None ELSE descs[k][p]
           /\ DOMAIN desc' \subseteq DOMAIN desc
           /\ \A h \in DOMAIN desc : h \in DOMAIN desc' <=> \A p \in ps : descs[c][p] # h
           /\ \A h \in DOMAIN desc' : desc'[h] = desc[h]
  BY DEF TypeOK, EraseByKey, Without

\* What the bridge is told of some characters of a core.
LEMMA StatusFacts ==
    ASSUME TypeOK, NEW c \in Cores, NEW STATE ps, ps \in SUBSET Pids,
           NEW code \in EMobiLoad, sendChLoadStatus(c, ps, code)
    PROVE  /\ told' \in [Cores -> [Pids -> EMobiLoad \cup {"none"}]]
           /\ \A k \in Cores, p \in Pids :
                 told'[k][p] = IF k = c /\ p \in ps THEN code ELSE told[k][p]
  BY DEF TypeOK, sendChLoadStatus

\* Characters are dropped and the bridge is told.
LEMMA DropKeeps ==
    ASSUME Inv, NEW c \in Cores, NEW STATE ps, ps \in SUBSET Pids,
           EraseByKey(c, ps), sendChLoadStatus(c, ps, "FAILED"),
           m_iHandleCount' = m_iHandleCount
    PROVE  /\ descs' \in [Cores -> [Pids -> Handles \cup {None}]]
           /\ told' \in [Cores -> [Pids -> EMobiLoad \cup {"none"}]]
           /\ DOMAIN desc' \subseteq DOMAIN desc
           /\ \A h \in DOMAIN desc' : desc'[h] = desc[h]
           /\ Supervised' /\ ToldTheEnd'
  <1>1. TypeOK
    BY DEF Inv
  <1>2. /\ descs' \in [Cores -> [Pids -> Handles \cup {None}]]
        /\ \A k \in Cores, p \in Pids :
              descs'[k][p] = IF k = c /\ p \in ps THEN None ELSE descs[k][p]
        /\ DOMAIN desc' \subseteq DOMAIN desc
        /\ \A h \in DOMAIN desc : h \in DOMAIN desc' <=> \A p \in ps : descs[c][p] # h
        /\ \A h \in DOMAIN desc' : desc'[h] = desc[h]
    BY <1>1, EraseFacts
  <1>3. /\ told' \in [Cores -> [Pids -> EMobiLoad \cup {"none"}]]
        /\ \A k \in Cores, p \in Pids :
              told'[k][p] = IF k = c /\ p \in ps THEN "FAILED" ELSE told[k][p]
    BY <1>1, StatusFacts DEF EMobiLoad
  <1>4. Supervised'
    <2> SUFFICES ASSUME NEW h \in DOMAIN desc'
                 PROVE  \E p \in Pids : descs'[desc'[h].core][p] = h
      BY DEF Supervised, MobiGetByHandleID
    <2>1. h \in DOMAIN desc /\ desc'[h] = desc[h] /\ desc[h].core \in Cores
      BY <1>1, <1>2 DEF TypeOK, Desc
    <2>2. PICK p \in Pids : descs[desc[h].core][p] = h
      BY <2>1 DEF Inv, Supervised, MobiGetByHandleID
    <2>3. ~(desc[h].core = c /\ p \in ps)
      BY <1>2, <2>1, <2>2
    <2>4. descs'[desc'[h].core][p] = h
      BY <1>2, <2>1, <2>2, <2>3
    <2> QED BY <2>4
  <1>5. ToldTheEnd'
    BY <1>2, <1>3 DEF Inv, ToldTheEnd
  <1> QED BY <1>2, <1>3, <1>4, <1>5

\* What gd, dg and verified contribute to Inv.
Queues ==
    /\ gd \in [Cores -> Seq(GDMessage)]
    /\ dg \in [Cores -> Seq(DGMessage)]
    /\ verified \subseteq Handles
    /\ KeysVerified

\* Steps that send, take and check nothing.
LEMMA QueuesKept ==
    ASSUME Inv, UNCHANGED <<gd, dg, verified>>
    PROVE  Queues'
  BY DEF Inv, TypeOK, Queues, KeysVerified

\* Keys in a queue of which the head is taken.
LEMMA KeysOfTail ==
    ASSUME NEW M, NEW STATE S, NEW STATE s, s \in Seq(M), s # <<>>,
           \A i \in 1..Len(s) : s[i].key \in S
    PROVE  /\ Head(s) \in M /\ Head(s).key \in S
           /\ Tail(s) \in Seq(M)
           /\ \A i \in 1..Len(Tail(s)) : Tail(s)[i].key \in S
  <1>1. Head(s) \in M /\ Tail(s) \in Seq(M) /\ Len(Tail(s)) = Len(s) - 1
    BY HeadTailProperties
  <1>2. Len(s) \in Nat /\ Len(s) # 0 /\ Head(s) = s[1]
    BY EmptySeq
  <1>3. Head(s).key \in S
    BY <1>2
  <1>4. \A i \in 1..Len(Tail(s)) : Tail(s)[i] = s[i + 1] /\ i + 1 \in 1..Len(s)
    BY <1>1, <1>2
  <1> QED BY <1>1, <1>3, <1>4

\* A core takes the first of the db server's messages.
LEMMA QueuesTaken ==
    ASSUME Inv, NEW c \in Cores, dg[c] # <<>>, dg' = [dg EXCEPT ![c] = Tail(@)],
           UNCHANGED <<gd, verified>>
    PROVE  /\ Queues'
           /\ Head(dg[c]) \in DGMessage
           /\ Head(dg[c]).key \in verified
  <1>1. dg \in [Cores -> Seq(DGMessage)] /\ dg[c] \in Seq(DGMessage)
    BY DEF Inv, TypeOK
  <1>2. \A k \in Cores : \A i \in 1..Len(dg[k]) : dg[k][i].key \in verified
    BY DEF Inv, KeysVerified
  <1>3. /\ Head(dg[c]) \in DGMessage /\ Head(dg[c]).key \in verified
        /\ Tail(dg[c]) \in Seq(DGMessage)
        /\ \A i \in 1..Len(Tail(dg[c])) : Tail(dg[c])[i].key \in verified
    BY <1>1, <1>2, KeysOfTail
  <1>4. /\ dg' \in [Cores -> Seq(DGMessage)]
        /\ \A k \in Cores : dg'[k] = IF k = c THEN Tail(dg[c]) ELSE dg[k]
    BY <1>1, <1>3
  <1>5. \A k \in Cores : \A i \in 1..Len(dg'[k]) : dg'[k][i].key \in verified
    BY <1>2, <1>3, <1>4
  <1> QED BY <1>3, <1>4, <1>5 DEF Queues, Inv, TypeOK, KeysVerified

\* Characters are dropped and the bridge is told, with all that goes with it.
LEMMA DropInv ==
    ASSUME Inv, NEW c \in Cores, NEW STATE ps, ps \in SUBSET Pids,
           EraseByKey(c, ps), sendChLoadStatus(c, ps, "FAILED"),
           m_iHandleCount' = m_iHandleCount, verified' = verified, Queues'
    PROVE  Inv'
  <1>1. /\ descs' \in [Cores -> [Pids -> Handles \cup {None}]]
        /\ told' \in [Cores -> [Pids -> EMobiLoad \cup {"none"}]]
        /\ DOMAIN desc' \subseteq DOMAIN desc
        /\ \A h \in DOMAIN desc' : desc'[h] = desc[h]
        /\ Supervised' /\ ToldTheEnd'
    BY DropKeeps
  <1>2. TypeOK'
    BY <1>1 DEF Inv, TypeOK, Queues
  <1>3. AuthFirst' /\ PhaseOfCore'
    BY <1>1 DEF Inv, AuthFirst, PhaseOfCore
  <1> QED BY <1>1, <1>2, <1>3 DEF Inv, Queues

\* A load ends in failure: its DESC and its entry go together.
LEMMA NotifyFailedInv ==
    ASSUME Inv, NEW STATE h, h \in DOMAIN desc, NotifyFailed(h),
           UNCHANGED <<m_iHandleCount, gd, dg, verified>>
    PROVE  Inv'
  <1> DEFINE c == desc[h].core
             ps == MobiGetByHandleID(c, h)
  <1>1. c \in Cores
    BY DEF Inv, TypeOK, Desc
  <1>2. ps \in SUBSET Pids
    BY DEF MobiGetByHandleID
  <1>3. EraseByKey(c, ps) /\ sendChLoadStatus(c, ps, "FAILED")
    BY DEF NotifyFailed
  <1>4. Queues'
    BY QueuesKept
  <1> HIDE DEF ps, c
  <1> QED BY <1>1, <1>2, <1>3, <1>4, DropInv

\* A DESC changes its phase on the same side of the hand-over.
Early == {"AUTH", "AUTH_LOGIN", "SENT"}
Relabel(h, d) ==
    /\ descs' = descs /\ m_iHandleCount' = m_iHandleCount
    /\ desc' = [desc EXCEPT ![h] = d]
    /\ d \in Desc /\ d.core = desc[h].core /\ d.key = desc[h].key
    /\ d.phase \in Early <=> desc[h].phase \in Early

\* Whatever the step tells the bridge and sends, if those parts of Inv hold after it.
LEMMA RelabelInv ==
    ASSUME Inv, NEW STATE h, h \in DOMAIN desc, NEW STATE d, Relabel(h, d),
           verified \subseteq verified', Queues',
           told' \in [Cores -> [Pids -> EMobiLoad \cup {"none"}]], ToldTheEnd'
    PROVE  Inv'
  <1>1. DOMAIN desc' = DOMAIN desc /\ desc'[h] = d
    BY DEF Relabel
  <1>2. \A k \in DOMAIN desc : k # h => desc'[k] = desc[k]
    BY DEF Relabel
  <1>3. TypeOK'
    BY <1>1, <1>2 DEF Inv, TypeOK, Queues, Relabel
  <1>4. \A k \in DOMAIN desc : /\ desc'[k].core = desc[k].core
                               /\ desc'[k].key = desc[k].key
                               /\ desc'[k].phase \in Early <=> desc[k].phase \in Early
    BY <1>1, <1>2 DEF Relabel
  <1>5. Supervised'
    BY <1>1, <1>4 DEF Inv, Supervised, MobiGetByHandleID, Relabel
  <1>6. AuthFirst' /\ PhaseOfCore'
    BY <1>1, <1>4 DEF Inv, AuthFirst, PhaseOfCore, Early
  <1> QED BY <1>3, <1>5, <1>6 DEF Inv, Queues

\* A core hands a checked login on.
LEMMA QueuesSent ==
    ASSUME Inv, NEW c \in Cores, NEW STATE msg, msg \in GDMessage, msg.key \in verified',
           gd' = [gd EXCEPT ![c] = Append(@, msg)], dg' = dg,
           verified \subseteq verified', verified' \subseteq Handles
    PROVE  Queues'
  <1>1. /\ gd \in [Cores -> Seq(GDMessage)] /\ gd[c] \in Seq(GDMessage)
        /\ dg \in [Cores -> Seq(DGMessage)]
    BY DEF Inv, TypeOK
  <1>2. gd' \in [Cores -> Seq(GDMessage)]
    BY <1>1
  <1>3. \A k \in Cores : \A i \in 1..Len(gd'[k]) : gd'[k][i].key \in verified'
    <2> SUFFICES ASSUME NEW k \in Cores, NEW i \in 1..Len(gd'[k])
                 PROVE  gd'[k][i].key \in verified'
      OBVIOUS
    <2>1. CASE k = c
      <3>1. gd'[k] = Append(gd[c], msg)
        BY <1>1, <2>1
      <3>2. /\ Len(gd[c]) \in Nat /\ Len(gd'[k]) = Len(gd[c]) + 1
            /\ gd'[k][Len(gd[c]) + 1] = msg
            /\ \A j \in 1..Len(gd[c]) : gd'[k][j] = gd[c][j]
        BY <1>1, <3>1
      <3>3. i = Len(gd[c]) + 1 \/ i \in 1..Len(gd[c])
        BY <3>2
      <3>4. CASE i = Len(gd[c]) + 1
        BY <3>2, <3>4
      <3>5. CASE i \in 1..Len(gd[c])
        BY <3>2, <3>5 DEF Inv, KeysVerified
      <3> QED BY <3>3, <3>4, <3>5
    <2>2. CASE k # c
      <3>1. gd'[k] = gd[k]
        BY <1>1, <2>2
      <3> QED BY <3>1 DEF Inv, KeysVerified
    <2> QED BY <2>1, <2>2
  <1>4. \A k \in Cores : \A i \in 1..Len(dg'[k]) : dg'[k][i].key \in verified'
    BY DEF Inv, KeysVerified
  <1> QED BY <1>1, <1>2, <1>3, <1>4 DEF Queues, KeysVerified

\* The character's old DESC and some others go.  What is left:
Left(d, c, p) ==
    /\ DOMAIN d \subseteq DOMAIN desc
    /\ \A h \in DOMAIN d : d[h] = desc[h] /\ (d[h].core = c => descs[c][p] # h)

\* A new DESC takes the place of the character's old one.
LEMMA CreateInv ==
    ASSUME Inv, NEW c \in Cores, NEW STATE p, p \in Pids, NEW STATE left, Left(left, c, p),
           NEW STATE key, key \in Handles, NEW phase \in Phases, CreateDesc,
           desc' = NewDesc(left, c, key, phase),
           descs' = [descs EXCEPT ![c][p] = m_iHandleCount'],
           told' = told, verified' = verified, Queues',
           IF phase \in {"AUTH", "AUTH_LOGIN", "SENT"} THEN c = Auth
           ELSE c \in GameCores /\ key \in verified
    PROVE  Inv'
  <1> DEFINE n == m_iHandleCount + 1
             new == [core |-> c, key |-> key, phase |-> phase, idle |-> FALSE]
  <1>1. /\ TypeOK /\ n \in Handles /\ n # None /\ m_iHandleCount' = n
        /\ m_iHandleCount' \in 0..MaxDescs /\ n \notin DOMAIN desc
        /\ 1..m_iHandleCount \subseteq 1..n /\ n \in 1..n
    BY CoresAssumption DEF Inv, TypeOK, CreateDesc, Handles, None
  <1>2. /\ DOMAIN desc' = DOMAIN left \cup {n}
        /\ desc'[n] = new
        /\ \A h \in DOMAIN left : h # n /\ h \in DOMAIN desc /\ desc'[h] = desc[h]
    BY <1>1 DEF NewDesc, Left
  <1>3. new \in Desc /\ new.core = c /\ new.key = key /\ new.phase = phase
    BY DEF Desc
  <1> HIDE DEF new, n
  <1>4. /\ descs' \in [Cores -> [Pids -> Handles \cup {None}]]
        /\ \A k \in Cores, q \in Pids :
              descs'[k][q] = IF k = c /\ q = p THEN n ELSE descs[k][q]
    BY <1>1 DEF TypeOK
  <1>5. TypeOK'
    <2>1. DOMAIN desc' \subseteq 1..m_iHandleCount'
      BY <1>1, <1>2 DEF TypeOK
    <2>2. \A h \in DOMAIN desc' : desc'[h] \in Desc
      BY <1>1, <1>2, <1>3 DEF TypeOK
    <2> QED BY <1>1, <1>4, <2>1, <2>2 DEF TypeOK, Queues
  <1>6. Supervised'
    <2> SUFFICES ASSUME NEW h \in DOMAIN desc'
                 PROVE  \E q \in Pids : descs'[desc'[h].core][q] = h
      BY DEF Supervised, MobiGetByHandleID
    <2>1. CASE h = n
      BY <1>2, <1>3, <1>4, <2>1
    <2>2. CASE h \in DOMAIN left
      <3>1. h \in DOMAIN desc /\ desc'[h] = desc[h] /\ desc[h].core \in Cores
        BY <1>1, <1>2, <2>2 DEF TypeOK, Desc
      <3>2. PICK q \in Pids : descs[desc[h].core][q] = h
        BY <3>1 DEF Inv, Supervised, MobiGetByHandleID
      <3>3. ~(desc[h].core = c /\ q = p)
        BY <2>2, <3>2 DEF Left
      <3>4. descs'[desc'[h].core][q] = h
        BY <1>4, <3>1, <3>2, <3>3
      <3> QED BY <3>4
    <2> QED BY <1>2, <2>1, <2>2
  <1>7. ToldTheEnd'
    BY <1>1, <1>4 DEF Inv, ToldTheEnd
  <1>8. AuthFirst' /\ PhaseOfCore'
    <2>1. AuthFirst'
      BY <1>2, <1>3, CoresAssumption DEF Inv, AuthFirst
    <2>2. PhaseOfCore'
      BY <1>2, <1>3 DEF Inv, PhaseOfCore
    <2> QED BY <2>1, <2>2
  <1> QED BY <1>5, <1>6, <1>7, <1>8 DEF Inv, Queues

\* The login is refused at once: the new DESC, and the character's old one, go.
LEMMA RefuseInv ==
    ASSUME Inv, NEW c \in Cores, NEW STATE p, p \in Pids, Left(desc', c, p), CreateDesc,
           descs' = [descs EXCEPT ![c][p] = None],
           sendChLoadStatus(c, {p}, "FAILED"), verified' = verified, Queues'
    PROVE  Inv'
  <1>1. /\ TypeOK /\ m_iHandleCount' \in 0..MaxDescs
        /\ 1..m_iHandleCount \subseteq 1..m_iHandleCount'
    BY CoresAssumption DEF Inv, TypeOK, CreateDesc
  <1>2. /\ descs' \in [Cores -> [Pids -> Handles \cup {None}]]
        /\ \A k \in Cores, q \in Pids :
              descs'[k][q] = IF k = c /\ q = p THEN None ELSE descs[k][q]
    BY <1>1 DEF TypeOK
  <1>3. /\ told' \in [Cores -> [Pids -> EMobiLoad \cup {"none"}]]
        /\ \A k \in Cores, q \in Pids :
              told'[k][q] = IF k = c /\ q \in {p} THEN "FAILED" ELSE told[k][q]
    BY <1>1, StatusFacts DEF EMobiLoad
  <1>4. DOMAIN desc' \subseteq DOMAIN desc /\ \A h \in DOMAIN desc' : desc'[h] = desc[h]
    BY DEF Left
  <1>5. TypeOK'
    BY <1>1, <1>2, <1>3, <1>4 DEF TypeOK, Queues
  <1>6. Supervised'
    <2> SUFFICES ASSUME NEW h \in DOMAIN desc'
                 PROVE  \E q \in Pids : descs'[desc'[h].core][q] = h
      BY DEF Supervised, MobiGetByHandleID
    <2>1. h \in DOMAIN desc /\ desc'[h] = desc[h] /\ desc[h].core \in Cores
      BY <1>1, <1>4 DEF TypeOK, Desc
    <2>2. PICK q \in Pids : descs[desc[h].core][q] = h
      BY <2>1 DEF Inv, Supervised, MobiGetByHandleID
    <2>3. ~(desc[h].core = c /\ q = p)
      BY <2>1, <2>2 DEF Left
    <2>4. descs'[desc'[h].core][q] = h
      BY <1>2, <2>1, <2>2, <2>3
    <2> QED BY <2>4
  <1>7. ToldTheEnd'
    BY <1>2, <1>3 DEF Inv, ToldTheEnd
  <1>8. AuthFirst' /\ PhaseOfCore'
    BY <1>4 DEF Inv, AuthFirst, PhaseOfCore
  <1> QED BY <1>5, <1>6, <1>7, <1>8 DEF Inv, Queues

-----------------------------------------------------------------------------
(***************************************************************************)
(* One lemma for each action.                                              *)
(***************************************************************************)
\* The bridge asks for a character.
LEMMA CharacterLoadInv ==
    ASSUME Inv, NEW p \in Pids, CharacterLoad(p)
    PROVE  Inv'
  <1>1. Queues' /\ verified' = verified /\ Auth \in Cores /\ TypeOK
    BY QueuesKept DEF CharacterLoad, Cores, Inv
  <1>2. \A h \in DOMAIN desc : h # None /\ h \in Handles
    BY <1>1, CoresAssumption DEF TypeOK, None, Handles
  <1>3. descs[Auth][p] = None
    BY DEF CharacterLoad
  <1>4. CASE \E code \in {"SUCCESS", "FAILED"} :
                sendChLoadStatus(Auth, {p}, code) /\ UNCHANGED <<descs, desc, m_iHandleCount>>
    <2>1. PICK code \in {"SUCCESS", "FAILED"} : sendChLoadStatus(Auth, {p}, code)
      BY <1>4
    <2>2. /\ told' \in [Cores -> [Pids -> EMobiLoad \cup {"none"}]]
          /\ \A k \in Cores, q \in Pids :
                told'[k][q] = IF k = Auth /\ q \in {p} THEN code ELSE told[k][q]
      BY <1>1, <2>1, StatusFacts DEF EMobiLoad
    <2>3. ToldTheEnd'
      BY <1>4, <2>2 DEF Inv, ToldTheEnd
    <2>4. TypeOK'
      BY <1>1, <1>4, <2>2 DEF TypeOK, Queues
    <2>5. Supervised' /\ AuthFirst' /\ PhaseOfCore'
      BY <1>1, <1>4 DEF Inv, Supervised, AuthFirst, PhaseOfCore, MobiGetByHandleID
    <2> QED BY <1>1, <2>3, <2>4, <2>5 DEF Inv, Queues
  <1>5. CASE CreateDesc /\ AuthLogin(p)
    <2>1. CASE /\ descs' = [descs EXCEPT ![Auth][p] = m_iHandleCount']
               /\ desc' = NewDesc(desc, Auth, m_iHandleCount', "AUTH")
               /\ UNCHANGED told
      <3> DEFINE key == m_iHandleCount + 1
      <3>1. Left(desc, Auth, p)
        BY <1>2, <1>3 DEF Left
      <3>2. key \in Handles /\ m_iHandleCount' = key
        BY <1>1, <1>5, CoresAssumption DEF TypeOK, CreateDesc, Handles
      <3>3. desc' = NewDesc(desc, Auth, key, "AUTH")
        BY <2>1, <3>2
      <3>4. "AUTH" \in Phases
        BY DEF Phases
      <3> HIDE DEF key
      <3> QED BY <1>1, <1>5, <2>1, <3>1, <3>2, <3>3, <3>4, CreateInv
    <2>2. CASE sendChLoadStatus(Auth, {p}, "FAILED") /\ UNCHANGED <<descs, desc>>
      <3>1. descs' = [descs EXCEPT ![Auth][p] = None]
        BY <1>1, <1>3, <2>2 DEF TypeOK
      <3>2. Left(desc', Auth, p)
        BY <1>2, <1>3, <2>2 DEF Left
      <3> QED BY <1>1, <1>5, <2>2, <3>1, <3>2, RefuseInv
    <2> QED BY <1>5, <2>1, <2>2 DEF AuthLogin
  <1> QED BY <1>4, <1>5 DEF CharacterLoad

\* Steps of one DESC that tell the bridge nothing.
LEMMA PhaseInv ==
    ASSUME Inv, NEW STATE h, h \in DOMAIN desc, NEW STATE d, Relabel(h, d),
           UNCHANGED <<gd, dg, told, verified>>
    PROVE  Inv'
  <1>1. Queues'
    BY QueuesKept
  <1>2. told' \in [Cores -> [Pids -> EMobiLoad \cup {"none"}]] /\ ToldTheEnd'
    BY DEF Inv, TypeOK, ToldTheEnd, Relabel
  <1> QED BY <1>1, <1>2, RelabelInv

\* The account was looked up.
LEMMA AnalyzeReturnQueryInv ==
    ASSUME Inv, NEW STATE h, h \in DOMAIN desc, AnalyzeReturnQuery(h)
    PROVE  Inv'
  <1>1. CASE NotifyFailed(h)
    BY <1>1, NotifyFailedInv DEF AnalyzeReturnQuery
  <1>2. CASE /\ desc' = [desc EXCEPT ![h].phase = "AUTH_LOGIN"]
             /\ UNCHANGED <<descs, told>>
    <2> DEFINE d == [desc[h] EXCEPT !.phase = "AUTH_LOGIN"]
    <2>1. desc[h] \in Desc /\ desc[h].phase = "AUTH"
      BY DEF Inv, TypeOK, AnalyzeReturnQuery
    <2>2. Relabel(h, d)
      BY <1>2, <2>1 DEF Relabel, Desc, Phases, Early, AnalyzeReturnQuery
    <2> HIDE DEF d
    <2> QED BY <1>2, <2>2, PhaseInv DEF AnalyzeReturnQuery
  <1> QED BY <1>1, <1>2 DEF AnalyzeReturnQuery

\* The login by key was answered.
LEMMA LoginSuccessInv ==
    ASSUME Inv, NEW STATE h, h \in DOMAIN desc, LoginSuccess(h)
    PROVE  Inv'
  <1>0. desc[h] \in Desc /\ desc[h].phase = "LOGIN"
    BY DEF Inv, TypeOK, LoginSuccess
  <1>1. CASE NotifyFailed(h)
    BY <1>1, NotifyFailedInv DEF LoginSuccess
  <1>2. CASE SetPhase(h, "SELECT") /\ UNCHANGED <<descs, told>>
    <2> DEFINE d == [desc[h] EXCEPT !.phase = "SELECT", !.idle = FALSE]
    <2>1. Relabel(h, d)
      BY <1>0, <1>2 DEF Relabel, Desc, Phases, Early, LoginSuccess, SetPhase
    <2> HIDE DEF d
    <2> QED BY <1>2, <2>1, PhaseInv DEF LoginSuccess
  <1>3. CASE desc' = [desc EXCEPT ![h].phase = "STUCK"] /\ UNCHANGED <<descs, told>>
    <2> DEFINE d == [desc[h] EXCEPT !.phase = "STUCK"]
    <2>1. Relabel(h, d)
      BY <1>0, <1>3 DEF Relabel, Desc, Phases, Early, LoginSuccess
    <2> HIDE DEF d
    <2> QED BY <1>3, <2>1, PhaseInv DEF LoginSuccess
  <1> QED BY <1>1, <1>2, <1>3 DEF LoginSuccess, CharacterSelect,
                                      InputCharacterSelect

\* A shop request keeps the DESC alive.
LEMMA HandleOffshopInv ==
    ASSUME Inv, NEW STATE h, h \in DOMAIN desc, HandleOffshop(h)
    PROVE  Inv'
  <1> DEFINE d == [desc[h] EXCEPT !.idle = FALSE]
  <1>1. desc[h] \in Desc
    BY DEF Inv, TypeOK
  <1>2. Relabel(h, d)
    BY <1>1 DEF Relabel, Desc, HandleOffshop
  <1> HIDE DEF d
  <1> QED BY <1>2, PhaseInv DEF HandleOffshop

\* The activity timeout passes.
LEMMA IdleInv ==
    ASSUME Inv, NEW STATE h, h \in DOMAIN desc, Idle(h)
    PROVE  Inv'
  <1> DEFINE d == [desc[h] EXCEPT !.idle = TRUE]
  <1>1. desc[h] \in Desc
    BY DEF Inv, TypeOK
  <1>2. Relabel(h, d)
    BY <1>1 DEF Relabel, Desc, Idle
  <1> HIDE DEF d
  <1> QED BY <1>2, PhaseInv DEF Idle

\* The DESC goes and its entry stays, which Supervised allows.
LEMMA DisconnectInv ==
    ASSUME Inv, NEW STATE h, h \in DOMAIN desc, Disconnect(h)
    PROVE  Inv'
  <1>1. Queues'
    BY QueuesKept DEF Disconnect
  <1>2. DOMAIN desc' \subseteq DOMAIN desc /\ \A k \in DOMAIN desc' : desc'[k] = desc[k]
    BY DEF Disconnect, Without
  <1>3. UNCHANGED <<descs, m_iHandleCount, told, verified>>
    BY DEF Disconnect
  <1>4. TypeOK'
    BY <1>1, <1>2, <1>3 DEF Inv, TypeOK, Queues
  <1>5. Supervised' /\ AuthFirst' /\ PhaseOfCore'
    BY <1>2, <1>3 DEF Inv, Supervised, AuthFirst, PhaseOfCore, MobiGetByHandleID
  <1>6. ToldTheEnd'
    BY <1>3 DEF Inv, ToldTheEnd
  <1> QED BY <1>1, <1>4, <1>5, <1>6 DEF Inv, Queues

\* The login was registered: its key joins verified as it is handed on.
LEMMA HandleLoginResultInv ==
    ASSUME Inv, NEW STATE h, h \in DOMAIN desc, HandleLoginResult(h)
    PROVE  Inv'
  <1>1. /\ TypeOK /\ desc[h] \in Desc /\ desc[h].phase = "AUTH_LOGIN"
        /\ UNCHANGED <<m_iHandleCount, dg>>
    BY DEF Inv, TypeOK, HandleLoginResult
  <1>2. CASE SendMobiLogin(h) /\ verified' = verified \cup {desc[h].key}
    <2> DEFINE d == [desc[h] EXCEPT !.phase = "SENT"]
               ps == MobiGetByHandleID(Auth, h)
    <2>1. Auth \in Cores /\ ps \in SUBSET Pids /\ h # None
      BY <1>1, CoresAssumption DEF Cores, MobiGetByHandleID, TypeOK, None
    <2>2. Relabel(h, d)
      BY <1>1, <1>2 DEF Relabel, Desc, Phases, Early, SendMobiLogin
    <2>3. PICK p \in ps :
              gd' = [gd EXCEPT ![Auth] =
                        Append(@, [pid |-> p, key |-> desc[h].key, targets |-> GetMostAvailCore])]
      BY <1>2 DEF SendMobiLogin
    <2> DEFINE msg == [pid |-> p, key |-> desc[h].key, targets |-> GetMostAvailCore]
    <2>4. msg \in GDMessage /\ msg.key \in verified'
      BY <1>1, <1>2, <2>1 DEF GDMessage, Desc, GetMostAvailCore
    <2>5. verified \subseteq verified' /\ verified' \subseteq Handles
      BY <1>1, <1>2 DEF TypeOK, Desc
    <2>6. Queues'
      <3>1. gd' = [gd EXCEPT ![Auth] = Append(@, msg)]
        BY <2>3
      <3> HIDE DEF msg
      <3> QED BY <1>1, <2>1, <2>4, <2>5, <3>1, QueuesSent
    <2>7. sendChLoadStatus(Auth, ps, "LOADING") /\ \A q \in ps : descs[Auth][q] = h
      BY <1>2 DEF SendMobiLogin, MobiGetByHandleID
    <2> HIDE DEF ps, d, msg
    <2>8. /\ told' \in [Cores -> [Pids -> EMobiLoad \cup {"none"}]]
          /\ \A k \in Cores, q \in Pids :
                told'[k][q] = IF k = Auth /\ q \in ps THEN "LOADING" ELSE told[k][q]
      BY <1>1, <2>1, <2>7, StatusFacts DEF EMobiLoad
    <2>9. ToldTheEnd'
      BY <2>1, <2>2, <2>7, <2>8 DEF Inv, ToldTheEnd, Relabel
    <2> QED BY <2>2, <2>5, <2>6, <2>8, <2>9, RelabelInv
  <1>3. CASE NotifyFailed(h) /\ UNCHANGED <<gd, verified>>
    BY <1>1, <1>3, NotifyFailedInv
  <1> QED BY <1>2, <1>3 DEF HandleLoginResult

\* The character enters the game, and perhaps warps with a key that was checked before.
LEMMA PlayerLoadInv ==
    ASSUME Inv, NEW STATE h, h \in DOMAIN desc, PlayerLoad(h)
    PROVE  Inv'
  <1>1. /\ TypeOK /\ desc[h] \in Desc /\ desc[h].phase = "SELECT"
        /\ UNCHANGED <<m_iHandleCount, dg, verified>>
    BY DEF Inv, TypeOK, PlayerLoad
  <1>2. CASE NotifyFailed(h) /\ UNCHANGED gd
    BY <1>1, <1>2, NotifyFailedInv
  <1>3. CASE Entergame(h)
    <2> DEFINE d == [desc[h] EXCEPT !.phase = "GAME", !.idle = FALSE]
               c == desc[h].core
               ps == MobiGetByHandleID(c, h)
    <2>1. c \in Cores /\ ps \in SUBSET Pids /\ h # None
      BY <1>1, CoresAssumption DEF Desc, MobiGetByHandleID, TypeOK, None
    <2>2. Relabel(h, d)
      BY <1>1, <1>3 DEF Relabel, Desc, Phases, Early, Entergame, SetPhase
    <2>3. desc[h].key \in verified
      BY <1>1 DEF Inv, PhaseOfCore, AuthFirst
    <2>4. Queues'
      <3>1. CASE UNCHANGED gd
        BY <1>1, <3>1, QueuesKept
      <3>2. CASE \E target \in GameCores : SendMobiWarp(h, target)
        <4>1. PICK target \in GameCores : SendMobiWarp(h, target)
          BY <3>2
        <4>2. PICK p \in ps :
                  gd' = [gd EXCEPT ![c] =
                            Append(@, [pid |-> p, key |-> desc[h].key, targets |-> {target}])]
          BY <4>1 DEF SendMobiWarp
        <4> DEFINE msg == [pid |-> p, key |-> desc[h].key, targets |-> {target}]
        <4>3. msg \in GDMessage /\ msg.key \in verified'
          BY <1>1, <2>1, <2>3 DEF GDMessage, Desc
        <4>4. gd' = [gd EXCEPT ![c] = Append(@, msg)]
          BY <4>2
        <4>5. verified \subseteq verified' /\ verified' \subseteq Handles
          BY <1>1 DEF TypeOK
        <4> HIDE DEF msg, c
        <4> QED BY <1>1, <2>1, <4>3, <4>4, <4>5, QueuesSent
      <3> QED BY <1>3, <3>1, <3>2 DEF Entergame, GoToSafePosition
    <2>5. sendChLoadStatus(c, ps, "SUCCESS") /\ \A q \in ps : descs[c][q] = h
      BY <1>3 DEF Entergame, MobiGetByHandleID
    <2> HIDE DEF ps, d, c
    <2>6. /\ told' \in [Cores -> [Pids -> EMobiLoad \cup {"none"}]]
          /\ \A k \in Cores, q \in Pids :
                told'[k][q] = IF k = c /\ q \in ps THEN "SUCCESS" ELSE told[k][q]
      BY <1>1, <2>1, <2>5, StatusFacts DEF EMobiLoad
    <2>7. ToldTheEnd'
      BY <2>1, <2>2, <2>5, <2>6 DEF Inv, ToldTheEnd, Relabel
    <2>8. verified \subseteq verified'
      BY <1>1
    <2> QED BY <2>2, <2>4, <2>6, <2>7, <2>8, RelabelInv
  <1> QED BY <1>2, <1>3 DEF PlayerLoad

\* Keys in a queue to which others are appended.
LEMMA KeysOfConcat ==
    ASSUME NEW STATE S, NEW STATE a, NEW STATE b, NEW STATE c,
           a \in Seq(DGMessage), \A i \in 1..Len(a) : a[i].key \in S,
           b \in Seq(DGMessage), \A i \in 1..Len(b) : b[i].key \in S,
           c \in Seq(DGMessage), \A i \in 1..Len(c) : c[i].key \in S
    PROVE  /\ (a \o b) \o c \in Seq(DGMessage)
           /\ \A i \in 1..Len((a \o b) \o c) : ((a \o b) \o c)[i].key \in S
  <1>1. /\ a \o b \in Seq(DGMessage)
        /\ \A i \in 1..Len(a \o b) : (a \o b)[i].key \in S
    BY ConcatProperties
  <1> DEFINE ab == a \o b
  <1>2. ab \in Seq(DGMessage) /\ \A i \in 1..Len(ab) : ab[i].key \in S
    BY <1>1
  <1> HIDE DEF ab
  <1>3. ab \o c \in Seq(DGMessage) /\ \A i \in 1..Len(ab \o c) : (ab \o c)[i].key \in S
    BY <1>2, ConcatProperties
  <1> QED BY <1>3 DEF ab

\* The db server passes a key from one core to two.
LEMMA MobiLoginInv ==
    ASSUME Inv, NEW c \in Cores, MobiLogin(c)
    PROVE  Inv'
  <1> DEFINE m == Head(gd[c])
             logout == [header |-> "LOGOUT", pid |-> m.pid, key |-> m.key]
             login == [header |-> "LOGIN", pid |-> m.pid, key |-> m.key]
  <1>1. /\ TypeOK /\ UNCHANGED <<descs, desc, m_iHandleCount, told, verified>>
        /\ gd[c] # <<>> /\ gd' = [gd EXCEPT ![c] = Tail(@)]
    BY DEF Inv, MobiLogin
  <1>2. /\ gd \in [Cores -> Seq(GDMessage)] /\ gd[c] \in Seq(GDMessage)
        /\ dg \in [Cores -> Seq(DGMessage)]
    BY <1>1 DEF TypeOK
  <1>3. \A k \in Cores : \A i \in 1..Len(gd[k]) : gd[k][i].key \in verified
    BY DEF Inv, KeysVerified
  <1>4. /\ m \in GDMessage /\ m.key \in verified
        /\ Tail(gd[c]) \in Seq(GDMessage)
        /\ \A i \in 1..Len(Tail(gd[c])) : Tail(gd[c])[i].key \in verified
    BY <1>1, <1>2, <1>3, KeysOfTail
  <1>6. /\ gd' \in [Cores -> Seq(GDMessage)]
        /\ \A k \in Cores : gd'[k] = IF k = c THEN Tail(gd[c]) ELSE gd[k]
    BY <1>1, <1>2, <1>4
  <1>7. \A k \in Cores : \A i \in 1..Len(gd'[k]) : gd'[k][i].key \in verified
    BY <1>3, <1>4, <1>6
  <1>8. /\ dg' \in [Cores -> Seq(DGMessage)]
        /\ \A k \in Cores : \A i \in 1..Len(dg'[k]) : dg'[k][i].key \in verified
    <2>1. CASE UNCHANGED dg
      BY <1>2, <2>1 DEF Inv, KeysVerified
    <2>2. CASE \E target \in m.targets :
                  dg' = [k \in Cores |->
                           dg[k] \o (IF k = c THEN <<logout>> ELSE <<>>)
                                 \o (IF k = target THEN <<login>> ELSE <<>>)]
      <3>1. PICK target \in m.targets :
                dg' = [k \in Cores |->
                         dg[k] \o (IF k = c THEN <<logout>> ELSE <<>>)
                               \o (IF k = target THEN <<login>> ELSE <<>>)]
        BY <2>2
      <3>2. logout \in DGMessage /\ login \in DGMessage /\ logout.key = m.key /\ login.key = m.key
        BY <1>4 DEF GDMessage, DGMessage
      <3> HIDE DEF logout, login, m
      <3> SUFFICES ASSUME NEW k \in Cores
                   PROVE  /\ dg'[k] \in Seq(DGMessage)
                          /\ \A i \in 1..Len(dg'[k]) : dg'[k][i].key \in verified
        BY <3>1
      <3> DEFINE A == IF k = c THEN <<logout>> ELSE <<>>
                 B == IF k = target THEN <<login>> ELSE <<>>
      <3>3. /\ A \in Seq(DGMessage)
            /\ \A i \in 1..Len(A) : A[i].key \in verified
        BY <1>4, <3>2
      <3>4. /\ B \in Seq(DGMessage)
            /\ \A i \in 1..Len(B) : B[i].key \in verified
        BY <1>4, <3>2
      <3>5. /\ dg[k] \in Seq(DGMessage)
            /\ \A i \in 1..Len(dg[k]) : dg[k][i].key \in verified
        BY <1>2 DEF Inv, KeysVerified
      <3>6. dg'[k] = (dg[k] \o A) \o B
        BY <3>1
      <3> HIDE DEF A, B
      <3> QED BY <3>3, <3>4, <3>5, <3>6, KeysOfConcat
    <2> QED BY <2>1, <2>2 DEF MobiLogin
  <1>9. TypeOK'
    BY <1>1, <1>6, <1>8 DEF TypeOK
  <1>10. KeysVerified'
    BY <1>1, <1>7, <1>8 DEF KeysVerified
  <1>11. Supervised' /\ ToldTheEnd' /\ AuthFirst' /\ PhaseOfCore'
    BY <1>1 DEF Inv, Supervised, ToldTheEnd, AuthFirst, PhaseOfCore, MobiGetByHandleID
  <1> QED BY <1>9, <1>10, <1>11 DEF Inv

\* The character is dropped on the order of the db server.
LEMMA HandleLogoutInv ==
    ASSUME Inv, NEW c \in Cores, HandleLogout(c)
    PROVE  Inv'
  <1> DEFINE ps == {p \in {Head(dg[c]).pid} : descs[c][p] # None}
  <1>1. Queues' /\ Head(dg[c]) \in DGMessage
    BY QueuesTaken DEF HandleLogout
  <1>2. ps \in SUBSET Pids
    BY <1>1 DEF DGMessage
  <1>3. /\ EraseByKey(c, ps) /\ sendChLoadStatus(c, ps, "FAILED")
        /\ m_iHandleCount' = m_iHandleCount /\ verified' = verified
    BY DEF HandleLogout
  <1> HIDE DEF ps
  <1> QED BY <1>1, <1>2, <1>3, DropInv

\* The clean-up drops characters and says so.
LEMMA ProcessInv ==
    ASSUME Inv, NEW c \in Cores, Process(c)
    PROVE  Inv'
  <1>1. Inactive(c) \in SUBSET Pids
    BY DEF Inactive
  <1>2. Queues'
    BY QueuesKept DEF Process
  <1> QED BY <1>1, <1>2, DropInv DEF Process

\* The login by key starts: the old entry gives way to the new one.
LEMMA SendLoginRequestInv ==
    ASSUME Inv, NEW c \in GameCores, SendLoginRequest(c)
    PROVE  Inv'
  <1> DEFINE m == Head(dg[c])
             sameKey == {h \in DOMAIN desc : desc[h].core = c /\ desc[h].key = m.key}
             left == Without(desc, {descs[c][m.pid]} \cup sameKey)
  <1>1. c \in Cores /\ CreateDesc /\ LoginByKey(c, m, left) /\ verified' = verified
    BY DEF SendLoginRequest, Cores
  <1>2. Queues' /\ m \in DGMessage /\ m.key \in verified
    BY <1>1, QueuesTaken DEF SendLoginRequest
  <1>3. m.pid \in Pids /\ m.key \in Handles
    BY <1>2 DEF DGMessage
  <1>4. Left(left, c, m.pid)
    BY DEF Left, Without
  <1> HIDE DEF left, m
  <1>5. CASE /\ desc' = NewDesc(left, c, m.key, "LOGIN")
             /\ descs' = [descs EXCEPT ![c][m.pid] = m_iHandleCount']
             /\ UNCHANGED told
    <2>1. "LOGIN" \in Phases /\ "LOGIN" \notin {"AUTH", "AUTH_LOGIN", "SENT"}
      BY DEF Phases
    <2> QED BY <1>1, <1>2, <1>3, <1>4, <1>5, <2>1, CreateInv
  <1>6. CASE /\ desc' = left
             /\ descs' = [descs EXCEPT ![c][m.pid] = None]
             /\ sendChLoadStatus(c, {m.pid}, "FAILED")
    <2>1. Left(desc', c, m.pid)
      BY <1>4, <1>6
    <2> QED BY <1>1, <1>2, <1>3, <1>6, <2>1, RefuseInv
  <1> QED BY <1>1, <1>5, <1>6 DEF LoginByKey

-----------------------------------------------------------------------------
\* Every step preserves the invariant.
LEMMA StepKeeps == Inv /\ [Next]_vars => Inv'
  <1> SUFFICES ASSUME Inv, [Next]_vars PROVE Inv'
    OBVIOUS
  <1>1. CASE UNCHANGED vars
    <2>1. Queues'
      BY <1>1, QueuesKept DEF vars
    <2>2. UNCHANGED <<descs, desc, m_iHandleCount, told, verified>>
      BY <1>1 DEF vars
    <2>3. TypeOK'
      BY <2>1, <2>2 DEF Inv, TypeOK, Queues
    <2>4. Supervised' /\ ToldTheEnd' /\ AuthFirst' /\ PhaseOfCore'
      BY <2>2 DEF Inv, Supervised, ToldTheEnd, AuthFirst, PhaseOfCore, MobiGetByHandleID
    <2> QED BY <2>1, <2>3, <2>4 DEF Inv, Queues
  <1>2. CASE \E p \in Pids : CharacterLoad(p)
    BY <1>2, CharacterLoadInv
  <1>3. CASE \E h \in DOMAIN desc : AnalyzeReturnQuery(h) \/ HandleLoginResult(h)
    BY <1>3, AnalyzeReturnQueryInv, HandleLoginResultInv
  <1>4. CASE \E h \in DOMAIN desc : LoginSuccess(h) \/ PlayerLoad(h)
    BY <1>4, LoginSuccessInv, PlayerLoadInv
  <1>5. CASE \E h \in DOMAIN desc : Disconnect(h) \/ HandleOffshop(h) \/ Idle(h)
    BY <1>5, DisconnectInv, HandleOffshopInv, IdleInv
  <1>6. CASE \E c \in Cores : MobiLogin(c) \/ HandleLogout(c) \/ Process(c)
    BY <1>6, MobiLoginInv, HandleLogoutInv, ProcessInv
  <1>7. CASE \E c \in GameCores : SendLoginRequest(c)
    BY <1>7, SendLoginRequestInv
  <1> QED BY <1>1, <1>2, <1>3, <1>4, <1>5, <1>6, <1>7 DEF Next

\* The invariant holds in every reachable state.
LEMMA Invariance == Spec => []Inv
  BY InitInv, StepKeeps, PTL DEF Spec

\* DESCs, entries and messages have their types, and no DESC has a handle that was
\* not given out.
THEOREM TypeCorrect == Spec => []TypeOK
  <1>1. Inv => TypeOK
    BY DEF Inv
  <1> QED BY <1>1, Invariance, PTL

\* Every DESC without a socket is in descs_ of its core, where Process finds it.
THEOREM NoDescEscapes == Spec => []Supervised
  <1>1. Inv => Supervised
    BY DEF Inv
  <1> QED BY <1>1, Invariance, PTL

\* A core that told the bridge that a character is loading or loaded either has
\* the character still or has told the bridge that it is gone.
THEOREM BridgeLearnsTheEnd == Spec => []ToldTheEnd
  <1>1. Inv => ToldTheEnd
    BY DEF Inv
  <1> QED BY <1>1, Invariance, PTL

\* A mobile login in a game core has a key whose password the auth core checked.
THEOREM OnlyCheckedLogins == Spec => []AuthFirst
  <1>1. Inv => AuthFirst
    BY DEF Inv
  <1> QED BY <1>1, Invariance, PTL

-----------------------------------------------------------------------------
(***************************************************************************)
(* One load for each login key.  A load moves from the auth core's DESC to *)
(* a request, an order and a game core's DESC, and from there, if the      *)
(* character warps, to a request again: every step takes each load that it *)
(* leaves from one that was there, and no two from the same.               *)
(***************************************************************************)
Open == {"AUTH", "AUTH_LOGIN", "LOGIN", "SELECT"}

\* A new login's key is none of those that are on their way.
KeysGiven == \A x \in Loads : LoginKey(x) \in 1..m_iHandleCount

LoadInv == OneLoad /\ KeysGiven

\* Where loads are found, and under which key.
Slots ==
    /\ \A x \in Loads :
          /\ x = <<x[1], x[2], x[3]>> /\ x[1] \in {"DESC", "GD", "DG"}
          /\ x[1] = "DESC" =>
                /\ x[3] \in DOMAIN desc /\ desc[x[3]].phase \in Open
                /\ x[2] = desc[x[3]].core /\ LoginKey(x) = desc[x[3]].key
          /\ x[1] = "GD" =>
                /\ x[2] \in Cores /\ x[3] \in 1..Len(gd[x[2]])
                /\ LoginKey(x) = gd[x[2]][x[3]].key
          /\ x[1] = "DG" =>
                /\ x[2] \in Cores /\ x[3] \in 1..Len(dg[x[2]])
                /\ dg[x[2]][x[3]].header = "LOGIN" /\ LoginKey(x) = dg[x[2]][x[3]].key
    /\ \A h \in DOMAIN desc :
          desc[h].phase \in Open =>
              /\ <<"DESC", desc[h].core, h>> \in Loads
              /\ LoginKey(<<"DESC", desc[h].core, h>>) = desc[h].key
    /\ \A c \in Cores : \A i \in 1..Len(gd[c]) :
          <<"GD", c, i>> \in Loads /\ LoginKey(<<"GD", c, i>>) = gd[c][i].key
    /\ \A c \in Cores : \A i \in 1..Len(dg[c]) :
          dg[c][i].header = "LOGIN" =>
              <<"DG", c, i>> \in Loads /\ LoginKey(<<"DG", c, i>>) = dg[c][i].key

LEMMA LoadSlots == Slots
  <1>1. ASSUME NEW h \in DOMAIN desc, desc[h].phase \in Open
        PROVE  /\ <<"DESC", desc[h].core, h>> \in Loads
               /\ LoginKey(<<"DESC", desc[h].core, h>>) = desc[h].key
    BY <1>1 DEF Loads, LoginKey, Open
  <1> DEFINE D == {<<"DESC", desc[h].core, h>> : h \in {k \in DOMAIN desc : desc[k].phase \in Open}}
             G(c) == {<<"GD", c, i>> : i \in 1..Len(gd[c])}
             O(c) == {<<"DG", c, i>> : i \in {j \in 1..Len(dg[c]) : dg[c][j].header = "LOGIN"}}
             GU == UNION {G(c) : c \in Cores}
             OU == UNION {O(c) : c \in Cores}
  <1>a. Loads = D \cup GU \cup OU
    BY DEF Loads, Open
  <1>b. /\ \A c \in Cores : \A x : x \in G(c) <=> \E i \in 1..Len(gd[c]) : x = <<"GD", c, i>>
        /\ \A c \in Cores : \A x : x \in O(c) <=>
              \E i \in 1..Len(dg[c]) : dg[c][i].header = "LOGIN" /\ x = <<"DG", c, i>>
        /\ \A x : x \in D <=>
              \E h \in DOMAIN desc : desc[h].phase \in Open /\ x = <<"DESC", desc[h].core, h>>
    OBVIOUS
  <1> HIDE DEF D, G, O
  <1>c. \A x : x \in Loads <=> \/ x \in D
                               \/ \E c \in Cores : x \in G(c)
                               \/ \E c \in Cores : x \in O(c)
    <2>1. \A x : x \in GU <=> \E c \in Cores : x \in G(c)
      BY Zenon
    <2>2. \A x : x \in OU <=> \E c \in Cores : x \in O(c)
      BY Zenon
    <2> HIDE DEF GU, OU
    <2> QED BY <1>a, <2>1, <2>2, Zenon
  <1>2. ASSUME NEW c \in Cores, NEW i \in 1..Len(gd[c])
        PROVE  <<"GD", c, i>> \in Loads /\ LoginKey(<<"GD", c, i>>) = gd[c][i].key
    <2>1. <<"GD", c, i>> \in Loads
      BY <1>b, <1>c
    <2>2. LoginKey(<<"GD", c, i>>) = gd[c][i].key
      BY DEF LoginKey
    <2> QED BY <2>1, <2>2
  <1>3. ASSUME NEW c \in Cores, NEW i \in 1..Len(dg[c]), dg[c][i].header = "LOGIN"
        PROVE  <<"DG", c, i>> \in Loads /\ LoginKey(<<"DG", c, i>>) = dg[c][i].key
    <2>1. <<"DG", c, i>> \in Loads
      BY <1>3, <1>b, <1>c
    <2>2. LoginKey(<<"DG", c, i>>) = dg[c][i].key
      BY DEF LoginKey
    <2> QED BY <2>1, <2>2
  <1>4. ASSUME NEW x \in Loads
        PROVE  \/ \E h \in DOMAIN desc :
                      desc[h].phase \in Open /\ x = <<"DESC", desc[h].core, h>>
               \/ \E c \in Cores : \E i \in 1..Len(gd[c]) : x = <<"GD", c, i>>
               \/ \E c \in Cores : \E i \in 1..Len(dg[c]) :
                      dg[c][i].header = "LOGIN" /\ x = <<"DG", c, i>>
    BY <1>b, <1>c
  <1>5. ASSUME NEW x \in Loads
        PROVE  /\ x = <<x[1], x[2], x[3]>> /\ x[1] \in {"DESC", "GD", "DG"}
               /\ x[1] = "DESC" =>
                     /\ x[3] \in DOMAIN desc /\ desc[x[3]].phase \in Open
                     /\ x[2] = desc[x[3]].core /\ LoginKey(x) = desc[x[3]].key
               /\ x[1] = "GD" =>
                     /\ x[2] \in Cores /\ x[3] \in 1..Len(gd[x[2]])
                     /\ LoginKey(x) = gd[x[2]][x[3]].key
               /\ x[1] = "DG" =>
                     /\ x[2] \in Cores /\ x[3] \in 1..Len(dg[x[2]])
                     /\ dg[x[2]][x[3]].header = "LOGIN" /\ LoginKey(x) = dg[x[2]][x[3]].key
    <2>1. CASE \E h \in DOMAIN desc : desc[h].phase \in Open /\ x = <<"DESC", desc[h].core, h>>
      BY <1>1, <2>1
    <2>2. CASE \E c \in Cores : \E i \in 1..Len(gd[c]) : x = <<"GD", c, i>>
      BY <1>2, <2>2
    <2>3. CASE \E c \in Cores : \E i \in 1..Len(dg[c]) :
                   dg[c][i].header = "LOGIN" /\ x = <<"DG", c, i>>
      BY <1>3, <2>3
    <2> QED BY <1>4, <1>5, <2>1, <2>2, <2>3
  <1> QED BY <1>1, <1>2, <1>3, <1>5 DEF Slots

LEMMA SlotsNext == Slots'
  BY LoadSlots, PTL

\* Loads that come from loads that were there, no two from one.
LEMMA LoadsMoved ==
    ASSUME Inv, LoadInv, m_iHandleCount' \in {m_iHandleCount, m_iHandleCount + 1},
           NEW ACTION from,
           \A x \in Loads' : from[x] \in Loads /\ LoginKey(x)' = LoginKey(from[x]),
           \A x, y \in Loads' : from[x] = from[y] => x = y
    PROVE  LoadInv'
  <1>1. m_iHandleCount \in Nat
    BY CoresAssumption DEF Inv, TypeOK
  <1>2. OneLoad'
    BY DEF LoadInv, OneLoad
  <1>3. KeysGiven'
    BY <1>1 DEF LoadInv, KeysGiven
  <1> QED BY <1>2, <1>3 DEF LoadInv

\* The DESCs that are loading were loading before, except those in more.
Loading(more) ==
    \A h \in DOMAIN desc' \ more :
        desc'[h].phase \in Open =>
            /\ h \in DOMAIN desc /\ desc[h].phase \in Open
            /\ desc'[h].core = desc[h].core /\ desc'[h].key = desc[h].key

\* A DESC that is loading and was loading before.
LEMMA DescMoved ==
    ASSUME NEW STATE more, Loading(more),
           NEW x \in Loads', x[1] = "DESC", x[3] \notin more
    PROVE  x \in Loads /\ LoginKey(x)' = LoginKey(x)
  <1>1. Slots /\ Slots'
    BY LoadSlots, SlotsNext
  <1>2. /\ x = <<"DESC", x[2], x[3]>> /\ x[3] \in DOMAIN desc' /\ desc'[x[3]].phase \in Open
        /\ x[2] = desc'[x[3]].core /\ LoginKey(x)' = desc'[x[3]].key
    BY <1>1 DEF Slots
  <1>3. /\ x[3] \in DOMAIN desc /\ desc[x[3]].phase \in Open
        /\ x[2] = desc[x[3]].core /\ LoginKey(x)' = desc[x[3]].key
    BY <1>2 DEF Loading
  <1> QED BY <1>1, <1>2, <1>3 DEF Slots

\* Some DESCs go or move on.
LEMMA FewerLoads ==
    ASSUME Inv, LoadInv, Loading({}), UNCHANGED <<gd, dg>>,
           m_iHandleCount' \in {m_iHandleCount, m_iHandleCount + 1}
    PROVE  LoadInv'
  <1> DEFINE from == [x \in Loads' |-> x]
  <1>1. Slots /\ Slots'
    BY LoadSlots, SlotsNext
  <1>2. ASSUME NEW x \in Loads'
        PROVE  x \in Loads /\ LoginKey(x)' = LoginKey(x)
    <2>1. CASE x[1] = "DESC"
      BY <2>1, DescMoved
    <2>2. CASE x[1] = "GD"
      BY <1>1, <2>2 DEF Slots
    <2>3. CASE x[1] = "DG"
      BY <1>1, <2>3 DEF Slots
    <2> QED BY <1>1, <2>1, <2>2, <2>3 DEF Slots
  <1>3. \A x \in Loads' : from[x] = x
    OBVIOUS
  <1> HIDE DEF from
  <1> QED BY <1>2, <1>3, LoadsMoved

\* A DESC that is loading hands its key on: the new request takes the load over.
LEMMA SentLoads ==
    ASSUME Inv, LoadInv, Loading({}), NEW STATE h, h \in DOMAIN desc, desc[h].phase \in Open,
           h \in DOMAIN desc' => desc'[h].phase \notin Open,
           NEW c \in Cores, NEW STATE msg, msg \in GDMessage, msg.key = desc[h].key,
           gd' = [gd EXCEPT ![c] = Append(@, msg)], UNCHANGED <<dg, m_iHandleCount>>
    PROVE  LoadInv'
  <1> DEFINE old == <<"DESC", desc[h].core, h>>
             new == <<"GD", c, Len(gd[c]) + 1>>
             from == [x \in Loads' |-> IF x = new THEN old ELSE x]
  <1>1. Slots /\ Slots'
    BY LoadSlots, SlotsNext
  <1>2. old \in Loads /\ LoginKey(old) = desc[h].key
    BY <1>1 DEF Slots
  <1>3. old \notin Loads'
    BY <1>1 DEF Slots
  <1>4. /\ gd \in [Cores -> Seq(GDMessage)] /\ gd[c] \in Seq(GDMessage) /\ Len(gd[c]) \in Nat
        /\ \A k \in Cores : gd'[k] = IF k = c THEN Append(gd[c], msg) ELSE gd[k]
    BY DEF Inv, TypeOK
  <1>5. /\ Len(gd'[c]) = Len(gd[c]) + 1 /\ gd'[c][Len(gd[c]) + 1] = msg
        /\ \A i \in 1..Len(gd[c]) : gd'[c][i] = gd[c][i]
    BY <1>4
  <1>6. ASSUME NEW x \in Loads', x # new
        PROVE  x \in Loads /\ LoginKey(x)' = LoginKey(x)
    <2>1. CASE x[1] = "DESC"
      BY <2>1, DescMoved
    <2>2. CASE x[1] = "GD"
      <3>1. /\ x = <<"GD", x[2], x[3]>> /\ x[2] \in Cores /\ x[3] \in 1..Len(gd'[x[2]])
            /\ LoginKey(x)' = gd'[x[2]][x[3]].key
        BY <1>1, <2>2 DEF Slots
      <3>2. x[3] \in 1..Len(gd[x[2]]) /\ gd'[x[2]][x[3]] = gd[x[2]][x[3]]
        BY <1>4, <1>5, <1>6, <3>1
      <3> QED BY <1>1, <3>1, <3>2 DEF Slots
    <2>3. CASE x[1] = "DG"
      BY <1>1, <2>3 DEF Slots
    <2> QED BY <1>1, <2>1, <2>2, <2>3 DEF Slots
  <1>7. ASSUME NEW x \in Loads', x = new
        PROVE  LoginKey(x)' = LoginKey(old)
    BY <1>1, <1>2, <1>4, <1>5, <1>7 DEF Slots
  <1>8. \A x \in Loads' : from[x] = IF x = new THEN old ELSE x
    OBVIOUS
  <1> HIDE DEF from, old, new
  <1>9. \A x \in Loads' : from[x] \in Loads /\ LoginKey(x)' = LoginKey(from[x])
    BY <1>2, <1>6, <1>7, <1>8
  <1>10. \A x, y \in Loads' : from[x] = from[y] => x = y
    BY <1>3, <1>8
  <1> QED BY <1>9, <1>10, LoadsMoved

\* Taking the first of a queue moves the others up.
LEMMA TailFacts ==
    ASSUME NEW M, NEW STATE s, s \in Seq(M), s # <<>>
    PROVE  /\ Len(s) \in Nat /\ 1 \in 1..Len(s) /\ Head(s) = s[1]
           /\ \A i \in 1..Len(Tail(s)) :
                 i \in Nat /\ i >= 1 /\ i + 1 \in 1..Len(s) /\ Tail(s)[i] = s[i + 1]
  <1>1. Tail(s) \in Seq(M) /\ Len(Tail(s)) = Len(s) - 1
    BY HeadTailProperties
  <1>2. Len(s) \in Nat /\ Len(s) # 0 /\ Head(s) = s[1]
    BY EmptySeq
  <1> QED BY <1>1, <1>2

\* A core takes a message of the db server.  If it is an order, a new DESC may take the
\* load over; nothing else begins to load.
LEMMA TakenLoads ==
    ASSUME Inv, LoadInv, NEW c \in Cores, dg[c] # <<>>, dg' = [dg EXCEPT ![c] = Tail(@)],
           gd' = gd, m_iHandleCount' \in {m_iHandleCount, m_iHandleCount + 1},
           NEW STATE n, NEW STATE more, more \in {{}, {n}}, Loading(more),
           n \in more => /\ Head(dg[c]).header = "LOGIN"
                         /\ n \in DOMAIN desc' /\ desc'[n].key = Head(dg[c]).key
    PROVE  LoadInv'
  <1> DEFINE old == <<"DG", c, 1>>
             New(x) == x[1] = "DESC" /\ x[3] \in more
             Moved(x) == x[1] = "DG" /\ x[2] = c
             from == [x \in Loads' |-> IF New(x) THEN old
                                       ELSE IF Moved(x) THEN <<"DG", c, x[3] + 1>> ELSE x]
  <1>1. Slots /\ Slots'
    BY LoadSlots, SlotsNext
  <1>2. dg \in [Cores -> Seq(DGMessage)] /\ dg[c] \in Seq(DGMessage)
    BY DEF Inv, TypeOK
  <1>3. \A k \in Cores : dg'[k] = IF k = c THEN Tail(dg[c]) ELSE dg[k]
    BY <1>2
  <1>4. /\ Len(dg[c]) \in Nat /\ 1 \in 1..Len(dg[c]) /\ Head(dg[c]) = dg[c][1]
        /\ \A i \in 1..Len(dg'[c]) :
              i \in Nat /\ i >= 1 /\ i + 1 \in 1..Len(dg[c]) /\ dg'[c][i] = dg[c][i + 1]
    BY <1>2, <1>3, TailFacts
  <1>5. ASSUME NEW x \in Loads', New(x)
        PROVE  /\ old \in Loads /\ LoginKey(x)' = LoginKey(old)
               /\ x = <<"DESC", desc'[n].core, n>>
    <2>1. x[3] = n /\ n \in more
      BY <1>5
    <2>2. LoginKey(x)' = desc'[n].key /\ x = <<"DESC", desc'[n].core, n>>
      BY <1>1, <1>5, <2>1 DEF Slots
    <2>3. old \in Loads /\ LoginKey(old) = dg[c][1].key
      BY <1>1, <1>4, <2>1 DEF Slots
    <2> QED BY <1>4, <2>1, <2>2, <2>3
  <1>6. ASSUME NEW x \in Loads', Moved(x)
        PROVE  /\ x = <<"DG", c, x[3]>> /\ x[3] \in Nat /\ x[3] >= 1
               /\ <<"DG", c, x[3] + 1>> \in Loads
               /\ LoginKey(x)' = LoginKey(<<"DG", c, x[3] + 1>>)
    <2>1. /\ x = <<"DG", c, x[3]>> /\ x[3] \in 1..Len(dg'[c])
          /\ dg'[c][x[3]].header = "LOGIN" /\ LoginKey(x)' = dg'[c][x[3]].key
      BY <1>1, <1>6 DEF Slots
    <2>2. /\ x[3] \in Nat /\ x[3] >= 1 /\ x[3] + 1 \in 1..Len(dg[c])
          /\ dg'[c][x[3]] = dg[c][x[3] + 1]
      BY <1>4, <2>1
    <2> QED BY <1>1, <2>1, <2>2 DEF Slots
  <1>7. ASSUME NEW x \in Loads', ~New(x), ~Moved(x)
        PROVE  x \in Loads /\ LoginKey(x)' = LoginKey(x)
    <2>1. CASE x[1] = "DESC"
      BY <1>7, <2>1, DescMoved
    <2>2. CASE x[1] = "GD"
      BY <1>1, <2>2 DEF Slots
    <2>3. CASE x[1] = "DG"
      <3>1. /\ x = <<"DG", x[2], x[3]>> /\ x[2] \in Cores /\ x[3] \in 1..Len(dg[x[2]])
            /\ dg[x[2]][x[3]].header = "LOGIN" /\ LoginKey(x)' = dg[x[2]][x[3]].key
        BY <1>1, <1>3, <1>7, <2>3 DEF Slots
      <3> QED BY <1>1, <3>1 DEF Slots
    <2> QED BY <1>1, <2>1, <2>2, <2>3 DEF Slots
  <1>8. \A x \in Loads' : from[x] = IF New(x) THEN old
                                    ELSE IF Moved(x) THEN <<"DG", c, x[3] + 1>> ELSE x
    OBVIOUS
  <1>9. \A x \in Loads' : x[1] = "DG" => ~New(x)
    OBVIOUS
  <1>10. \A x \in Loads' : from[x] \in Loads /\ LoginKey(x)' = LoginKey(from[x])
    <2> HIDE DEF from, New, Moved, old
    <2> QED BY <1>5, <1>6, <1>7, <1>8
  <1>11. ASSUME NEW x \in Loads', NEW y \in Loads', from[x] = from[y]
         PROVE  x = y
    <2>1. \A z \in Loads' : ~New(z) /\ ~Moved(z) => ~(z[1] = "DG" /\ z[2] = c)
      OBVIOUS
    <2>2. \A z \in Loads' : Moved(z) => ~New(z) /\ from[z] = <<"DG", c, z[3] + 1>>
      BY <1>8
    <2>3. \A z \in Loads' : New(z) => from[z] = <<"DG", c, 1>>
      BY <1>8
    <2>4. \A z \in Loads' : ~New(z) /\ ~Moved(z) => from[z] = z
      BY <1>8
    <2> HIDE DEF from, New, Moved
    <2>5. \A z \in Loads' : Moved(z) => z[3] \in Nat /\ z[3] >= 1 /\ z = <<"DG", c, z[3]>>
      BY <1>6
    <2>6. \A z \in Loads' : Moved(z) => from[z][3] = z[3] + 1 /\ z[3] + 1 # 1
      BY <2>2, <2>5
    <2>7. \A z \in Loads' : New(z) => from[z][3] = 1
      BY <2>3
    <2>8. CASE New(x)
      <3>1. ~Moved(y)
        BY <1>11, <2>6, <2>7, <2>8
      <3>2. New(y)
        BY <1>11, <2>1, <2>3, <2>4, <2>8, <3>1
      <3> QED BY <1>5, <2>8, <3>2
    <2>9. CASE Moved(x)
      <3>1. ~New(y)
        BY <1>11, <2>6, <2>7, <2>9
      <3>2. Moved(y)
        BY <1>11, <2>1, <2>2, <2>4, <2>9, <3>1
      <3>3. x[3] + 1 = y[3] + 1
        BY <1>11, <2>6, <2>9, <3>2
      <3>4. x[3] = y[3]
        BY <2>5, <2>9, <3>2, <3>3
      <3> QED BY <2>5, <2>9, <3>2, <3>4
    <2>10. CASE ~New(x) /\ ~Moved(x)
      <3>1. ~New(y) /\ ~Moved(y)
        BY <1>11, <2>1, <2>2, <2>3, <2>4, <2>10
      <3> QED BY <1>11, <2>4, <2>10, <3>1
    <2> QED BY <2>8, <2>9, <2>10
  <1> HIDE DEF from
  <1> QED BY <1>10, <1>11, LoadsMoved

\* What the db server adds to the messages to the cores: at most one order, the last
\* message to its target, with the key of the request it took.
Adds(c, target) ==
    \A k \in Cores :
        /\ Len(dg[k]) \in Nat /\ Len(dg'[k]) \in Nat
        /\ \A i \in 1..Len(dg[k]) : dg'[k][i] = dg[k][i]
        /\ \A i \in 1..Len(dg'[k]) :
              i > Len(dg[k]) /\ dg'[k][i].header = "LOGIN" =>
                  k = target /\ i = Len(dg'[k]) /\ dg'[k][i].key = Head(gd[c]).key

\* The db server takes a request: its order takes the load over.
LEMMA OrderedLoads ==
    ASSUME Inv, LoadInv, NEW c \in Cores, gd[c] # <<>>, gd' = [gd EXCEPT ![c] = Tail(@)],
           UNCHANGED <<desc, m_iHandleCount>>, NEW target, Adds(c, target)
    PROVE  LoadInv'
  <1> DEFINE old == <<"GD", c, 1>>
             New(x) == x[1] = "DG" /\ x[3] > Len(dg[x[2]])
             Moved(x) == x[1] = "GD" /\ x[2] = c
             from == [x \in Loads' |-> IF New(x) THEN old
                                       ELSE IF Moved(x) THEN <<"GD", c, x[3] + 1>> ELSE x]
  <1>1. Slots /\ Slots'
    BY LoadSlots, SlotsNext
  <1>2. gd \in [Cores -> Seq(GDMessage)] /\ gd[c] \in Seq(GDMessage)
    BY DEF Inv, TypeOK
  <1>3. \A k \in Cores : gd'[k] = IF k = c THEN Tail(gd[c]) ELSE gd[k]
    BY <1>2
  <1>4. /\ Len(gd[c]) \in Nat /\ 1 \in 1..Len(gd[c]) /\ Head(gd[c]) = gd[c][1]
        /\ \A i \in 1..Len(gd'[c]) :
              i \in Nat /\ i >= 1 /\ i + 1 \in 1..Len(gd[c]) /\ gd'[c][i] = gd[c][i + 1]
    BY <1>2, <1>3, TailFacts
  <1>5. ASSUME NEW x \in Loads', New(x)
        PROVE  /\ old \in Loads /\ LoginKey(x)' = LoginKey(old)
               /\ x = <<"DG", target, Len(dg'[target])>>
    <2>1. /\ x = <<"DG", x[2], x[3]>> /\ x[2] \in Cores /\ x[3] \in 1..Len(dg'[x[2]])
          /\ dg'[x[2]][x[3]].header = "LOGIN" /\ LoginKey(x)' = dg'[x[2]][x[3]].key
      BY <1>1, <1>5 DEF Slots
    <2>2. /\ x[2] = target /\ x[3] = Len(dg'[x[2]])
          /\ dg'[x[2]][x[3]].key = Head(gd[c]).key
      BY <1>5, <2>1 DEF Adds
    <2>3. old \in Loads /\ LoginKey(old) = gd[c][1].key
      BY <1>1, <1>4 DEF Slots
    <2> QED BY <1>4, <2>1, <2>2, <2>3
  <1>6. ASSUME NEW x \in Loads', Moved(x)
        PROVE  /\ x = <<"GD", c, x[3]>> /\ x[3] \in Nat /\ x[3] >= 1
               /\ <<"GD", c, x[3] + 1>> \in Loads
               /\ LoginKey(x)' = LoginKey(<<"GD", c, x[3] + 1>>)
    <2>1. /\ x = <<"GD", c, x[3]>> /\ x[3] \in 1..Len(gd'[c])
          /\ LoginKey(x)' = gd'[c][x[3]].key
      BY <1>1, <1>6 DEF Slots
    <2>2. /\ x[3] \in Nat /\ x[3] >= 1 /\ x[3] + 1 \in 1..Len(gd[c])
          /\ gd'[c][x[3]] = gd[c][x[3] + 1]
      BY <1>4, <2>1
    <2> QED BY <1>1, <2>1, <2>2 DEF Slots
  <1>7. ASSUME NEW x \in Loads', ~New(x), ~Moved(x)
        PROVE  x \in Loads /\ LoginKey(x)' = LoginKey(x)
    <2>1. CASE x[1] = "DESC"
      BY <1>1, <2>1 DEF Slots
    <2>2. CASE x[1] = "GD"
      <3>1. /\ x = <<"GD", x[2], x[3]>> /\ x[2] \in Cores /\ x[3] \in 1..Len(gd[x[2]])
            /\ LoginKey(x)' = gd[x[2]][x[3]].key
        BY <1>1, <1>3, <1>7, <2>2 DEF Slots
      <3> QED BY <1>1, <3>1 DEF Slots
    <2>3. CASE x[1] = "DG"
      <3>1. /\ x = <<"DG", x[2], x[3]>> /\ x[2] \in Cores /\ x[3] \in 1..Len(dg'[x[2]])
            /\ dg'[x[2]][x[3]].header = "LOGIN" /\ LoginKey(x)' = dg'[x[2]][x[3]].key
        BY <1>1, <2>3 DEF Slots
      <3>2. Len(dg[x[2]]) \in Nat /\ Len(dg'[x[2]]) \in Nat
        BY <3>1 DEF Adds
      <3>3. x[3] \in 1..Len(dg[x[2]])
        BY <1>7, <2>3, <3>1, <3>2
      <3>4. dg'[x[2]][x[3]] = dg[x[2]][x[3]]
        BY <3>1, <3>3 DEF Adds
      <3> QED BY <1>1, <3>1, <3>3, <3>4 DEF Slots
    <2> QED BY <1>1, <2>1, <2>2, <2>3 DEF Slots
  <1>8. \A x \in Loads' : from[x] = IF New(x) THEN old
                                    ELSE IF Moved(x) THEN <<"GD", c, x[3] + 1>> ELSE x
    OBVIOUS
  <1>9. \A x \in Loads' : from[x] \in Loads /\ LoginKey(x)' = LoginKey(from[x])
    <2> HIDE DEF from, New, Moved, old
    <2> QED BY <1>5, <1>6, <1>7, <1>8
  <1>10. ASSUME NEW x \in Loads', NEW y \in Loads', from[x] = from[y]
         PROVE  x = y
    <2>1. \A z \in Loads' : ~New(z) /\ ~Moved(z) => ~(z[1] = "GD" /\ z[2] = c)
      OBVIOUS
    <2>2. \A z \in Loads' : Moved(z) => ~New(z) /\ from[z] = <<"GD", c, z[3] + 1>>
      BY <1>8
    <2>3. \A z \in Loads' : New(z) => from[z] = <<"GD", c, 1>>
      BY <1>8
    <2>4. \A z \in Loads' : ~New(z) /\ ~Moved(z) => from[z] = z
      BY <1>8
    <2> HIDE DEF from, New, Moved
    <2>5. \A z \in Loads' : Moved(z) => z[3] \in Nat /\ z[3] >= 1 /\ z = <<"GD", c, z[3]>>
      BY <1>6
    <2>6. \A z \in Loads' : Moved(z) => from[z][3] = z[3] + 1 /\ z[3] + 1 # 1
      BY <2>2, <2>5
    <2>7. \A z \in Loads' : New(z) => from[z][3] = 1
      BY <2>3
    <2>8. CASE New(x)
      <3>1. ~Moved(y)
        BY <1>10, <2>6, <2>7, <2>8
      <3>2. New(y)
        BY <1>10, <2>1, <2>3, <2>4, <2>8, <3>1
      <3> QED BY <1>5, <2>8, <3>2
    <2>9. CASE Moved(x)
      <3>1. ~New(y)
        BY <1>10, <2>6, <2>7, <2>9
      <3>2. Moved(y)
        BY <1>10, <2>1, <2>2, <2>4, <2>9, <3>1
      <3>3. x[3] + 1 = y[3] + 1
        BY <1>10, <2>6, <2>9, <3>2
      <3>4. x[3] = y[3]
        BY <2>5, <2>9, <3>2, <3>3
      <3> QED BY <2>5, <2>9, <3>2, <3>4
    <2>10. CASE ~New(x) /\ ~Moved(x)
      <3>1. ~New(y) /\ ~Moved(y)
        BY <1>10, <2>1, <2>2, <2>3, <2>4, <2>10
      <3> QED BY <1>10, <2>4, <2>10, <3>1
    <2> QED BY <2>8, <2>9, <2>10
  <1> HIDE DEF from
  <1> QED BY <1>9, <1>10, LoadsMoved

\* A new login: its key is the new DESC's handle, which no load has.
LEMMA NewLoad ==
    ASSUME Inv, LoadInv, m_iHandleCount' = m_iHandleCount + 1,
           Loading({m_iHandleCount + 1}), UNCHANGED <<gd, dg>>,
           desc'[m_iHandleCount + 1].key = m_iHandleCount + 1
    PROVE  LoadInv'
  <1> DEFINE n == m_iHandleCount + 1
             New(x) == x[1] = "DESC" /\ x[3] = n
  <1>1. Slots /\ Slots'
    BY LoadSlots, SlotsNext
  <1>2. m_iHandleCount \in Nat
    BY CoresAssumption DEF Inv, TypeOK
  <1>3. ASSUME NEW x \in Loads', New(x)
        PROVE  LoginKey(x)' = n /\ x = <<"DESC", desc'[n].core, n>>
    BY <1>1, <1>3 DEF Slots
  <1>4. ASSUME NEW x \in Loads', ~New(x)
        PROVE  x \in Loads /\ LoginKey(x)' = LoginKey(x)
    <2>1. CASE x[1] = "DESC"
      BY <1>4, <2>1, DescMoved
    <2>2. CASE x[1] = "GD"
      BY <1>1, <2>2 DEF Slots
    <2>3. CASE x[1] = "DG"
      BY <1>1, <2>3 DEF Slots
    <2> QED BY <1>1, <2>1, <2>2, <2>3 DEF Slots
  <1> HIDE DEF New
  <1>5. \A x \in Loads' : ~New(x) => LoginKey(x)' \in 1..m_iHandleCount
    BY <1>4 DEF LoadInv, KeysGiven
  <1>6. KeysGiven'
    BY <1>2, <1>3, <1>5 DEF KeysGiven
  <1>7. ASSUME NEW x \in Loads', NEW y \in Loads', LoginKey(x)' = LoginKey(y)'
        PROVE  x = y
    <2>1. n \notin 1..m_iHandleCount
      BY <1>2
    <2>2. New(x) <=> New(y)
      BY <1>3, <1>5, <1>7, <2>1
    <2>3. CASE New(x)
      BY <1>3, <2>2, <2>3
    <2>4. CASE ~New(x)
      BY <1>4, <1>7, <2>2, <2>4 DEF LoadInv, OneLoad
    <2> QED BY <2>3, <2>4
  <1>8. OneLoad'
    BY <1>7 DEF OneLoad
  <1> QED BY <1>6, <1>8 DEF LoadInv

\* DESCs only go.
LEMMA ErasedLoading ==
    ASSUME Inv, NEW c \in Cores, NEW STATE ps, ps \in SUBSET Pids, EraseByKey(c, ps)
    PROVE  Loading({})
  <1>1. DOMAIN desc' \subseteq DOMAIN desc /\ \A h \in DOMAIN desc' : desc'[h] = desc[h]
    BY EraseFacts DEF Inv
  <1> QED BY <1>1 DEF Loading

LEMMA FailedLoads ==
    ASSUME Inv, LoadInv, NEW STATE h, h \in DOMAIN desc, NotifyFailed(h),
           UNCHANGED <<m_iHandleCount, gd, dg>>
    PROVE  LoadInv'
  <1> DEFINE c == desc[h].core
             ps == MobiGetByHandleID(c, h)
  <1>1. c \in Cores /\ ps \in SUBSET Pids /\ EraseByKey(c, ps)
    BY DEF Inv, TypeOK, Desc, MobiGetByHandleID, NotifyFailed
  <1> HIDE DEF ps, c
  <1>2. Loading({})
    BY <1>1, ErasedLoading
  <1> QED BY <1>2, FewerLoads

\* A DESC changes, and begins no load.
LEMMA RelabelLoading ==
    ASSUME Inv, NEW STATE h, h \in DOMAIN desc, NEW STATE d, desc' = [desc EXCEPT ![h] = d],
           d.core = desc[h].core, d.key = desc[h].key,
           d.phase \in Open => desc[h].phase \in Open
    PROVE  Loading({}) /\ h \in DOMAIN desc' /\ desc'[h] = d
  <1>1. DOMAIN desc' = DOMAIN desc /\ desc'[h] = d
    OBVIOUS
  <1>2. \A k \in DOMAIN desc : k # h => desc'[k] = desc[k]
    OBVIOUS
  <1> QED BY <1>1, <1>2 DEF Loading

LEMMA RelabelLoads ==
    ASSUME Inv, LoadInv, NEW STATE h, h \in DOMAIN desc, NEW STATE d,
           desc' = [desc EXCEPT ![h] = d],
           d.core = desc[h].core, d.key = desc[h].key,
           d.phase \in Open => desc[h].phase \in Open,
           UNCHANGED <<m_iHandleCount, gd, dg>>
    PROVE  LoadInv'
  <1>1. Loading({})
    BY RelabelLoading
  <1> QED BY <1>1, FewerLoads

\* The steps, one by one.
LEMMA CharacterLoadLoads ==
    ASSUME Inv, LoadInv, NEW p \in Pids, CharacterLoad(p)
    PROVE  LoadInv'
  <1>1. CASE UNCHANGED <<desc, m_iHandleCount>>
    <2>1. Loading({})
      BY <1>1 DEF Loading
    <2> QED BY <1>1, <2>1, FewerLoads DEF CharacterLoad
  <1>2. CASE CreateDesc /\ UNCHANGED desc
    <2>1. Loading({})
      BY <1>2 DEF Loading
    <2> QED BY <1>2, <2>1, FewerLoads DEF CharacterLoad, CreateDesc
  <1>3. CASE CreateDesc /\ desc' = NewDesc(desc, Auth, m_iHandleCount', "AUTH")
    <2> DEFINE n == m_iHandleCount + 1
    <2>1. /\ DOMAIN desc' = DOMAIN desc \cup {n} /\ desc'[n].key = n
          /\ \A h \in DOMAIN desc : h # n => desc'[h] = desc[h]
      BY <1>3 DEF NewDesc, CreateDesc
    <2>2. Loading({n})
      BY <2>1 DEF Loading
    <2> QED BY <1>3, <2>1, <2>2, NewLoad DEF CharacterLoad, CreateDesc
  <1> QED BY <1>1, <1>2, <1>3 DEF CharacterLoad, AuthLogin

LEMMA AnalyzeReturnQueryLoads ==
    ASSUME Inv, LoadInv, NEW STATE h, h \in DOMAIN desc, AnalyzeReturnQuery(h)
    PROVE  LoadInv'
  <1>1. CASE NotifyFailed(h)
    BY <1>1, FailedLoads DEF AnalyzeReturnQuery
  <1>2. CASE desc' = [desc EXCEPT ![h].phase = "AUTH_LOGIN"]
    <2> DEFINE d == [desc[h] EXCEPT !.phase = "AUTH_LOGIN"]
    <2>1. desc[h] \in Desc /\ desc[h].phase \in Open
      BY DEF Inv, TypeOK, AnalyzeReturnQuery, Open
    <2>2. desc' = [desc EXCEPT ![h] = d] /\ d.core = desc[h].core /\ d.key = desc[h].key
      BY <1>2, <2>1 DEF Desc
    <2> HIDE DEF d
    <2> QED BY <2>1, <2>2, RelabelLoads DEF AnalyzeReturnQuery
  <1> QED BY <1>1, <1>2 DEF AnalyzeReturnQuery

LEMMA LoginSuccessLoads ==
    ASSUME Inv, LoadInv, NEW STATE h, h \in DOMAIN desc, LoginSuccess(h)
    PROVE  LoadInv'
  <1>0. desc[h] \in Desc /\ desc[h].phase \in Open
    BY DEF Inv, TypeOK, LoginSuccess, Open
  <1>1. CASE NotifyFailed(h)
    BY <1>1, FailedLoads DEF LoginSuccess
  <1>2. CASE SetPhase(h, "SELECT")
    <2> DEFINE d == [desc[h] EXCEPT !.phase = "SELECT", !.idle = FALSE]
    <2>1. desc' = [desc EXCEPT ![h] = d] /\ d.core = desc[h].core /\ d.key = desc[h].key
      BY <1>0, <1>2 DEF Desc, SetPhase
    <2> HIDE DEF d
    <2> QED BY <1>0, <2>1, RelabelLoads DEF LoginSuccess
  <1>3. CASE desc' = [desc EXCEPT ![h].phase = "STUCK"]
    <2> DEFINE d == [desc[h] EXCEPT !.phase = "STUCK"]
    <2>1. desc' = [desc EXCEPT ![h] = d] /\ d.core = desc[h].core /\ d.key = desc[h].key
      BY <1>0, <1>3 DEF Desc
    <2> HIDE DEF d
    <2> QED BY <1>0, <2>1, RelabelLoads DEF LoginSuccess
  <1> QED BY <1>1, <1>2, <1>3 DEF LoginSuccess, CharacterSelect, InputCharacterSelect

LEMMA IdleLoads ==
    ASSUME Inv, LoadInv, NEW STATE h, h \in DOMAIN desc, Idle(h) \/ HandleOffshop(h)
    PROVE  LoadInv'
  <1>0. PICK b \in BOOLEAN : desc' = [desc EXCEPT ![h].idle = b]
    BY DEF Idle, HandleOffshop
  <1> DEFINE d == [desc[h] EXCEPT !.idle = b]
  <1>1. desc[h] \in Desc
    BY DEF Inv, TypeOK
  <1>2. /\ desc' = [desc EXCEPT ![h] = d]
        /\ d.core = desc[h].core /\ d.key = desc[h].key /\ d.phase = desc[h].phase
    BY <1>0, <1>1 DEF Desc
  <1>3. UNCHANGED <<m_iHandleCount, gd, dg>>
    BY DEF Idle, HandleOffshop
  <1> HIDE DEF d
  <1> QED BY <1>2, <1>3, RelabelLoads

LEMMA DisconnectLoads ==
    ASSUME Inv, LoadInv, NEW STATE h, h \in DOMAIN desc, Disconnect(h)
    PROVE  LoadInv'
  <1>1. Loading({})
    BY DEF Disconnect, Without, Loading
  <1> QED BY <1>1, FewerLoads DEF Disconnect

\* The password was right: the auth core hands the load on.
LEMMA HandleLoginResultLoads ==
    ASSUME Inv, LoadInv, NEW STATE h, h \in DOMAIN desc, HandleLoginResult(h)
    PROVE  LoadInv'
  <1>1. /\ desc[h] \in Desc /\ desc[h].phase \in Open /\ Auth \in Cores
        /\ UNCHANGED <<m_iHandleCount, dg>>
    BY DEF Inv, TypeOK, HandleLoginResult, Open, Cores
  <1>2. CASE SendMobiLogin(h)
    <2> DEFINE d == [desc[h] EXCEPT !.phase = "SENT"]
    <2>1. /\ desc' = [desc EXCEPT ![h] = d] /\ d.core = desc[h].core /\ d.key = desc[h].key
          /\ d.phase \notin Open
      BY <1>1, <1>2 DEF Desc, SendMobiLogin, Open
    <2>2. PICK p \in MobiGetByHandleID(Auth, h) :
              gd' = [gd EXCEPT ![Auth] =
                        Append(@, [pid |-> p, key |-> desc[h].key, targets |-> GetMostAvailCore])]
      BY <1>2 DEF SendMobiLogin
    <2> DEFINE msg == [pid |-> p, key |-> desc[h].key, targets |-> GetMostAvailCore]
    <2>3. /\ msg \in GDMessage /\ msg.key = desc[h].key
          /\ gd' = [gd EXCEPT ![Auth] = Append(@, msg)]
      BY <1>1, <2>2 DEF GDMessage, Desc, GetMostAvailCore, MobiGetByHandleID
    <2> HIDE DEF d, msg
    <2>4. Loading({}) /\ h \in DOMAIN desc' /\ desc'[h].phase \notin Open
      BY <2>1, RelabelLoading
    <2> QED BY <1>1, <2>3, <2>4, SentLoads
  <1>3. CASE NotifyFailed(h) /\ UNCHANGED gd
    BY <1>1, <1>3, FailedLoads
  <1> QED BY <1>2, <1>3 DEF HandleLoginResult

\* The character is in game, or its load goes on in another core.
LEMMA PlayerLoadLoads ==
    ASSUME Inv, LoadInv, NEW STATE h, h \in DOMAIN desc, PlayerLoad(h)
    PROVE  LoadInv'
  <1>1. /\ desc[h] \in Desc /\ desc[h].phase \in Open /\ desc[h].core \in Cores
        /\ UNCHANGED <<m_iHandleCount, dg>>
    BY DEF Inv, TypeOK, PlayerLoad, Open, Desc
  <1>2. CASE NotifyFailed(h) /\ UNCHANGED gd
    BY <1>1, <1>2, FailedLoads
  <1>3. CASE Entergame(h)
    <2> DEFINE d == [desc[h] EXCEPT !.phase = "GAME", !.idle = FALSE]
               c == desc[h].core
    <2>1. /\ desc' = [desc EXCEPT ![h] = d] /\ d.core = desc[h].core /\ d.key = desc[h].key
          /\ d.phase \notin Open
      BY <1>1, <1>3 DEF Desc, Entergame, SetPhase, Open
    <2>2. Loading({}) /\ h \in DOMAIN desc' /\ desc'[h].phase \notin Open
      <3> HIDE DEF d
      <3> QED BY <2>1, RelabelLoading
    <2>3. CASE UNCHANGED gd
      BY <1>1, <2>2, <2>3, FewerLoads
    <2>4. CASE \E target \in GameCores : SendMobiWarp(h, target)
      <3>1. PICK target \in GameCores : SendMobiWarp(h, target)
        BY <2>4
      <3>2. PICK p \in MobiGetByHandleID(c, h) :
                gd' = [gd EXCEPT ![c] =
                          Append(@, [pid |-> p, key |-> desc[h].key, targets |-> {target}])]
        BY <3>1 DEF SendMobiWarp
      <3> DEFINE msg == [pid |-> p, key |-> desc[h].key, targets |-> {target}]
      <3>3. /\ msg \in GDMessage /\ msg.key = desc[h].key
            /\ gd' = [gd EXCEPT ![c] = Append(@, msg)]
        BY <1>1, <3>2 DEF GDMessage, Desc, MobiGetByHandleID
      <3> HIDE DEF d, c, msg
      <3>4. c \in Cores
        BY <1>1 DEF c
      <3> QED BY <1>1, <2>2, <3>3, <3>4, SentLoads
    <2> QED BY <1>3, <2>3, <2>4 DEF Entergame, GoToSafePosition
  <1> QED BY <1>2, <1>3 DEF PlayerLoad

\* The messages added to a queue s, with result t: if login is among them, it is the last.
Adding(s, t, login) ==
    /\ Len(s) \in Nat /\ Len(t) \in Nat
    /\ \A i \in 1..Len(s) : t[i] = s[i]
    /\ \A i \in 1..Len(t) : i > Len(s) /\ t[i].header = "LOGIN" => i = Len(t) /\ t[i] = login

LEMMA Appended ==
    ASSUME NEW s \in Seq(DGMessage), NEW e \in DGMessage
    PROVE  /\ Append(s, e) \in Seq(DGMessage) /\ s \o <<>> = s /\ s \o <<e>> = Append(s, e)
           /\ Len(s) \in Nat /\ Len(Append(s, e)) = Len(s) + 1 /\ Append(s, e)[Len(s) + 1] = e
           /\ \A i \in 1..Len(s) : Append(s, e)[i] = s[i]
           /\ \A i \in 1..(Len(s) + 1) : i > Len(s) => i = Len(s) + 1
  OBVIOUS

\* The db server sends a core nothing, a logout, a login, or a logout and then a login.
LEMMA AddedMessages ==
    ASSUME NEW s \in Seq(DGMessage), NEW logout \in DGMessage, NEW login \in DGMessage,
           logout.header = "LOGOUT"
    PROVE  /\ Adding(s, s, login)
           /\ Adding(s, Append(s, logout), login) /\ Adding(s, Append(s, login), login)
           /\ Adding(s, Append(Append(s, logout), login), login)
           /\ \A i \in 1..Len(Append(s, logout)) :
                 i > Len(s) => Append(s, logout)[i].header # "LOGIN"
  <1> DEFINE r == Append(s, logout)
             u == Append(s, login)
             t == Append(r, login)
  <1>1. /\ r \in Seq(DGMessage) /\ Len(s) \in Nat /\ Len(r) = Len(s) + 1
        /\ r[Len(s) + 1] = logout /\ \A i \in 1..Len(s) : r[i] = s[i]
        /\ \A i \in 1..(Len(s) + 1) : i > Len(s) => i = Len(s) + 1
    BY Appended
  <1>2. /\ Len(u) = Len(s) + 1 /\ u[Len(s) + 1] = login /\ \A i \in 1..Len(s) : u[i] = s[i]
    BY Appended
  <1>3. r \in Seq(DGMessage) => /\ Len(t) = Len(r) + 1 /\ t[Len(r) + 1] = login
                                /\ \A i \in 1..Len(r) : t[i] = r[i]
    <2> HIDE DEF r
    <2> QED BY Appended
  <1> HIDE DEF r, u, t
  <1>4. Adding(s, s, login)
    BY <1>1 DEF Adding
  <1>5. \A i \in 1..Len(r) : i > Len(s) => r[i].header # "LOGIN"
    BY <1>1
  <1>6. Adding(s, r, login)
    BY <1>1, <1>5 DEF Adding
  <1>7. Adding(s, u, login)
    BY <1>1, <1>2 DEF Adding
  <1>8. Adding(s, t, login)
    <2>1. Len(t) = Len(s) + 2 /\ t[Len(t)] = login /\ t[Len(s) + 1] = logout
      BY <1>1, <1>3
    <2>2. \A i \in 1..Len(s) : t[i] = s[i]
      BY <1>1, <1>3
    <2>3. \A i \in 1..Len(t) : i > Len(s) => i = Len(s) + 1 \/ i = Len(t)
      BY <1>1, <2>1
    <2> QED BY <1>1, <2>1, <2>2, <2>3 DEF Adding
  <1> QED BY <1>4, <1>5, <1>6, <1>7, <1>8 DEF r, u, t

LEMMA MobiLoginLoads ==
    ASSUME Inv, LoadInv, NEW c \in Cores, MobiLogin(c)
    PROVE  LoadInv'
  <1> DEFINE m == Head(gd[c])
             logout == [header |-> "LOGOUT", pid |-> m.pid, key |-> m.key]
             login == [header |-> "LOGIN", pid |-> m.pid, key |-> m.key]
  <1>1. /\ UNCHANGED <<desc, m_iHandleCount>>
        /\ gd[c] # <<>> /\ gd' = [gd EXCEPT ![c] = Tail(@)]
    BY DEF MobiLogin
  <1>2. gd[c] \in Seq(GDMessage) /\ dg \in [Cores -> Seq(DGMessage)]
    BY DEF Inv, TypeOK
  <1>3. m \in GDMessage
    BY <1>1, <1>2, HeadTailProperties
  <1>4. /\ logout \in DGMessage /\ login \in DGMessage
        /\ logout.header = "LOGOUT" /\ login.key = m.key
    BY <1>3 DEF GDMessage, DGMessage
  <1>5. CASE UNCHANGED dg
    <2>1. Adds(c, c)
      BY <1>2, <1>5 DEF Adds
    <2> QED BY <1>1, <2>1, OrderedLoads
  <1>6. CASE \E target \in m.targets :
                dg' = [k \in Cores |->
                         dg[k] \o (IF k = c THEN <<logout>> ELSE <<>>)
                               \o (IF k = target THEN <<login>> ELSE <<>>)]
    <2>1. PICK target \in m.targets :
              dg' = [k \in Cores |->
                       dg[k] \o (IF k = c THEN <<logout>> ELSE <<>>)
                             \o (IF k = target THEN <<login>> ELSE <<>>)]
      BY <1>6
    <2> HIDE DEF m, logout, login
    <2>2. ASSUME NEW k \in Cores
          PROVE  /\ Adding(dg[k], dg'[k], login)
                 /\ k # target => \A i \in 1..Len(dg'[k]) :
                                     i > Len(dg[k]) => dg'[k][i].header # "LOGIN"
      <3>1. dg[k] \in Seq(DGMessage)
        BY <1>2
      <3>2. /\ dg[k] \o <<>> = dg[k]
            /\ dg[k] \o <<logout>> = Append(dg[k], logout)
            /\ Append(dg[k], logout) \in Seq(DGMessage)
            /\ dg[k] \o <<login>> = Append(dg[k], login)
        BY <1>4, <3>1, Appended
      <3>3. /\ Append(dg[k], logout) \o <<>> = Append(dg[k], logout)
            /\ Append(dg[k], logout) \o <<login>> = Append(Append(dg[k], logout), login)
        BY <1>4, <3>2, Appended
      <3>4. /\ Adding(dg[k], dg[k], login)
            /\ Adding(dg[k], Append(dg[k], logout), login)
            /\ Adding(dg[k], Append(dg[k], login), login)
            /\ Adding(dg[k], Append(Append(dg[k], logout), login), login)
            /\ \A i \in 1..Len(Append(dg[k], logout)) :
                  i > Len(dg[k]) => Append(dg[k], logout)[i].header # "LOGIN"
        BY <1>4, <3>1, AddedMessages
      <3>5. dg'[k] = (dg[k] \o (IF k = c THEN <<logout>> ELSE <<>>))
                            \o (IF k = target THEN <<login>> ELSE <<>>)
        BY <2>1
      <3>6. CASE k # c /\ k # target
        <4>1. dg'[k] = dg[k]
          BY <3>2, <3>5, <3>6, Zenon
        <4>2. \A i \in 1..Len(dg[k]) : ~(i > Len(dg[k]))
          BY <3>1
        <4> QED BY <3>4, <4>1, <4>2, Zenon
      <3>7. CASE k = c /\ k # target
        <4>1. dg'[k] = Append(dg[k], logout)
          BY <3>2, <3>3, <3>5, <3>7, Zenon
        <4> QED BY <3>4, <4>1, Zenon
      <3>8. CASE k # c /\ k = target
        <4>1. dg'[k] = Append(dg[k], login)
          BY <3>2, <3>5, <3>8, Zenon
        <4> QED BY <3>4, <3>8, <4>1, Zenon
      <3>9. CASE k = c /\ k = target
        <4>1. dg'[k] = Append(Append(dg[k], logout), login)
          BY <3>2, <3>3, <3>5, <3>9, Zenon
        <4> QED BY <3>4, <3>9, <4>1, Zenon
      <3> QED BY <3>6, <3>7, <3>8, <3>9
    <2>3. Adds(c, target)
      BY <1>4, <2>2 DEF Adds, Adding, m
    <2> QED BY <1>1, <2>3, OrderedLoads
  <1> QED BY <1>5, <1>6 DEF MobiLogin

LEMMA HandleLogoutLoads ==
    ASSUME Inv, LoadInv, NEW c \in Cores, HandleLogout(c)
    PROVE  LoadInv'
  <1> DEFINE ps == {p \in {Head(dg[c]).pid} : descs[c][p] # None}
  <1>1. Head(dg[c]) \in DGMessage
    BY QueuesTaken DEF HandleLogout
  <1>2. ps \in SUBSET Pids /\ EraseByKey(c, ps)
    BY <1>1 DEF DGMessage, HandleLogout
  <1> HIDE DEF ps
  <1>3. Loading({})
    BY <1>2, ErasedLoading
  <1> QED BY <1>3, TakenLoads DEF HandleLogout

LEMMA ProcessLoads ==
    ASSUME Inv, LoadInv, NEW c \in Cores, Process(c)
    PROVE  LoadInv'
  <1>1. Inactive(c) \in SUBSET Pids
    BY DEF Inactive
  <1>2. Loading({})
    BY <1>1, ErasedLoading DEF Process
  <1> QED BY <1>2, FewerLoads DEF Process

\* The game core's new DESC takes the order's load over, or nobody does.
LEMMA SendLoginRequestLoads ==
    ASSUME Inv, LoadInv, NEW c \in GameCores, SendLoginRequest(c)
    PROVE  LoadInv'
  <1> DEFINE m == Head(dg[c])
             sameKey == {h \in DOMAIN desc : desc[h].core = c /\ desc[h].key = m.key}
             left == Without(desc, {descs[c][m.pid]} \cup sameKey)
             n == m_iHandleCount + 1
  <1>1. /\ c \in Cores /\ dg[c] # <<>> /\ dg' = [dg EXCEPT ![c] = Tail(@)] /\ gd' = gd
        /\ m_iHandleCount' = n /\ m.header = "LOGIN" /\ LoginByKey(c, m, left)
    BY DEF SendLoginRequest, Cores, CreateDesc
  <1>2. DOMAIN left \subseteq DOMAIN desc /\ \A h \in DOMAIN left : left[h] = desc[h]
    BY DEF Without
  <1> HIDE DEF left
  <1>3. CASE desc' = NewDesc(left, c, m.key, "LOGIN")
    <2>1. /\ DOMAIN desc' = DOMAIN left \cup {n} /\ desc'[n].key = m.key
          /\ \A h \in DOMAIN left : h # n => desc'[h] = left[h]
      BY <1>3 DEF NewDesc
    <2>2. Loading({n})
      BY <1>2, <2>1 DEF Loading
    <2> HIDE DEF n, m
    <2>3. n \in {n} /\ n \in DOMAIN desc' /\ {n} \in {{}, {n}}
      BY <2>1
    <2>4. m_iHandleCount' \in {m_iHandleCount, m_iHandleCount + 1}
      BY <1>1 DEF n
    <2> QED BY <1>1, <2>1, <2>2, <2>3, <2>4, TakenLoads DEF m
  <1>4. CASE desc' = left
    <2>1. Loading({})
      BY <1>2, <1>4 DEF Loading
    <2> QED BY <1>1, <2>1, TakenLoads
  <1> QED BY <1>1, <1>3, <1>4 DEF LoginByKey

\* There is no load at first.
LEMMA InitLoad == Init => LoadInv
  <1> SUFFICES ASSUME Init PROVE LoadInv
    OBVIOUS
  <1>1. Slots
    BY LoadSlots
  <1>2. /\ DOMAIN desc = {}
        /\ \A c \in Cores : 1..Len(gd[c]) = {} /\ 1..Len(dg[c]) = {}
    BY DEF Init
  <1>3. \A x \in Loads : FALSE
    BY <1>1, <1>2 DEF Slots
  <1> QED BY <1>3 DEF LoadInv, OneLoad, KeysGiven

\* Every step keeps the loads apart.
LEMMA LoadStep == Inv /\ LoadInv /\ [Next]_vars => LoadInv'
  <1> SUFFICES ASSUME Inv, LoadInv, [Next]_vars PROVE LoadInv'
    OBVIOUS
  <1>1. CASE UNCHANGED vars
    <2>1. Loading({})
      BY <1>1 DEF Loading, vars
    <2> QED BY <1>1, <2>1, FewerLoads DEF vars
  <1>2. CASE \E p \in Pids : CharacterLoad(p)
    BY <1>2, CharacterLoadLoads
  <1>3. CASE \E h \in DOMAIN desc : AnalyzeReturnQuery(h) \/ HandleLoginResult(h)
    BY <1>3, AnalyzeReturnQueryLoads, HandleLoginResultLoads
  <1>4. CASE \E h \in DOMAIN desc : LoginSuccess(h) \/ PlayerLoad(h)
    BY <1>4, LoginSuccessLoads, PlayerLoadLoads
  <1>5. CASE \E h \in DOMAIN desc : Disconnect(h) \/ HandleOffshop(h) \/ Idle(h)
    BY <1>5, DisconnectLoads, IdleLoads
  <1>6. CASE \E c \in Cores : MobiLogin(c) \/ HandleLogout(c) \/ Process(c)
    BY <1>6, MobiLoginLoads, HandleLogoutLoads, ProcessLoads
  <1>7. CASE \E c \in GameCores : SendLoginRequest(c)
    BY <1>7, SendLoginRequestLoads
  <1> QED BY <1>1, <1>2, <1>3, <1>4, <1>5, <1>6, <1>7 DEF Next

\* A login key is in one place at a time: with the auth core's DESC, in a request to
\* the db server (SendMobiLogin, SendMobiWarp), in an order to a core (MobiLogin,
\* MobiWarp) or with the DESC SendLoginRequest made for it, until the character is in
\* game.
THEOREM OneLoadPerKey == Spec => []OneLoad
  <1>1. LoadInv => OneLoad
    BY DEF LoadInv
  <1>2. Spec => []LoadInv
    BY Invariance, InitLoad, LoadStep, PTL DEF Spec
  <1> QED BY <1>1, <1>2, PTL
=============================================================================
