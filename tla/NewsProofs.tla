----------------------------- MODULE NewsProofs -----------------------------
(***************************************************************************)
(* What the bridge knows of a game server of any number of cores, shops,   *)
(* guilds, characters and wars.                                            *)
(***************************************************************************)
EXTENDS News, SequenceTheorems, TLAPS

\* What the db server has told a core of a subject ends with its latest change; of a war,
\* what it has told the core where the war is.
QueueCurrent ==
    \A c \in Cores, s \in Broadcast :
        Has(queue[c], s) /\ (s \in Wars => c = Home[s]) => EndsWith(queue[c], s, last[s])

\* A session that lost nothing is there, and encrypted.
SteadySecure == \A c \in steady : session[c] = "secure"

\* When one core is said to be the manager, one is.
SoleManager == sole => Managers # {}

\* Nobody but the tellers of a subject other than a war has anything about it on the way.
OthersQuiet ==
    \A s \in Subjects \ Wars : Covered(s) => \A c \in Cores \ Tellers(s) : ~Has(wire[c], s)

\* What is kept for the next session is sent when encryption is enabled; of a character,
\* only its core keeps anything.
Kept ==
    \A c \in Cores :
        /\ session[c] = "secure" => unp_packets[c] = <<>>
        /\ \A s \in Players : Has(unp_packets[c], s) => c = Home[s]

\* What a sequence holds of s is among the changes S.
AllIn(q, s, S) == \A i \in 1..Len(q) : q[i].about = s => q[i].no \in S

\* A core where a war is not has nothing to tell of it but that it started.
OnlyStarts ==
    \A c \in Cores, s \in Wars :
        /\ AllIn(queue[c], s, starts)
        /\ c # Home[s] => AllIn(wire[c], s, starts) /\ AllIn(unp_packets[c], s, starts)

Inv ==
    /\ TypeOK /\ QueueCurrent /\ SteadySecure /\ SoleManager
    /\ NewsKnown /\ OthersQuiet /\ Kept /\ OnlyStarts

-----------------------------------------------------------------------------
\* What a longer sequence holds.
LEMMA AppendHolds ==
    ASSUME NEW S, NEW q \in Seq(S), NEW e \in S, NEW s
    PROVE  /\ Has(Append(q, e), s) <=> Has(q, s) \/ e.about = s
           /\ e.about = s => EndsWith(Append(q, e), s, e.no)
           /\ \A n : e.about # s /\ EndsWith(q, s, n) => EndsWith(Append(q, e), s, n)
  <1> DEFINE r == Append(q, e)
  <1>1. /\ Len(q) \in Nat /\ Len(r) = Len(q) + 1 /\ r[Len(q) + 1] = e
        /\ \A i \in 1..Len(q) : r[i] = q[i]
    BY AppendProperties, LenProperties
  <1> HIDE DEF r
  <1>2. Has(r, s) <=> Has(q, s) \/ e.about = s
    BY <1>1 DEF Has
  <1>3. e.about = s => EndsWith(r, s, e.no)
    BY <1>1 DEF EndsWith
  <1>4. ASSUME NEW n, e.about # s, EndsWith(q, s, n) PROVE EndsWith(r, s, n)
    BY <1>1, <1>4 DEF EndsWith
  <1> QED BY <1>2, <1>3, <1>4 DEF r

\* What one sequence after another holds.
LEMMA ConcatHolds ==
    ASSUME NEW S, NEW q \in Seq(S), NEW r \in Seq(S), NEW s, Has(q \o r, s)
    PROVE  Has(q, s) \/ Has(r, s)
  <1> DEFINE t == q \o r
  <1>1. /\ Len(q) \in Nat /\ Len(r) \in Nat /\ Len(t) = Len(q) + Len(r)
        /\ \A i \in 1..(Len(q) + Len(r)) : t[i] = IF i <= Len(q) THEN q[i] ELSE r[i - Len(q)]
    BY ConcatProperties, LenProperties
  <1> HIDE DEF t
  <1>2. PICK i \in 1..Len(t) : t[i].about = s
    BY DEF Has, t
  <1>3. CASE i <= Len(q)
    BY <1>1, <1>2, <1>3 DEF Has
  <1>4. CASE i > Len(q)
    <2>1. i - Len(q) \in 1..Len(r) /\ t[i] = r[i - Len(q)]
      BY <1>1, <1>2, <1>4
    <2> QED BY <1>2, <2>1 DEF Has
  <1> QED BY <1>1, <1>3, <1>4

\* What a sequence holds without its first element.
LEMMA TailHolds ==
    ASSUME NEW S, NEW q \in Seq(S), q # <<>>, NEW s
    PROVE  /\ Has(q, s) <=> Has(Tail(q), s) \/ Head(q).about = s
           /\ \A n : EndsWith(q, s, n) /\ Has(Tail(q), s) => EndsWith(Tail(q), s, n)
           /\ \A n : EndsWith(q, s, n) /\ ~Has(Tail(q), s)
                        => Head(q).about = s /\ Head(q).no = n
  <1> DEFINE r == Tail(q)
  <1>1. /\ Len(q) \in Nat \ {0} /\ Len(r) = Len(q) - 1 /\ Head(q) = q[1]
        /\ \A i \in 1..Len(r) : r[i] = q[i + 1]
    BY HeadTailProperties, EmptySeq, LenProperties
  <1> HIDE DEF r
  <1>2. \A i \in 1..Len(q) : i = 1 \/ (i - 1 \in 1..Len(r) /\ r[i - 1] = q[i])
    BY <1>1
  <1>3. Has(q, s) <=> Has(r, s) \/ Head(q).about = s
    <2>1. Has(q, s) => Has(r, s) \/ Head(q).about = s
      BY <1>1, <1>2 DEF Has
    <2>2. Has(r, s) => Has(q, s)
      BY <1>1 DEF Has
    <2>3. Head(q).about = s => Has(q, s)
      BY <1>1 DEF Has
    <2> QED BY <2>1, <2>2, <2>3
  <1>4. ASSUME NEW n, EndsWith(q, s, n) PROVE IF Has(r, s) THEN EndsWith(r, s, n)
                                              ELSE Head(q).about = s /\ Head(q).no = n
    <2>1. PICK i \in 1..Len(q) :
            q[i].about = s /\ q[i].no = n /\ \A j \in 1..Len(q) : q[j].about = s => j <= i
      BY <1>4 DEF EndsWith
    <2>2. CASE i = 1
      <3>1. ~Has(r, s)
        BY <1>1, <2>1, <2>2 DEF Has
      <3> QED BY <1>1, <2>1, <2>2, <3>1
    <2>3. CASE i # 1
      <3>1. i - 1 \in 1..Len(r) /\ r[i - 1] = q[i]
        BY <1>2, <2>3
      <3>2. ASSUME NEW j \in 1..Len(r), r[j].about = s PROVE j <= i - 1
        <4>1. j + 1 \in 1..Len(q) /\ q[j + 1].about = s
          BY <1>1, <3>2
        <4>2. j + 1 <= i
          BY <2>1, <4>1
        <4> QED BY <4>2
      <3>3. EndsWith(r, s, n) /\ Has(r, s)
        BY <2>1, <3>1, <3>2 DEF EndsWith, Has
      <3> QED BY <3>3
    <2> QED BY <2>2, <2>3
  <1> QED BY <1>3, <1>4 DEF r

\* Sequences that hold nothing of a subject but changes of a given set.
LEMMA AllInHolds ==
    ASSUME NEW E, NEW q \in Seq(E), NEW s, NEW S, AllIn(q, s, S)
    PROVE  /\ \A e \in E : (e.about = s => e.no \in S) => AllIn(Append(q, e), s, S)
           /\ \A r \in Seq(E) : AllIn(r, s, S) => AllIn(q \o r, s, S)
           /\ q # <<>> => AllIn(Tail(q), s, S) /\ (Head(q).about = s => Head(q).no \in S)
           /\ AllIn(<<>>, s, S)
  <1>1. ASSUME NEW e \in E, e.about = s => e.no \in S PROVE AllIn(Append(q, e), s, S)
    <2> DEFINE r == Append(q, e)
    <2>1. /\ Len(q) \in Nat /\ Len(r) = Len(q) + 1 /\ r[Len(q) + 1] = e
          /\ \A i \in 1..Len(q) : r[i] = q[i]
      BY AppendProperties, LenProperties
    <2> HIDE DEF r
    <2>2. \A i \in 1..Len(r) : i \in 1..Len(q) \/ i = Len(q) + 1
      BY <2>1
    <2>3. AllIn(r, s, S)
      BY <1>1, <2>1, <2>2 DEF AllIn
    <2> QED BY <2>3 DEF r
  <1>2. ASSUME NEW r \in Seq(E), AllIn(r, s, S) PROVE AllIn(q \o r, s, S)
    <2> DEFINE u == q \o r
    <2>1. /\ Len(q) \in Nat /\ Len(r) \in Nat /\ Len(u) = Len(q) + Len(r)
          /\ \A i \in 1..(Len(q) + Len(r)) : u[i] = IF i <= Len(q) THEN q[i] ELSE r[i - Len(q)]
      BY ConcatProperties, LenProperties
    <2> HIDE DEF u
    <2>2. ASSUME NEW i \in 1..Len(u), u[i].about = s PROVE u[i].no \in S
      <3>1. CASE i <= Len(q)
        BY <2>1, <2>2, <3>1 DEF AllIn
      <3>2. CASE i > Len(q)
        <4>1. i - Len(q) \in 1..Len(r) /\ u[i] = r[i - Len(q)]
          BY <2>1, <3>2
        <4> QED BY <1>2, <2>2, <4>1 DEF AllIn
      <3> QED BY <2>1, <3>1, <3>2
    <2> QED BY <2>2 DEF AllIn, u
  <1>3. ASSUME q # <<>>
        PROVE  AllIn(Tail(q), s, S) /\ (Head(q).about = s => Head(q).no \in S)
    <2> DEFINE r == Tail(q)
    <2>1. /\ Len(q) \in Nat \ {0} /\ Len(r) = Len(q) - 1 /\ Head(q) = q[1]
          /\ \A i \in 1..Len(r) : r[i] = q[i + 1]
      BY <1>3, HeadTailProperties, EmptySeq, LenProperties
    <2> HIDE DEF r
    <2>2. AllIn(r, s, S)
      BY <2>1 DEF AllIn
    <2>3. Head(q).about = s => Head(q).no \in S
      BY <2>1 DEF AllIn
    <2> QED BY <2>2, <2>3 DEF r
  <1>4. AllIn(<<>>, s, S)
    BY DEF AllIn
  <1> QED BY <1>1, <1>2, <1>3, <1>4

-----------------------------------------------------------------------------
\* Who tells the bridge of a subject is one of the cores.
LEMMA TellersAreCores ==
    ASSUME TypeOK, NEW s \in Subjects PROVE Tellers(s) \subseteq Cores
  BY NewsAssumption DEF TypeOK, Tellers, Managers, Subjects, Broadcast

\* A step other than Load covers nothing that was not covered but a war that has changed,
\* and the tellers stay the same.
LEMMA CoverKeeps ==
    ASSUME NEW s \in Subjects, steady' \subseteq steady,
           sole' => sole /\ Managers' = Managers, Covered(s)'
    PROVE  /\ Tellers(s)' = Tellers(s) /\ Tellers(s) \subseteq steady'
           /\ s \notin Wars \/ s \in fresh \/ s \notin fresh' => Covered(s)
  BY DEF Covered, Tellers

\* A step that leaves the tellers alone changes nothing about what the bridge knows.
LEMMA UntouchedKnown ==
    ASSUME Inv, steady' \subseteq steady, sole' => sole /\ Managers' = Managers,
           UNCHANGED <<last, bridge, starts, fresh>>,
           \A c \in steady' : queue'[c] = queue[c] /\ wire'[c] = wire[c]
    PROVE  NewsKnown'
  <1> SUFFICES ASSUME NEW s \in Subjects, Covered(s)'
               PROVE  /\ \A c \in Tellers(s)' :
                            IF Has(queue'[c], s) THEN EndsWith(queue'[c], s, last'[s])
                            ELSE Has(wire'[c], s) => EndsWith(wire'[c], s, last'[s])
                      /\ (\A c \in Tellers(s)' : ~Has(queue'[c], s) /\ ~Has(wire'[c], s))
                            => (bridge'[s] = last'[s] \/ (s \in Wars /\ bridge'[s] \in starts'))
    BY DEF NewsKnown, Known, Has, EndsWith
  <1>1. Covered(s) /\ Tellers(s)' = Tellers(s) /\ Tellers(s) \subseteq steady'
    BY CoverKeeps
  <1> QED BY <1>1 DEF Inv, NewsKnown, Known

\* A core takes a message of the db server.  If it tells the bridge of its subject,
\* in a session that lost nothing, the change goes from the one queue to the other.
LEMMA TakenKnown ==
    ASSUME Inv, NEW c \in Cores, queue[c] # <<>>,
           queue' = [queue EXCEPT ![c] = Tail(@)],
           UNCHANGED <<last, bridge, starts, fresh, sole, session, authority>>, steady' \subseteq steady,
           \A d \in Cores : d # c => wire'[d] = wire[d],
           c \in steady' =>
               \/ wire'[c] = Append(wire[c], Head(queue[c]))
               \/ wire'[c] = wire[c] /\ c \notin Tellers(Head(queue[c]).about)
    PROVE  NewsKnown' /\ QueueCurrent'
  <1> DEFINE h == Head(queue[c])
  <1>1. /\ queue[c] \in Seq([about : Broadcast, no : 0..MaxNews])
        /\ wire[c] \in Seq(Change \cup {Answer}) /\ h \in Change \cup {Answer}
        /\ h.about \in Broadcast
    <2>1. queue[c] \in Seq([about : Broadcast, no : 0..MaxNews])
      BY DEF Inv, TypeOK
    <2>2. h \in [about : Broadcast, no : 0..MaxNews]
      BY <2>1, HeadTailProperties
    <2> QED BY <2>1, <2>2 DEF Inv, TypeOK, Change, Subjects
  <1>2. queue'[c] = Tail(queue[c]) /\ \A d \in Cores : d # c => queue'[d] = queue[d]
    BY DEF Inv, TypeOK
  <1>3. ASSUME NEW s
        PROVE  /\ Has(queue[c], s) <=> Has(queue'[c], s) \/ h.about = s
               /\ \A n : EndsWith(queue[c], s, n) =>
                     IF Has(queue'[c], s) THEN EndsWith(queue'[c], s, n)
                     ELSE h.about = s /\ h.no = n
    BY <1>1, <1>2, TailHolds
  <1>4. ASSUME NEW s, wire'[c] = Append(wire[c], h)
        PROVE  /\ Has(wire'[c], s) <=> Has(wire[c], s) \/ h.about = s
               /\ h.about = s => EndsWith(wire'[c], s, h.no)
               /\ \A n : h.about # s /\ EndsWith(wire[c], s, n) => EndsWith(wire'[c], s, n)
    <2>1. /\ Has(Append(wire[c], h), s) <=> Has(wire[c], s) \/ h.about = s
          /\ h.about = s => EndsWith(Append(wire[c], h), s, h.no)
          /\ \A n : h.about # s /\ EndsWith(wire[c], s, n) => EndsWith(Append(wire[c], h), s, n)
      <3> HIDE DEF h
      <3> QED BY <1>1, AppendHolds
    <2> QED BY <1>4, <2>1
  <1>5. QueueCurrent'
    <2>0. ASSUME \A d \in Cores, s \in Broadcast :
                     Has(queue'[d], s) /\ (s \in Wars => d = Home[s]) => EndsWith(queue'[d], s, last'[s])
          PROVE  QueueCurrent'
      BY <2>0, Zenon DEF QueueCurrent, Has, EndsWith
    <2> SUFFICES ASSUME NEW d \in Cores, NEW s \in Broadcast, Has(queue'[d], s),
                        s \in Wars => d = Home[s]
                 PROVE  EndsWith(queue'[d], s, last'[s])
      BY <2>0
    <2>1. CASE d = c
      BY <2>1, <1>3 DEF Inv, QueueCurrent
    <2>2. CASE d # c
      BY <2>2, <1>2 DEF Inv, QueueCurrent
    <2> QED BY <2>1, <2>2
  <1>6. NewsKnown'
    <2> SUFFICES ASSUME NEW s \in Subjects, Covered(s)'
                 PROVE  /\ \A d \in Tellers(s)' :
                              IF Has(queue'[d], s) THEN EndsWith(queue'[d], s, last'[s])
                              ELSE Has(wire'[d], s) => EndsWith(wire'[d], s, last'[s])
                        /\ (\A d \in Tellers(s)' : ~Has(queue'[d], s) /\ ~Has(wire'[d], s))
                              => (bridge'[s] = last'[s] \/ (s \in Wars /\ bridge'[s] \in starts'))
      BY DEF NewsKnown, Known, Has, EndsWith
    <2>1. Covered(s) /\ Tellers(s)' = Tellers(s) /\ Tellers(s) \subseteq steady'
      BY CoverKeeps DEF Managers
    <2>2. Tellers(s) \subseteq Cores
      BY TellersAreCores DEF Inv
    <2>3. /\ \A d \in Tellers(s) :
                 IF Has(queue[d], s) THEN EndsWith(queue[d], s, last[s])
                 ELSE Has(wire[d], s) => EndsWith(wire[d], s, last[s])
          /\ (\A d \in Tellers(s) : ~Has(queue[d], s) /\ ~Has(wire[d], s)) => Known(s)
      BY <2>1 DEF Inv, NewsKnown
    <2>4. ASSUME NEW d \in Tellers(s)
          PROVE  IF Has(queue'[d], s) THEN EndsWith(queue'[d], s, last'[s])
                 ELSE Has(wire'[d], s) => EndsWith(wire'[d], s, last'[s])
      <3>1. CASE d # c
        BY <1>2, <2>2, <2>3, <3>1
      <3>2. CASE d = c /\ h.about = s
        <4>1. wire'[c] = Append(wire[c], h)
          BY <2>1, <3>2
        <4> QED BY <1>3, <1>4, <2>3, <3>2, <4>1
      <3>3. CASE d = c /\ h.about # s
        <4>1. wire'[c] = Append(wire[c], h) \/ wire'[c] = wire[c]
          BY <2>1, <3>3
        <4> QED BY <1>3, <1>4, <2>3, <3>3, <4>1
      <3> QED BY <3>1, <3>2, <3>3
    <2>5. ASSUME \A d \in Tellers(s) : ~Has(queue'[d], s) /\ ~Has(wire'[d], s)
          PROVE  \A d \in Tellers(s) : ~Has(queue[d], s) /\ ~Has(wire[d], s)
      <3> SUFFICES ASSUME NEW d \in Tellers(s) PROVE ~Has(queue[d], s) /\ ~Has(wire[d], s)
        OBVIOUS
      <3>1. CASE d # c
        BY <1>2, <2>2, <2>5, <3>1
      <3>2. CASE d = c
        <4>1. wire'[c] = Append(wire[c], h) \/ (wire'[c] = wire[c] /\ h.about # s)
          BY <2>1, <3>2
        <4> QED BY <1>3, <1>4, <2>5, <3>2, <4>1
      <3> QED BY <3>1, <3>2
    <2> QED BY <2>1, <2>3, <2>4, <2>5 DEF Known
  <1> QED BY <1>5, <1>6

\* Whoever has something new on the way tells of it.
LEMMA OthersKeep ==
    ASSUME Inv, steady' \subseteq steady, sole' => sole /\ Managers' = Managers,
           \A c \in Cores, s \in Subjects \ Wars :
               Has(wire'[c], s) /\ Covered(s)' => Has(wire[c], s) \/ c \in Tellers(s)
    PROVE  OthersQuiet'
  <1> SUFFICES ASSUME NEW s \in Subjects \ Wars, Covered(s)', NEW c \in Cores, c \notin Tellers(s)'
               PROVE  ~Has(wire'[c], s)
    BY DEF OthersQuiet, Has
  <1>1. Covered(s) /\ Tellers(s)' = Tellers(s)
    BY CoverKeeps
  <1> QED BY <1>1 DEF Inv, OthersQuiet

\* A change that only the core of the character or war knows.
LEMMA OwnKnown ==
    ASSUME Inv, NEW o \in Players \cup Wars, news + 1 \in 0..MaxNews,
           last' = [last EXCEPT ![o] = news + 1], fresh' = fresh \cup ({o} \cap Wars),
           o \in Wars => ~Has(queue[Home[o]], o),
           UNCHANGED <<queue, bridge, starts>>, UNCHANGED <<sole, session, authority>>,
           steady' \subseteq steady,
           \A d \in Cores : d # Home[o] => wire'[d] = wire[d],
           \/ wire'[Home[o]] = Append(wire[Home[o]], [about |-> o, no |-> news + 1])
           \/ wire'[Home[o]] = wire[Home[o]] /\ ~Covered(o)'
    PROVE  NewsKnown' /\ QueueCurrent' /\ OthersQuiet'
  <1> DEFINE c == Home[o]
             h == [about |-> o, no |-> news + 1]
  <1>1. /\ c \in Cores /\ o \in Subjects /\ (o \in Players => o \notin Broadcast)
        /\ wire[c] \in Seq(Change \cup {Answer}) /\ h \in Change \cup {Answer}
    BY NewsAssumption DEF Inv, TypeOK, Change, Subjects, Broadcast
  <1>2. last'[o] = news + 1 /\ \A s \in Subjects : s # o => last'[s] = last[s]
    BY <1>1 DEF Inv, TypeOK
  <1>3. ASSUME NEW s
        PROVE  /\ Has(Append(wire[c], h), s) <=> Has(wire[c], s) \/ h.about = s
               /\ h.about = s => EndsWith(Append(wire[c], h), s, h.no)
               /\ \A n : h.about # s /\ EndsWith(wire[c], s, n) => EndsWith(Append(wire[c], h), s, n)
    <2> HIDE DEF h, c
    <2> QED BY <1>1, AppendHolds
  <1>4. h.about = o /\ h.no = news + 1
    OBVIOUS
  <1>5. wire'[c] = Append(wire[c], h) \/ (wire'[c] = wire[c] /\ ~Covered(o)')
    OBVIOUS
  <1>6. o \in Players \cup Wars => Tellers(o) = {c}
    BY NewsAssumption DEF Tellers, Broadcast
  <1>7. ~Has(queue[c], o)
    <2> SUFFICES ASSUME o \in Players, NEW i \in 1..Len(queue[c]) PROVE queue[c][i].about # o
      BY DEF Has
    <2>1. queue[c] \in Seq([about : Broadcast, no : 0..MaxNews])
      BY <1>1 DEF Inv, TypeOK
    <2>2. queue[c][i] \in [about : Broadcast, no : 0..MaxNews]
      BY <2>1, ElementOfSeq
    <2> QED BY <1>1, <2>2
  <1> HIDE DEF h, c
  <1>8. QueueCurrent'
    <2> SUFFICES ASSUME NEW d \in Cores, NEW s \in Broadcast, Has(queue[d], s),
                        s \in Wars => d = Home[s]
                 PROVE  EndsWith(queue[d], s, last'[s])
      BY DEF QueueCurrent, Has, EndsWith
    <2>0. s # o
      BY <1>1, <1>7 DEF c
    <2>1. last'[s] = last[s]
      BY <1>2, <2>0 DEF Subjects
    <2> QED BY <2>1 DEF Inv, QueueCurrent
  <1>9. NewsKnown'
    <2> SUFFICES ASSUME NEW s \in Subjects, Covered(s)'
                 PROVE  /\ \A d \in Tellers(s)' :
                              IF Has(queue'[d], s) THEN EndsWith(queue'[d], s, last'[s])
                              ELSE Has(wire'[d], s) => EndsWith(wire'[d], s, last'[s])
                        /\ (\A d \in Tellers(s)' : ~Has(queue'[d], s) /\ ~Has(wire'[d], s))
                              => (bridge'[s] = last'[s] \/ (s \in Wars /\ bridge'[s] \in starts'))
      BY DEF NewsKnown, Known, Has, EndsWith
    <2>1. /\ Tellers(s)' = Tellers(s) /\ Tellers(s) \subseteq steady'
          /\ s # o => Covered(s)
      BY CoverKeeps DEF Managers
    <2>2. Tellers(s) \subseteq Cores
      BY TellersAreCores DEF Inv
    <2>3. ASSUME s # o
          PROVE  /\ \A d \in Tellers(s) :
                       IF Has(queue[d], s) THEN EndsWith(queue[d], s, last[s])
                       ELSE Has(wire[d], s) => EndsWith(wire[d], s, last[s])
                 /\ (\A d \in Tellers(s) : ~Has(queue[d], s) /\ ~Has(wire[d], s)) => Known(s)
      BY <2>1, <2>3 DEF Inv, NewsKnown
    <2>4. CASE s = o
      <3>1. wire'[c] = Append(wire[c], h) /\ Tellers(s) = {c}
        BY <1>5, <1>6, <2>4
      <3>2. Has(wire'[c], s) /\ EndsWith(wire'[c], s, last'[s])
        BY <1>2, <1>3, <1>4, <2>4, <3>1
      <3> QED BY <1>1, <1>7, <2>1, <2>4, <3>1, <3>2
    <2>5. CASE s # o
      <3>1. \A d \in Cores : Has(wire'[d], s) <=> Has(wire[d], s)
        BY <1>1, <1>3, <1>4, <1>5, <2>5 DEF c
      <3>2. \A d \in Cores : \A n : EndsWith(wire[d], s, n) => EndsWith(wire'[d], s, n)
        BY <1>1, <1>3, <1>4, <1>5, <2>5 DEF c
      <3> QED BY <1>2, <2>1, <2>2, <2>3, <2>5, <3>1, <3>2 DEF Known
    <2> QED BY <2>4, <2>5
  <1>10. \A d \in Cores, s \in Subjects \ Wars :
               Has(wire'[d], s) /\ Covered(s)' => Has(wire[d], s) \/ d \in Tellers(s)
    <2> SUFFICES ASSUME NEW d \in Cores, NEW s \in Subjects, Has(wire'[d], s)
                 PROVE  Has(wire[d], s) \/ d \in Tellers(s)
      OBVIOUS
    <2>1. CASE d = c /\ s = o
      BY <1>6, <2>1
    <2>2. CASE d = c /\ s # o
      BY <1>3, <1>4, <1>5, <2>2
    <2>3. CASE d # c
      BY <2>3 DEF c
    <2> QED BY <2>1, <2>2, <2>3
  <1>11. OthersQuiet'
    BY <1>10, OthersKeep DEF Managers
  <1> QED BY <1>8, <1>9, <1>11

\* The db server tells every core.
LEMMA BroadcastKnown ==
    ASSUME Inv, NEW o \in Broadcast, Broadcasts(o), UNCHANGED <<bridge, sole, session, authority>>,
           UNCHANGED <<steady, wire>>
    PROVE  NewsKnown' /\ QueueCurrent' /\ OthersQuiet'
  <1> DEFINE h == [about |-> o, no |-> news + 1]
             S == [about : Broadcast, no : 0..MaxNews]
  <1>1. h \in S /\ \A d \in Cores : queue[d] \in Seq(S)
    <2>1. news + 1 \in 0..MaxNews
      BY NewsAssumption DEF Inv, TypeOK, Broadcasts, Happens
    <2>2. \A d \in Cores : queue[d] \in Seq(S)
      BY DEF Inv, TypeOK
    <2> QED BY <2>1, <2>2
  <1>2. /\ last'[o] = h.no /\ \A s \in Subjects : s # o => last'[s] = last[s]
        /\ h.about = o /\ starts \subseteq starts' /\ fresh' = fresh \cup ({o} \cap Wars)
    BY DEF Inv, TypeOK, Broadcasts, Happens, Subjects
  <1>3. \A d \in Cores : queue'[d] = Append(queue[d], h)
    BY DEF Broadcasts
  <1> HIDE DEF h, S
  <1>4. ASSUME NEW d \in Cores, NEW s
        PROVE  /\ Has(queue'[d], s) <=> Has(queue[d], s) \/ h.about = s
               /\ h.about = s => EndsWith(queue'[d], s, h.no)
               /\ \A n : h.about # s /\ EndsWith(queue[d], s, n) => EndsWith(queue'[d], s, n)
    <2>1. queue[d] \in Seq(S) /\ h \in S
      BY <1>1
    <2>2. /\ Has(Append(queue[d], h), s) <=> Has(queue[d], s) \/ h.about = s
          /\ h.about = s => EndsWith(Append(queue[d], h), s, h.no)
          /\ \A n : h.about # s /\ EndsWith(queue[d], s, n) => EndsWith(Append(queue[d], h), s, n)
      BY <2>1, AppendHolds
    <2> QED BY <1>3, <2>2
  <1>5. QueueCurrent'
    <2> SUFFICES ASSUME NEW d \in Cores, NEW s \in Broadcast, Has(queue'[d], s),
                        s \in Wars => d = Home[s]
                 PROVE  EndsWith(queue'[d], s, last'[s])
      BY Zenon DEF QueueCurrent, Has, EndsWith
    <2> QED BY <1>2, <1>4 DEF Inv, QueueCurrent, Subjects
  <1>6. NewsKnown'
    <2> SUFFICES ASSUME NEW s \in Subjects, Covered(s)'
                 PROVE  /\ \A d \in Tellers(s)' :
                              IF Has(queue'[d], s) THEN EndsWith(queue'[d], s, last'[s])
                              ELSE Has(wire'[d], s) => EndsWith(wire'[d], s, last'[s])
                        /\ (\A d \in Tellers(s)' : ~Has(queue'[d], s) /\ ~Has(wire'[d], s))
                              => (bridge'[s] = last'[s] \/ (s \in Wars /\ bridge'[s] \in starts'))
      BY DEF NewsKnown, Known, Has, EndsWith
    <2>1. /\ Tellers(s)' = Tellers(s) /\ Tellers(s) \subseteq steady'
          /\ s # o => Covered(s)
      BY <1>2, CoverKeeps DEF Managers
    <2>2. Tellers(s) \subseteq Cores
      BY TellersAreCores DEF Inv
    <2>3. ASSUME s # o
          PROVE  /\ \A d \in Tellers(s) :
                       IF Has(queue[d], s) THEN EndsWith(queue[d], s, last[s])
                       ELSE Has(wire[d], s) => EndsWith(wire[d], s, last[s])
                 /\ (\A d \in Tellers(s) : ~Has(queue[d], s) /\ ~Has(wire[d], s)) => Known(s)
      BY <2>1, <2>3 DEF Inv, NewsKnown
    <2>4. CASE s = o
      <3>1. \A d \in Tellers(s) : Has(queue'[d], s) /\ EndsWith(queue'[d], s, last'[s])
        BY <1>2, <1>4, <2>2, <2>4
      <3>2. Tellers(s) # {}
        <4>1. CASE s \in Shops \cup Members
          BY <4>1 DEF Covered, Tellers, Inv, SoleManager
        <4>2. CASE s \notin Shops \cup Members
          BY <4>2, NewsAssumption DEF Tellers
        <4> QED BY <4>1, <4>2
      <3> QED BY <2>1, <3>1, <3>2
    <2>5. CASE s # o
      BY <1>2, <1>4, <2>1, <2>2, <2>3, <2>5 DEF Known
    <2> QED BY <2>4, <2>5
  <1>7. OthersQuiet'
    BY OthersKeep DEF Managers
  <1> QED BY <1>5, <1>6, <1>7

\* An answer to a request is not news.
LEMMA AnswerKnown ==
    ASSUME Inv, NEW c \in Cores, UNCHANGED <<last, queue, bridge, starts, fresh>>,
           UNCHANGED <<sole, session, authority>>,
           steady' \subseteq steady, \A d \in Cores : d # c => wire'[d] = wire[d],
           wire'[c] = wire[c] \/ wire'[c] = Append(wire[c], Answer)
    PROVE  NewsKnown' /\ QueueCurrent' /\ OthersQuiet'
  <1>1. ASSUME NEW s \in Subjects
        PROVE  /\ Has(wire'[c], s) <=> Has(wire[c], s)
               /\ \A n : EndsWith(wire[c], s, n) => EndsWith(wire'[c], s, n)
    <2>1. wire[c] \in Seq(Change \cup {Answer}) /\ Answer \in Change \cup {Answer}
      BY DEF Inv, TypeOK
    <2>2. Answer.about # s
      BY NewsAssumption DEF Answer
    <2>3. /\ Has(Append(wire[c], Answer), s) <=> Has(wire[c], s) \/ Answer.about = s
          /\ \A n : Answer.about # s /\ EndsWith(wire[c], s, n)
                        => EndsWith(Append(wire[c], Answer), s, n)
      BY <2>1, AppendHolds
    <2> QED BY <2>2, <2>3
  <1>2. QueueCurrent'
    BY DEF Inv, QueueCurrent, Has, EndsWith
  <1>3. NewsKnown'
    <2> SUFFICES ASSUME NEW s \in Subjects, Covered(s)'
                 PROVE  /\ \A d \in Tellers(s)' :
                              IF Has(queue'[d], s) THEN EndsWith(queue'[d], s, last'[s])
                              ELSE Has(wire'[d], s) => EndsWith(wire'[d], s, last'[s])
                        /\ (\A d \in Tellers(s)' : ~Has(queue'[d], s) /\ ~Has(wire'[d], s))
                              => (bridge'[s] = last'[s] \/ (s \in Wars /\ bridge'[s] \in starts'))
      BY DEF NewsKnown, Known, Has, EndsWith
    <2>1. Covered(s) /\ Tellers(s)' = Tellers(s) /\ Tellers(s) \subseteq steady'
      BY CoverKeeps DEF Managers
    <2>2. Tellers(s) \subseteq Cores
      BY TellersAreCores DEF Inv
    <2>3. /\ \A d \in Tellers(s) :
                 IF Has(queue[d], s) THEN EndsWith(queue[d], s, last[s])
                 ELSE Has(wire[d], s) => EndsWith(wire[d], s, last[s])
          /\ (\A d \in Tellers(s) : ~Has(queue[d], s) /\ ~Has(wire[d], s)) => Known(s)
      BY <2>1 DEF Inv, NewsKnown
    <2>4. \A d \in Cores : /\ Has(wire'[d], s) <=> Has(wire[d], s)
                           /\ \A n : EndsWith(wire[d], s, n) => EndsWith(wire'[d], s, n)
      BY <1>1
    <2> QED BY <2>1, <2>2, <2>3, <2>4 DEF Known
  <1>4. OthersQuiet'
    BY <1>1, OthersKeep DEF Managers
  <1> QED BY <1>2, <1>3, <1>4

\* The bridge applies what it hears.
LEMMA ApplyKnown ==
    ASSUME Inv, NEW c \in Cores, Apply(c)
    PROVE  NewsKnown' /\ QueueCurrent' /\ OthersQuiet'
  <1> DEFINE p == Head(wire[c])
  <1>1. /\ wire[c] # <<>> /\ wire'[c] = Tail(wire[c])
        /\ \A d \in Cores : d # c => wire'[d] = wire[d]
        /\ UNCHANGED <<last, queue, starts, fresh>>
        /\ UNCHANGED <<sole, session, authority, steady>>
    BY DEF Apply, Inv, TypeOK, changes, game, link, watch
  <1>2. wire[c] \in Seq(Change \cup {Answer}) /\ p \in Change \cup {Answer}
    <2>1. wire[c] \in Seq(Change \cup {Answer})
      BY DEF Inv, TypeOK
    <2> QED BY <1>1, <2>1, HeadTailProperties
  <1>3. ASSUME NEW s \in Subjects
        PROVE  bridge'[s] = IF p.about = s THEN p.no ELSE bridge[s]
    <2>1. Answer.about # s
      BY NewsAssumption DEF Answer
    <2>2. bridge' = IF p = Answer THEN bridge ELSE [bridge EXCEPT ![p.about] = p.no]
      BY DEF Apply
    <2>3. p # Answer => p.about \in Subjects
      BY <1>2 DEF Change
    <2> HIDE DEF p
    <2> QED BY <2>1, <2>2, <2>3 DEF Inv, TypeOK
  <1>4. ASSUME NEW s
        PROVE  /\ Has(wire[c], s) <=> Has(wire'[c], s) \/ p.about = s
               /\ \A n : EndsWith(wire[c], s, n) =>
                     IF Has(wire'[c], s) THEN EndsWith(wire'[c], s, n)
                     ELSE p.about = s /\ p.no = n
    BY <1>1, <1>2, TailHolds
  <1> HIDE DEF p
  <1>5. QueueCurrent'
    BY <1>1 DEF Inv, QueueCurrent, Has, EndsWith
  <1>6. NewsKnown'
    <2> SUFFICES ASSUME NEW s \in Subjects, Covered(s)'
                 PROVE  /\ \A d \in Tellers(s)' :
                              IF Has(queue'[d], s) THEN EndsWith(queue'[d], s, last'[s])
                              ELSE Has(wire'[d], s) => EndsWith(wire'[d], s, last'[s])
                        /\ (\A d \in Tellers(s)' : ~Has(queue'[d], s) /\ ~Has(wire'[d], s))
                              => (bridge'[s] = last'[s] \/ (s \in Wars /\ bridge'[s] \in starts'))
      BY DEF NewsKnown, Known, Has, EndsWith
    <2>1. Covered(s) /\ Tellers(s)' = Tellers(s) /\ Tellers(s) \subseteq steady'
      BY <1>1, CoverKeeps DEF Managers
    <2>2. Tellers(s) \subseteq Cores
      BY TellersAreCores DEF Inv
    <2>3. /\ \A d \in Tellers(s) :
                 IF Has(queue[d], s) THEN EndsWith(queue[d], s, last[s])
                 ELSE Has(wire[d], s) => EndsWith(wire[d], s, last[s])
          /\ (\A d \in Tellers(s) : ~Has(queue[d], s) /\ ~Has(wire[d], s)) => Known(s)
      BY <2>1 DEF Inv, NewsKnown
    <2>4. ASSUME NEW d \in Tellers(s)
          PROVE  IF Has(queue'[d], s) THEN EndsWith(queue'[d], s, last'[s])
                 ELSE Has(wire'[d], s) => EndsWith(wire'[d], s, last'[s])
      <3>1. CASE d # c
        BY <1>1, <2>2, <2>3, <3>1
      <3>2. CASE d = c
        BY <1>1, <1>4, <2>3, <3>2
      <3> QED BY <3>1, <3>2
    <2>5. ASSUME \A d \in Tellers(s) : ~Has(queue'[d], s) /\ ~Has(wire'[d], s)
          PROVE  bridge'[s] = last'[s] \/ (s \in Wars /\ bridge'[s] \in starts')
      <3>1. CASE p.about = s /\ c \in Tellers(s)
        <4>1. EndsWith(wire[c], s, last[s])
          BY <1>1, <1>4, <2>3, <2>5, <3>1
        <4> QED BY <1>1, <1>3, <1>4, <2>5, <3>1, <4>1
      <3>2. CASE p.about = s /\ c \notin Tellers(s)
        <4>1. s \in Wars
          BY <1>4, <2>1, <3>2 DEF Inv, OthersQuiet
        <4>2. c # Home[s]
          BY <3>2, <4>1, NewsAssumption DEF Tellers
        <4>3. p.no \in starts
          <5>1. AllIn(wire[c], s, starts)
            BY <4>1, <4>2 DEF Inv, OnlyStarts
          <5> QED BY <1>1, <1>2, <3>2, <5>1, AllInHolds DEF p
        <4> QED BY <1>1, <1>3, <3>2, <4>1, <4>3
      <3>3. CASE p.about # s
        <4>1. \A d \in Tellers(s) : ~Has(queue[d], s) /\ ~Has(wire[d], s)
          BY <1>1, <1>4, <2>2, <2>5, <3>3
        <4> QED BY <1>1, <1>3, <2>3, <3>3, <4>1 DEF Known
      <3> QED BY <3>1, <3>2, <3>3
    <2> QED BY <2>1, <2>4, <2>5
  <1>7. OthersQuiet'
    BY <1>1, <1>4, OthersKeep DEF Managers
  <1> QED BY <1>5, <1>6, <1>7

\* The bridge reads the tables.
LEMMA LoadKnown ==
    ASSUME Inv, Load
    PROVE  NewsKnown' /\ QueueCurrent' /\ OthersQuiet' /\ SoleManager' /\ SteadySecure'
  <1>1. /\ UNCHANGED <<last, queue, wire, session, authority>> /\ fresh' = {}
        /\ \A s \in Subjects \ Wars : bridge'[s] = last[s]
        /\ \A c \in Cores : wire[c] = <<>>
        /\ steady' = {c \in Cores : session[c] = "secure"}
        /\ sole' = \E c \in Cores : Managers = {c}
    BY DEF Load, game, link
  <1>2. \A c \in Cores : \A s : ~Has(wire[c], s)
    BY <1>1 DEF Has
  <1>3. QueueCurrent'
    BY <1>1 DEF Inv, QueueCurrent, Has, EndsWith
  <1>4. Managers' = Managers /\ \A s \in Subjects : Tellers(s)' = Tellers(s)
    BY <1>1 DEF Managers, Tellers
  <1>5. OthersQuiet'
    BY <1>1, <1>2 DEF OthersQuiet, Has
  <1>6. ASSUME NEW s \in Subjects \ Wars, NEW c \in Tellers(s)
        PROVE  Has(queue[c], s) => EndsWith(queue[c], s, last[s])
    <2>1. c \in Cores /\ queue[c] \in Seq([about : Broadcast, no : 0..MaxNews])
      BY TellersAreCores DEF Inv, TypeOK
    <2>2. Has(queue[c], s) => s \in Broadcast
      <3> SUFFICES ASSUME NEW i \in 1..Len(queue[c]), queue[c][i].about = s
                   PROVE  s \in Broadcast
        BY DEF Has
      <3>1. queue[c][i] \in [about : Broadcast, no : 0..MaxNews]
        BY <2>1, ElementOfSeq
      <3> QED BY <3>1
    <2> QED BY <2>1, <2>2 DEF Inv, QueueCurrent
  <1>7. \A s \in Subjects : \A c \in Tellers(s) : ~Has(wire[c], s)
    BY <1>2, TellersAreCores DEF Inv
  <1>8. NewsKnown'
    <2> SUFFICES ASSUME NEW s \in Subjects, Covered(s)'
                 PROVE  /\ \A d \in Tellers(s)' :
                              IF Has(queue'[d], s) THEN EndsWith(queue'[d], s, last'[s])
                              ELSE Has(wire'[d], s) => EndsWith(wire'[d], s, last'[s])
                        /\ (\A d \in Tellers(s)' : ~Has(queue'[d], s) /\ ~Has(wire'[d], s))
                              => (bridge'[s] = last'[s] \/ (s \in Wars /\ bridge'[s] \in starts'))
      BY DEF NewsKnown, Known, Has, EndsWith
    <2>1. s \notin Wars
      BY <1>1 DEF Covered
    <2> QED BY <1>1, <1>4, <1>6, <1>7, <2>1
  <1>9. SoleManager' /\ SteadySecure'
    BY <1>1, <1>4 DEF SoleManager, SteadySecure
  <1> QED BY <1>3, <1>5, <1>8, <1>9

-----------------------------------------------------------------------------
\* What SendPacket does: it writes, loses a session's claim to have lost nothing,
\* keeps what IsSyncPacket singles out, or drops it.
LEMMA SendFacts ==
    ASSUME Inv, NEW c \in Cores, NEW p \in Change \cup {Answer}, SendPacket(c, p)
    PROVE  /\ wire' \in [Cores -> Seq(Change \cup {Answer})]
           /\ unp_packets' \in [Cores -> Seq({q \in Change : q.about \in Members \cup Players \cup Wars})]
           /\ steady' \subseteq steady
           /\ \A d \in Cores : d # c => wire'[d] = wire[d] /\ unp_packets'[d] = unp_packets[d]
           /\ session[c] # "none" => unp_packets' = unp_packets
           /\ session[c] # "none" /\ c \in steady' => wire'[c] = Append(wire[c], p)
           /\ wire'[c] = wire[c] \/ (wire'[c] = Append(wire[c], p) /\ session[c] # "none")
           /\ \/ unp_packets' = unp_packets
              \/ /\ session[c] = "none" /\ unp_packets'[c] = Append(unp_packets[c], p)
                 /\ p \in {q \in Change : q.about \in Members \cup Players \cup Wars}
  <1> DEFINE S == {q \in Change : q.about \in Members \cup Players \cup Wars}
  <1>0. wire \in [Cores -> Seq(Change \cup {Answer})] /\ unp_packets \in [Cores -> Seq(S)]
    BY DEF Inv, TypeOK
  <1>1. Append(wire[c], p) \in Seq(Change \cup {Answer})
    BY <1>0, AppendProperties
  <1>2. p \in S => Append(unp_packets[c], p) \in Seq(S)
    <2> HIDE DEF S
    <2> QED BY <1>0, AppendProperties
  <1>3. CASE session[c] # "none" /\ wire' = [wire EXCEPT ![c] = Append(@, p)]
             /\ UNCHANGED <<unp_packets, steady>>
    BY <1>0, <1>1, <1>3
  <1>4. CASE session[c] = "secure" /\ steady' = steady \ {c} /\ UNCHANGED <<wire, unp_packets>>
    BY <1>0, <1>4
  <1>5. CASE session[c] = "none" /\ UNCHANGED <<wire, steady>>
             /\ unp_packets' = IF IsSyncPacket(p)
                               THEN [unp_packets EXCEPT ![c] = Append(@, p)] ELSE unp_packets
    <2>1. IsSyncPacket(p) => p \in S
      <3>1. Answer.about \notin Members \cup Players \cup Wars
        BY NewsAssumption DEF Answer, Subjects, Broadcast
      <3> QED BY <3>1 DEF IsSyncPacket
    <2>2. CASE ~IsSyncPacket(p)
      BY <1>0, <1>5, <2>2
    <2>3. CASE IsSyncPacket(p)
      <3> HIDE DEF S
      <3>1. unp_packets' = [unp_packets EXCEPT ![c] = Append(@, p)]
        BY <1>5, <2>3
      <3>2. unp_packets' \in [Cores -> Seq(S)] /\ unp_packets'[c] = Append(unp_packets[c], p)
        BY <1>0, <1>2, <2>1, <2>3, <3>1
      <3> QED BY <1>0, <1>5, <2>1, <2>3, <3>1, <3>2 DEF S
    <2> QED BY <2>2, <2>3
  <1> QED BY <1>3, <1>4, <1>5 DEF SendPacket

\* A core that sends a packet keeps what is its to keep, and of a war that is elsewhere
\* only its start.
LEMMA KeptKeeps ==
    ASSUME Inv, NEW c \in Cores, NEW p \in Change \cup {Answer}, UNCHANGED <<session, starts>>,
           \A d \in Cores : d # c => wire'[d] = wire[d] /\ unp_packets'[d] = unp_packets[d],
           wire'[c] = wire[c] \/ wire'[c] = Append(wire[c], p),
           \/ unp_packets' = unp_packets
           \/ /\ session[c] = "none" /\ unp_packets'[c] = Append(unp_packets[c], p)
              /\ p \in {q \in Change : q.about \in Members \cup Players \cup Wars},
           p.about \in Players => c = Home[p.about],
           p.about \in Wars => c = Home[p.about] \/ p.no \in starts,
           \A d \in Cores, s \in Wars : AllIn(queue'[d], s, starts)
    PROVE  Kept' /\ OnlyStarts'
  <1> DEFINE S == {q \in Change : q.about \in Members \cup Players \cup Wars}
  <1>1. /\ wire[c] \in Seq(Change \cup {Answer}) /\ unp_packets[c] \in Seq(S)
    BY DEF Inv, TypeOK
  <1>2. Kept'
    <2>1. CASE unp_packets' = unp_packets
      BY <2>1 DEF Inv, Kept, Has
    <2>2. CASE session[c] = "none" /\ unp_packets'[c] = Append(unp_packets[c], p) /\ p \in S
      <3> SUFFICES ASSUME NEW d \in Cores
                   PROVE  /\ session[d] = "secure" => unp_packets'[d] = <<>>
                          /\ \A s \in Players : Has(unp_packets'[d], s) => d = Home[s]
        BY DEF Kept, Has
      <3>1. CASE d # c
        BY <3>1 DEF Inv, Kept
      <3>2. CASE d = c
        <4>1. \A s : Has(Append(unp_packets[c], p), s) <=> Has(unp_packets[c], s) \/ p.about = s
          <5> HIDE DEF S
          <5> QED BY <1>1, <2>2, AppendHolds
        <4> QED BY <2>2, <3>2, <4>1 DEF Inv, Kept
      <3> QED BY <3>1, <3>2
    <2> QED BY <2>1, <2>2
  <1>3. OnlyStarts'
    <2> SUFFICES ASSUME NEW d \in Cores, NEW s \in Wars
                 PROVE  /\ AllIn(queue'[d], s, starts')
                        /\ d # Home[s] => /\ AllIn(wire'[d], s, starts')
                                          /\ AllIn(unp_packets'[d], s, starts')
      BY DEF OnlyStarts, AllIn
    <2>1. d # Home[s] => AllIn(wire[d], s, starts) /\ AllIn(unp_packets[d], s, starts)
      BY DEF Inv, OnlyStarts
    <2>2. CASE d # c
      BY <2>1, <2>2
    <2>3. ASSUME d = c, d # Home[s]
          PROVE  AllIn(wire'[c], s, starts) /\ AllIn(unp_packets'[c], s, starts)
      <3>1. p.about = s => p.no \in starts
        BY <2>3
      <3>2. AllIn(Append(wire[c], p), s, starts)
        BY <1>1, <2>1, <2>3, <3>1, AllInHolds
      <3>3. p \in S => AllIn(Append(unp_packets[c], p), s, starts)
        <4> HIDE DEF S
        <4> QED BY <1>1, <2>1, <2>3, <3>1, AllInHolds
      <3>4. AllIn(wire'[c], s, starts)
        BY <2>1, <2>3, <3>2
      <3>5. AllIn(unp_packets'[c], s, starts)
        BY <2>1, <2>3, <3>3
      <3> QED BY <3>4, <3>5
    <2> QED BY <2>2, <2>3
  <1> QED BY <1>2, <1>3

\* A step that adds to nothing leaves the starts as they are.
LEMMA StartsKeep ==
    ASSUME Inv, UNCHANGED starts,
           \A c \in Cores : /\ queue'[c] \in {queue[c], <<>>} /\ wire'[c] \in {wire[c], <<>>}
                            /\ unp_packets'[c] \in {unp_packets[c], <<>>}
    PROVE  OnlyStarts'
  <1>1. \A s : AllIn(<<>>, s, starts)
    BY DEF AllIn
  <1> SUFFICES ASSUME NEW d \in Cores, NEW s \in Wars
               PROVE  /\ AllIn(queue'[d], s, starts)
                      /\ d # Home[s] => /\ AllIn(wire'[d], s, starts)
                                        /\ AllIn(unp_packets'[d], s, starts)
    BY DEF OnlyStarts, AllIn
  <1> QED BY <1>1 DEF Inv, OnlyStarts

-----------------------------------------------------------------------------
\* Nothing has happened at first.
LEMMA InitInv == Init => Inv
  <1> SUFFICES ASSUME Init PROVE Inv
    OBVIOUS
  <1>1. TypeOK
    <2>1. news \in 0..MaxNews /\ sessions \in 0..MaxSessions /\ 0 \in 0..MaxNews
      BY NewsAssumption DEF Init
    <2>2. request \in Request
      BY DEF Init, Request
    <2>3. /\ queue \in [Cores -> Seq([about : Broadcast, no : 0..MaxNews])]
          /\ wire \in [Cores -> Seq(Change \cup {Answer})]
      BY DEF Init
    <2>4. unp_packets \in [Cores -> Seq({p \in Change : p.about \in Members \cup Players \cup Wars})]
      BY DEF Init
    <2>5. last \in [Subjects -> 0..MaxNews] /\ bridge \in [Subjects -> 0..MaxNews]
      BY <2>1 DEF Init
    <2>6. /\ starts \subseteq 0..MaxNews /\ fresh \subseteq Wars
          /\ authority \subseteq Cores /\ steady \subseteq Cores /\ sole \in BOOLEAN
          /\ session \in [Cores -> {"none", "clear", "secure"}]
      BY DEF Init
    <2> QED BY <2>1, <2>2, <2>3, <2>4, <2>5, <2>6 DEF TypeOK
  <1>2. \A c \in Cores : \A s : ~Has(queue[c], s) /\ ~Has(wire[c], s) /\ ~Has(unp_packets[c], s)
    BY DEF Init, Has
  <1>3. QueueCurrent /\ SteadySecure /\ SoleManager
    BY <1>2 DEF Init, QueueCurrent, SteadySecure, SoleManager
  <1>4. NewsKnown
    <2> SUFFICES ASSUME NEW s \in Subjects
                 PROVE  /\ \A c \in Tellers(s) : ~Has(queue[c], s) /\ ~Has(wire[c], s)
                        /\ bridge[s] = last[s]
      BY DEF NewsKnown, Known
    <2> QED BY <1>1, <1>2, TellersAreCores DEF Init
  <1>5. OthersQuiet /\ Kept /\ OnlyStarts
    BY <1>2 DEF OthersQuiet, Kept, OnlyStarts, AllIn, Has, Init
  <1> QED BY <1>1, <1>3, <1>4, <1>5 DEF Inv

\* The request that goes with a session leaves a request.
LEMMA ForgetType ==
    ASSUME TypeOK, NEW c, Forget(c) PROVE request' \in Request
  BY DEF TypeOK, Forget, Request

\* session_start
LEMMA SessionStartInv ==
    ASSUME Inv, NEW c \in Cores, SessionStart(c) PROVE Inv'
  <1>1. /\ session[c] = "none" /\ session' = [session EXCEPT ![c] = "clear"]
        /\ sole' = (sole /\ c \notin authority) /\ sessions' = sessions + 1
        /\ UNCHANGED <<last, queue, news, starts, fresh, authority, wire, unp_packets>>
        /\ UNCHANGED <<bridge, request, steady>>
    BY DEF SessionStart, game, changes
  <1>2. TypeOK'
    <2>1. sessions' \in 0..MaxSessions
      BY NewsAssumption DEF SessionStart, Inv, TypeOK
    <2> QED BY <1>1, <2>1 DEF Inv, TypeOK
  <1>3. sole' => sole /\ Managers' = Managers
    BY <1>1 DEF Managers, Inv, TypeOK
  <1>4. NewsKnown'
    BY <1>1, <1>3, UntouchedKnown
  <1>5. OthersQuiet'
    BY <1>1, <1>3, OthersKeep
  <1>6. QueueCurrent' /\ SoleManager'
    BY <1>1, <1>3 DEF Inv, QueueCurrent, SoleManager, Has, EndsWith
  <1>7. SteadySecure' /\ Kept'
    BY <1>1 DEF Inv, TypeOK, SteadySecure, Kept, Has
  <1>8. OnlyStarts'
    BY <1>1, StartsKeep
  <1> QED BY <1>2, <1>4, <1>5, <1>6, <1>7, <1>8 DEF Inv

\* The buffer is sent when encryption is enabled: by a core whose session the bridge
\* did not count on.
LEMMA OnEnabledEncInv ==
    ASSUME Inv, NEW c \in Cores, OnEnabledEnc(c) PROVE Inv'
  <1> DEFINE S == {p \in Change : p.about \in Members \cup Players \cup Wars}
             u == unp_packets[c]
  <1>1. /\ session[c] = "clear" /\ session' = [session EXCEPT ![c] = "secure"]
        /\ wire' = [wire EXCEPT ![c] = @ \o u]
        /\ unp_packets' = [unp_packets EXCEPT ![c] = <<>>]
        /\ sole' = (sole /\ \A s \in Members : ~Has(u, s))
        /\ UNCHANGED <<last, queue, news, starts, fresh, authority, sessions>>
        /\ UNCHANGED <<bridge, request, steady>>
    BY DEF OnEnabledEnc, game, changes
  <1>2. /\ wire[c] \in Seq(Change \cup {Answer}) /\ u \in Seq(S) /\ u \in Seq(Change \cup {Answer})
    <2>1. u \in Seq(S) /\ wire[c] \in Seq(Change \cup {Answer})
      BY DEF Inv, TypeOK
    <2>2. S \subseteq Change \cup {Answer}
      OBVIOUS
    <2> HIDE DEF S, u
    <2> QED BY <2>1, <2>2, SeqMonotonic
  <1>3. wire' \in [Cores -> Seq(Change \cup {Answer})]
    <2>1. wire[c] \o u \in Seq(Change \cup {Answer})
      <3> HIDE DEF u
      <3> QED BY <1>2, ConcatProperties
    <2> QED BY <1>1, <2>1 DEF Inv, TypeOK
  <1>4. TypeOK'
    <2>1. unp_packets' \in [Cores -> Seq(S)]
      <3>1. unp_packets \in [Cores -> Seq(S)]
        BY DEF Inv, TypeOK
      <3> HIDE DEF S
      <3> QED BY <1>1, <3>1, EmptySeq
    <2>2. session' \in [Cores -> {"none", "clear", "secure"}]
      BY <1>1 DEF Inv, TypeOK
    <2> QED BY <1>1, <1>3, <2>1, <2>2 DEF Inv, TypeOK
  <1>5. Managers' = Managers
    BY <1>1 DEF Managers, Inv, TypeOK
  <1>6. c \notin steady
    BY <1>1 DEF Inv, SteadySecure
  <1>7. NewsKnown'
    <2>1. \A d \in steady' : queue'[d] = queue[d] /\ wire'[d] = wire[d]
      BY <1>1, <1>6 DEF Inv, TypeOK
    <2> QED BY <1>1, <1>5, <2>1, UntouchedKnown
  <1>8. OthersQuiet'
    <2> SUFFICES ASSUME NEW d \in Cores, NEW s \in Subjects \ Wars, Has(wire'[d], s),
                        Covered(s)'
                 PROVE  Has(wire[d], s) \/ d \in Tellers(s)
      BY <1>1, <1>5, OthersKeep
    <2>1. CASE d # c
      BY <1>1, <2>1 DEF Inv, TypeOK
    <2>2. CASE d = c
      <3>1. wire'[c] = wire[c] \o u
        BY <1>1 DEF Inv, TypeOK
      <3>2. Has(wire[c], s) \/ Has(u, s)
        <4> HIDE DEF u
        <4> QED BY <1>2, <2>2, <3>1, ConcatHolds
      <3>3. Has(u, s) => s \in Members \cup Players \cup Wars
        BY <1>2 DEF Has
      <3>4. ~Has(u, s)
        <4>1. CASE s \in Members
          BY <1>1, <4>1 DEF Covered
        <4>2. CASE s \in Players /\ Has(u, s)
          <5>1. c = Home[s]
            BY <4>2 DEF Inv, Kept
          <5>2. s \notin Shops \cup Members \cup Guilds
            BY <4>2, NewsAssumption DEF Broadcast
          <5>3. c \in steady'
            BY <5>1, <5>2 DEF Covered, Tellers
          <5> QED BY <1>1, <1>6, <5>3
        <4> QED BY <3>3, <4>1, <4>2
      <3> QED BY <2>2, <3>2, <3>4
    <2> QED BY <2>1, <2>2
  <1>9. QueueCurrent' /\ SoleManager' /\ SteadySecure'
    <2>1. QueueCurrent'
      BY <1>1 DEF Inv, QueueCurrent, Has, EndsWith
    <2>2. SoleManager'
      BY <1>1, <1>5 DEF Inv, SoleManager
    <2>3. SteadySecure'
      BY <1>1, <1>6 DEF Inv, TypeOK, SteadySecure
    <2> QED BY <2>1, <2>2, <2>3
  <1>10. Kept'
    BY <1>1 DEF Inv, TypeOK, Kept, Has
  <1>11. OnlyStarts'
    <2> SUFFICES ASSUME NEW d \in Cores, NEW s \in Wars
                 PROVE  /\ AllIn(queue'[d], s, starts)
                        /\ d # Home[s] => /\ AllIn(wire'[d], s, starts)
                                          /\ AllIn(unp_packets'[d], s, starts)
      BY <1>1 DEF OnlyStarts, AllIn
    <2>1. /\ AllIn(queue[d], s, starts)
          /\ d # Home[s] => AllIn(wire[d], s, starts) /\ AllIn(unp_packets[d], s, starts)
      BY DEF Inv, OnlyStarts
    <2>2. CASE d # c
      BY <1>1, <2>1, <2>2 DEF Inv, TypeOK
    <2>3. CASE d = c
      <3>1. wire'[c] = wire[c] \o u /\ unp_packets'[c] = <<>>
        BY <1>1 DEF Inv, TypeOK
      <3>2. d # Home[s] => AllIn(wire[c] \o u, s, starts)
        <4>1. d # Home[s] => AllIn(wire[c], s, starts) /\ AllIn(u, s, starts)
          BY <2>1, <2>3
        <4> HIDE DEF u
        <4> QED BY <1>2, <4>1, AllInHolds
      <3>3. AllIn(<<>>, s, starts)
        BY DEF AllIn
      <3> QED BY <1>1, <2>1, <2>3, <3>1, <3>2, <3>3
    <2> QED BY <2>2, <2>3
  <1> QED BY <1>4, <1>7, <1>8, <1>9, <1>10, <1>11 DEF Inv

\* A session ends.
LEMMA OnDisconnectInv ==
    ASSUME Inv, NEW c \in Cores, OnDisconnect(c) PROVE Inv'
  <1>1. /\ session[c] # "none" /\ session' = [session EXCEPT ![c] = "none"]
        /\ wire' = [wire EXCEPT ![c] = <<>>]
        /\ steady' = steady \ {c} /\ sole' = (sole /\ c \notin authority)
        /\ UNCHANGED <<last, queue, news, starts, fresh, authority, sessions, unp_packets, bridge>>
    BY DEF OnDisconnect, game, changes
  <1>2. TypeOK'
    <2>1. request' \in Request
      BY ForgetType DEF OnDisconnect, Inv
    <2>2. wire' \in [Cores -> Seq(Change \cup {Answer})]
      BY <1>1, EmptySeq DEF Inv, TypeOK
    <2>3. session' \in [Cores -> {"none", "clear", "secure"}]
      BY <1>1 DEF Inv, TypeOK
    <2> QED BY <1>1, <2>1, <2>2, <2>3 DEF Inv, TypeOK
  <1>3. sole' => sole /\ Managers' = Managers
    BY <1>1 DEF Managers, Inv, TypeOK
  <1>4. NewsKnown'
    <2>1. \A d \in steady' : queue'[d] = queue[d] /\ wire'[d] = wire[d]
      BY <1>1 DEF Inv, TypeOK
    <2> QED BY <1>1, <1>3, <2>1, UntouchedKnown
  <1>5. OthersQuiet'
    <2>1. \A d \in Cores, s \in Subjects : Has(wire'[d], s) => Has(wire[d], s)
      BY <1>1 DEF Has, Inv, TypeOK
    <2> QED BY <1>1, <1>3, <2>1, OthersKeep
  <1>6. QueueCurrent' /\ SoleManager'
    BY <1>1, <1>3 DEF Inv, QueueCurrent, SoleManager, Has, EndsWith
  <1>7. SteadySecure'
    BY <1>1 DEF Inv, TypeOK, SteadySecure
  <1>8. Kept'
    <2> SUFFICES ASSUME NEW d \in Cores
                 PROVE  /\ session'[d] = "secure" => unp_packets[d] = <<>>
                        /\ \A s \in Players : Has(unp_packets[d], s) => d = Home[s]
      BY <1>1 DEF Kept, Has
    <2>1. session'[d] = "secure" => session[d] = "secure"
      BY <1>1 DEF Inv, TypeOK
    <2> QED BY <2>1 DEF Inv, Kept
  <1>9. OnlyStarts'
    <2>1. \A d \in Cores : wire'[d] \in {wire[d], <<>>}
      BY <1>1 DEF Inv, TypeOK
    <2> QED BY <1>1, <2>1, StartsKeep
  <1> QED BY <1>2, <1>4, <1>5, <1>6, <1>7, <1>8, <1>9 DEF Inv

\* A core starts again.
LEMMA RestartInv ==
    ASSUME Inv, NEW c \in Cores, Restart(c) PROVE Inv'
  <1>1. /\ session[c] = "none"
        /\ queue' = [queue EXCEPT ![c] = <<>>]
        /\ unp_packets' = [unp_packets EXCEPT ![c] = <<>>]
        /\ authority' = authority \ {c}
        /\ UNCHANGED <<last, news, starts, fresh, session, sessions, wire>>
        /\ UNCHANGED <<bridge, request, steady, sole>>
    BY DEF Restart, changes, link, watch
  <1>2. TypeOK'
    <2>1. queue' \in [Cores -> Seq([about : Broadcast, no : 0..MaxNews])]
      BY <1>1, EmptySeq DEF Inv, TypeOK
    <2>2. unp_packets' \in [Cores -> Seq({p \in Change : p.about \in Members \cup Players \cup Wars})]
      BY <1>1, EmptySeq DEF Inv, TypeOK
    <2> QED BY <1>1, <2>1, <2>2 DEF Inv, TypeOK
  <1>3. Managers' = Managers
    BY <1>1 DEF Managers
  <1>4. NewsKnown'
    <2>1. \A d \in steady' : queue'[d] = queue[d] /\ wire'[d] = wire[d]
      BY <1>1 DEF Inv, TypeOK, SteadySecure
    <2> QED BY <1>1, <1>3, <2>1, UntouchedKnown
  <1>5. OthersQuiet'
    BY <1>1, <1>3, OthersKeep
  <1>6. QueueCurrent'
    <2> SUFFICES ASSUME NEW d \in Cores, NEW s \in Broadcast, Has(queue'[d], s),
                        s \in Wars => d = Home[s]
                 PROVE  EndsWith(queue'[d], s, last'[s])
      BY Zenon DEF QueueCurrent, Has, EndsWith
    <2>1. d # c
      BY <1>1 DEF Inv, TypeOK, Has
    <2>2. queue'[d] = queue[d]
      BY <1>1, <2>1 DEF Inv, TypeOK
    <2> QED BY <1>1, <2>2 DEF Inv, QueueCurrent
  <1>7. SteadySecure' /\ SoleManager'
    BY <1>1, <1>3 DEF Inv, SteadySecure, SoleManager
  <1>8. Kept'
    <2> SUFFICES ASSUME NEW d \in Cores
                 PROVE  /\ session[d] = "secure" => unp_packets'[d] = <<>>
                        /\ \A s \in Players : Has(unp_packets'[d], s) => d = Home[s]
      BY <1>1, Zenon DEF Kept, Has
    <2>1. unp_packets'[d] = IF d = c THEN <<>> ELSE unp_packets[d]
      BY <1>1 DEF Inv, TypeOK
    <2>2. \A s : ~Has(<<>>, s)
      BY DEF Has
    <2> QED BY <2>1, <2>2 DEF Inv, Kept
  <1>9. OnlyStarts'
    <2>1. \A d \in Cores : /\ queue'[d] \in {queue[d], <<>>}
                           /\ unp_packets'[d] \in {unp_packets[d], <<>>}
      BY <1>1 DEF Inv, TypeOK
    <2> QED BY <1>1, <2>1, StartsKeep
  <1> QED BY <1>2, <1>4, <1>5, <1>6, <1>7, <1>8, <1>9 DEF Inv

\* SetAuthority
LEMMA SetAuthorityInv ==
    ASSUME Inv, NEW c \in Cores, SetAuthority(c) PROVE Inv'
  <1>1. /\ authority' \in {authority \cup {c}, authority \ {c}}
        /\ sole' = (sole /\ authority' = authority)
        /\ UNCHANGED <<last, queue, news, starts, fresh, session, sessions, wire>>
        /\ UNCHANGED <<unp_packets, bridge, request, steady>>
    BY DEF SetAuthority, game, changes, link
  <1>2. TypeOK'
    BY <1>1 DEF Inv, TypeOK
  <1>3. sole' => sole /\ Managers' = Managers
    BY <1>1 DEF Managers
  <1>4. NewsKnown'
    BY <1>1, <1>3, UntouchedKnown
  <1>5. OthersQuiet'
    BY <1>1, <1>3, OthersKeep
  <1>6. QueueCurrent' /\ SteadySecure' /\ SoleManager'
    BY <1>1, <1>3 DEF Inv, QueueCurrent, SoleManager, SteadySecure, Has, EndsWith
  <1>7. Kept' /\ OnlyStarts'
    BY <1>1, StartsKeep DEF Inv, Kept, Has
  <1> QED BY <1>2, <1>4, <1>5, <1>6, <1>7 DEF Inv

\* A core takes the next message of the db server and sends it, or has no reason to.
LEMMA DbMessageInv ==
    ASSUME Inv, NEW c \in Cores, DbMessage(c) PROVE Inv'
  <1> DEFINE h == Head(queue[c])
  <1>1. /\ queue[c] # <<>> /\ queue' = [queue EXCEPT ![c] = Tail(@)]
        /\ UNCHANGED <<last, news, starts, fresh, authority, session, sessions>>
        /\ UNCHANGED <<bridge, request, sole>>
        /\ \/ h.about \in Shops \cup Members /\ c \in authority /\ SendPacket(c, h)
           \/ h.about \in Shops \cup Members /\ c \notin authority /\ Skip
           \/ Withhold(c)
           \/ h.about \in Guilds \cup Wars /\ SendPacket(c, h)
    BY DEF DbMessage, RecvShopDBPacket, AddMember, SetWarData, StartWar, NextMessage, changes, link,
           sendShop, sendGuildJoin, sendGuildStats, sendGuildWar, IsCoreP2PManager
  <1>2. h \in Change /\ queue' \in [Cores -> Seq([about : Broadcast, no : 0..MaxNews])]
    <2>1. queue[c] \in Seq([about : Broadcast, no : 0..MaxNews])
      BY DEF Inv, TypeOK
    <2>2. /\ h \in [about : Broadcast, no : 0..MaxNews]
          /\ Tail(queue[c]) \in Seq([about : Broadcast, no : 0..MaxNews])
      BY <1>1, <2>1, HeadTailProperties
    <2> QED BY <1>1, <2>2 DEF Inv, TypeOK, Change, Subjects
  <1>0. /\ \A d \in Cores, s \in Wars : AllIn(queue'[d], s, starts)
        /\ h.about \in Wars => h.no \in starts
    <2>1. \A d \in Cores, s \in Wars : AllIn(queue[d], s, starts)
      BY DEF Inv, OnlyStarts
    <2>2. queue[c] \in Seq([about : Broadcast, no : 0..MaxNews])
      BY DEF Inv, TypeOK
    <2>3. \A s \in Wars : AllIn(Tail(queue[c]), s, starts) /\ (h.about = s => h.no \in starts)
      BY <1>1, <2>1, <2>2, AllInHolds
    <2> QED BY <1>1, <2>1, <2>3 DEF Inv, TypeOK
  <1> HIDE DEF h
  <1>3. h.about \in Shops \cup Members => Tellers(h.about) = Managers
    BY DEF Tellers
  <1>4. h.about \in Guilds => Tellers(h.about) = Cores
    BY NewsAssumption DEF Tellers
  <1>5. CASE \/ h.about \in Shops \cup Members /\ c \notin authority /\ Skip
             \/ Withhold(c)
    <2>1. UNCHANGED <<wire, unp_packets>> /\ steady' \subseteq steady
      BY <1>5 DEF Skip, Withhold
    <2>2. c \in steady' => c \notin Tellers(h.about)
      BY <1>3, <1>5 DEF Managers, Withhold
    <2>3. NewsKnown' /\ QueueCurrent'
      BY <1>1, <2>1, <2>2, TakenKnown DEF h
    <2>4. OthersQuiet'
      BY <1>1, <2>1, OthersKeep DEF Managers
    <2>5. TypeOK'
      BY <1>1, <1>2, <2>1 DEF Inv, TypeOK
    <2>6. SteadySecure' /\ SoleManager' /\ Kept'
      BY <1>1, <2>1 DEF Inv, SteadySecure, SoleManager, Managers, Kept, Has
    <2>7. OnlyStarts'
      BY <1>0, <1>1, <2>1 DEF Inv, OnlyStarts, AllIn
    <2> QED BY <2>3, <2>4, <2>5, <2>6, <2>7 DEF Inv
  <1>6. CASE /\ h.about \in Guilds \cup Wars \/ (h.about \in Shops \cup Members /\ c \in authority)
             /\ SendPacket(c, h)
    <2>1. /\ wire' \in [Cores -> Seq(Change \cup {Answer})]
          /\ unp_packets' \in [Cores -> Seq({q \in Change : q.about \in Members \cup Players \cup Wars})]
          /\ steady' \subseteq steady
          /\ \A d \in Cores : d # c => wire'[d] = wire[d] /\ unp_packets'[d] = unp_packets[d]
          /\ session[c] # "none" /\ c \in steady' => wire'[c] = Append(wire[c], h)
          /\ wire'[c] = wire[c] \/ (wire'[c] = Append(wire[c], h) /\ session[c] # "none")
          /\ \/ unp_packets' = unp_packets
             \/ /\ session[c] = "none" /\ unp_packets'[c] = Append(unp_packets[c], h)
                /\ h \in {q \in Change : q.about \in Members \cup Players \cup Wars}
      BY <1>2, <1>6, SendFacts
    <2>2. c \in steady' => session[c] # "none"
      BY <2>1 DEF Inv, SteadySecure
    <2>3. NewsKnown' /\ QueueCurrent'
      BY <1>1, <2>1, <2>2, TakenKnown DEF h
    <2>4. OthersQuiet'
      <3> SUFFICES ASSUME NEW d \in Cores, NEW s \in Subjects \ Wars, Has(wire'[d], s)
                   PROVE  Has(wire[d], s) \/ d \in Tellers(s)
        BY <1>1, <2>1, OthersKeep DEF Managers
      <3>1. CASE wire'[d] = wire[d]
        BY <3>1
      <3>2. CASE d = c /\ wire'[c] = Append(wire[c], h) /\ session[c] # "none"
        <4>1. Has(Append(wire[c], h), s) <=> Has(wire[c], s) \/ h.about = s
          <5>1. wire[c] \in Seq(Change \cup {Answer}) /\ h \in Change \cup {Answer}
            BY <1>2 DEF Inv, TypeOK
          <5> QED BY <5>1, AppendHolds
        <4>2. h.about \notin Wars => c \in Tellers(h.about)
          BY <1>3, <1>4, <1>6, <3>2 DEF Managers
        <4> QED BY <3>2, <4>1, <4>2
      <3> QED BY <2>1, <3>1, <3>2
    <2>5. TypeOK'
      BY <1>1, <1>2, <2>1 DEF Inv, TypeOK
    <2>6. SteadySecure' /\ SoleManager'
      BY <1>1, <2>1 DEF Inv, SteadySecure, SoleManager, Managers
    <2>7. Kept' /\ OnlyStarts'
      <3>1. h.about \notin Players
        BY <1>6, NewsAssumption DEF Broadcast
      <3> QED BY <1>0, <1>1, <1>2, <2>1, <3>1, KeptKeeps
    <2> QED BY <2>3, <2>4, <2>5, <2>6, <2>7 DEF Inv
  <1> QED BY <1>1, <1>5, <1>6

\* What only one core knows.
LEMMA OwnInv ==
    ASSUME Inv, PlayerCreateSuccess \/ IncMember PROVE Inv'
  <1>1. PICK o \in Players \cup Wars :
            /\ Happens(o) /\ (o \in Wars => ~Has(queue[Home[o]], o))
            /\ \/ o \in Players /\ ~IsCoreP2PManager(Home[o]) /\ Skip
               \/ /\ o \in Wars \/ IsCoreP2PManager(Home[o])
                  /\ SendPacket(Home[o], [about |-> o, no |-> news + 1])
    <2>1. CASE PlayerCreateSuccess
      BY <2>1, NewsAssumption DEF PlayerCreateSuccess, sendCharacterCreate, Broadcast
    <2>2. CASE IncMember
      BY <2>2 DEF IncMember, sendGuildWar
    <2> QED BY <2>1, <2>2
  <1>2. UNCHANGED <<queue, starts, authority, session, sessions>> /\ UNCHANGED <<bridge, request, sole>>
    BY DEF PlayerCreateSuccess, IncMember, link
  <1> DEFINE c == Home[o]
             h == [about |-> o, no |-> news + 1]
  <1>3. /\ c \in Cores /\ h \in Change /\ h.about = o /\ o \in Subjects
        /\ news + 1 \in 0..MaxNews /\ news' = news + 1 /\ last' = [last EXCEPT ![o] = news + 1]
        /\ fresh' = fresh \cup ({o} \cap Wars)
    <2>1. c \in Cores /\ o \in Subjects
      BY NewsAssumption DEF Subjects, Broadcast
    <2>2. news + 1 \in 0..MaxNews
      BY <1>1, NewsAssumption DEF Happens, Inv, TypeOK
    <2> QED BY <1>1, <2>1, <2>2 DEF Happens, Change
  <1>4. last' \in [Subjects -> 0..MaxNews]
    BY <1>3 DEF Inv, TypeOK
  <1>5. /\ wire' \in [Cores -> Seq(Change \cup {Answer})]
        /\ unp_packets' \in [Cores -> Seq({q \in Change : q.about \in Members \cup Players \cup Wars})]
        /\ steady' \subseteq steady
        /\ \A d \in Cores : d # c => wire'[d] = wire[d] /\ unp_packets'[d] = unp_packets[d]
        /\ wire'[c] = Append(wire[c], h) \/ (wire'[c] = wire[c] /\ ~Covered(o)')
        /\ \/ unp_packets' = unp_packets
           \/ /\ session[c] = "none" /\ unp_packets'[c] = Append(unp_packets[c], h)
              /\ h \in {q \in Change : q.about \in Members \cup Players \cup Wars}
    <2>1. CASE o \in Players /\ ~IsCoreP2PManager(c) /\ Skip
      <3>1. UNCHANGED <<wire, unp_packets, steady>>
        BY <2>1 DEF Skip
      <3>2. ~Covered(o)'
        BY <1>2, <2>1 DEF Covered, Managers, IsCoreP2PManager
      <3> QED BY <3>1, <3>2 DEF Inv, TypeOK
    <2>2. CASE SendPacket(c, h)
      <3> HIDE DEF h, c
      <3>1. /\ wire' \in [Cores -> Seq(Change \cup {Answer})]
            /\ unp_packets' \in [Cores -> Seq({q \in Change : q.about \in Members \cup Players \cup Wars})]
            /\ steady' \subseteq steady
            /\ \A d \in Cores : d # c => wire'[d] = wire[d] /\ unp_packets'[d] = unp_packets[d]
            /\ session[c] # "none" /\ c \in steady' => wire'[c] = Append(wire[c], h)
            /\ wire'[c] = wire[c] \/ wire'[c] = Append(wire[c], h)
            /\ \/ unp_packets' = unp_packets
               \/ /\ session[c] = "none" /\ unp_packets'[c] = Append(unp_packets[c], h)
                  /\ h \in {q \in Change : q.about \in Members \cup Players \cup Wars}
        BY <1>3, <2>2, SendFacts
      <3>2. c \in steady' => session[c] # "none"
        BY <3>1 DEF Inv, SteadySecure
      <3>3. Covered(o)' => c \in steady'
        BY NewsAssumption DEF Covered, Tellers, Broadcast, c
      <3> QED BY <3>1, <3>2, <3>3
    <2> QED BY <1>1, <2>1, <2>2
  <1>6. NewsKnown' /\ QueueCurrent' /\ OthersQuiet'
    BY <1>1, <1>2, <1>3, <1>5, OwnKnown
  <1>7. TypeOK'
    BY <1>2, <1>3, <1>4, <1>5 DEF Inv, TypeOK
  <1>8. SteadySecure' /\ SoleManager'
    BY <1>2, <1>5 DEF Inv, SteadySecure, SoleManager, Managers
  <1>9. Kept' /\ OnlyStarts'
    <2>1. c = Home[h.about]
      BY <1>3
    <2>2. \A d \in Cores, s \in Wars : AllIn(queue'[d], s, starts)
      BY <1>2 DEF Inv, OnlyStarts
    <2> HIDE DEF h, c
    <2> QED BY <1>2, <1>3, <1>5, <2>1, <2>2, KeptKeeps
  <1> QED BY <1>6, <1>7, <1>8, <1>9 DEF Inv

\* The db server tells of a change, unasked or asked.
LEMMA BroadcastInv ==
    ASSUME Inv, NEW o \in Broadcast, Broadcasts(o), UNCHANGED <<authority, session, sessions>>,
           UNCHANGED <<wire, unp_packets, bridge>>, UNCHANGED <<steady, sole>>,
           request' \in Request
    PROVE  Inv'
  <1> DEFINE S == [about : Broadcast, no : 0..MaxNews]
             h == [about |-> o, no |-> news + 1]
  <1>1. NewsKnown' /\ QueueCurrent' /\ OthersQuiet'
    BY BroadcastKnown
  <1>2. news' \in 0..MaxNews /\ last' \in [Subjects -> 0..MaxNews] /\ news + 1 \in 0..MaxNews
    <2>1. news + 1 \in 0..MaxNews
      BY NewsAssumption DEF Broadcasts, Happens, Inv, TypeOK
    <2>2. last' = [last EXCEPT ![o] = news + 1] /\ news' = news + 1
      BY DEF Broadcasts, Happens
    <2> QED BY <2>1, <2>2 DEF Inv, TypeOK
  <1>3. /\ starts' = IF o \in Wars THEN starts \cup {news + 1} ELSE starts
        /\ starts' \subseteq 0..MaxNews /\ fresh' \subseteq Wars
    BY <1>2 DEF Broadcasts, Happens, Inv, TypeOK
  <1>4. queue' \in [Cores -> Seq(S)]
    <2>1. h \in S /\ \A d \in Cores : queue[d] \in Seq(S)
      BY <1>2 DEF Inv, TypeOK
    <2>2. queue' = [d \in Cores |-> Append(queue[d], h)]
      BY DEF Broadcasts
    <2> HIDE DEF S, h
    <2>3. \A d \in Cores : Append(queue[d], h) \in Seq(S)
      BY <2>1, AppendProperties
    <2> QED BY <2>2, <2>3
  <1>5. TypeOK'
    BY <1>2, <1>3, <1>4 DEF Inv, TypeOK
  <1>6. SteadySecure' /\ SoleManager' /\ Kept'
    BY DEF Inv, SteadySecure, SoleManager, Managers, Kept, Has
  <1>7. OnlyStarts'
    <2> SUFFICES ASSUME NEW d \in Cores, NEW s \in Wars
                 PROVE  /\ AllIn(queue'[d], s, starts')
                        /\ d # Home[s] => /\ AllIn(wire[d], s, starts')
                                          /\ AllIn(unp_packets[d], s, starts')
      BY DEF OnlyStarts, AllIn
    <2>1. /\ AllIn(queue[d], s, starts')
          /\ d # Home[s] => AllIn(wire[d], s, starts') /\ AllIn(unp_packets[d], s, starts')
      BY <1>3 DEF Inv, OnlyStarts, AllIn
    <2>2. queue'[d] = Append(queue[d], h) /\ (h.about = s => h.no \in starts')
      BY <1>3 DEF Broadcasts
    <2>3. queue[d] \in Seq(S) /\ h \in S
      BY <1>2 DEF Inv, TypeOK
    <2> HIDE DEF S, h
    <2>4. AllIn(Append(queue[d], h), s, starts')
      BY <2>1, <2>2, <2>3, AllInHolds
    <2> QED BY <2>1, <2>2, <2>4
  <1> QED BY <1>1, <1>5, <1>6, <1>7 DEF Inv

\* HandleOffshop
LEMMA HandleOffshopInv ==
    ASSUME Inv, NEW c \in Cores, HandleOffshop(c) PROVE Inv'
  <1>1. UNCHANGED <<authority, session, sessions, bridge, sole>>
    BY DEF HandleOffshop, link
  <1>2. ASSUME NEW s \in Shops, Broadcasts(s), Skip,
               request' = [at |-> "news", shop |-> s, no |-> news + 1]
        PROVE  Inv'
    <2>1. news + 1 \in 0..MaxNews
      BY <1>2, NewsAssumption DEF Broadcasts, Happens, Inv, TypeOK
    <2>2. request' \in Request
      BY <1>2, <2>1 DEF Request
    <2> QED BY <1>1, <1>2, <2>2, BroadcastInv DEF Skip, Broadcast
  <1>3. CASE UNCHANGED game /\ ((Skip /\ request' = Unheard) \/ sendShopOpResponse(c))
    <2>1. /\ request' \in Request
          /\ wire' \in [Cores -> Seq(Change \cup {Answer})]
          /\ steady' \subseteq steady
          /\ \A d \in Cores : d # c => wire'[d] = wire[d]
          /\ wire'[c] = wire[c] \/ wire'[c] = Append(wire[c], Answer)
          /\ unp_packets' \in [Cores -> Seq({q \in Change : q.about \in Members \cup Players \cup Wars})]
          /\ unp_packets' = unp_packets
      <3>1. CASE Skip /\ request' = Unheard
        BY <3>1 DEF Skip, Request, Inv, TypeOK
      <3>2. CASE sendShopOpResponse(c)
        <4>1. request' \in Request
          BY <3>2 DEF sendShopOpResponse, Request
        <4>2. Answer \notin {q \in Change : q.about \in Members \cup Players \cup Wars}
          BY NewsAssumption DEF Answer, Change
        <4>3. SendPacket(c, Answer)
          BY <3>2 DEF sendShopOpResponse
        <4> QED BY <4>1, <4>2, <4>3, SendFacts
      <3> QED BY <1>3, <3>1, <3>2
    <2>2. UNCHANGED <<last, queue, news, starts, fresh>>
      BY <1>3 DEF game, changes
    <2>3. NewsKnown' /\ QueueCurrent' /\ OthersQuiet'
      BY <1>1, <2>1, <2>2, AnswerKnown
    <2>4. TypeOK'
      BY <1>1, <2>1, <2>2 DEF Inv, TypeOK
    <2>5. SteadySecure' /\ SoleManager'
      BY <1>1, <2>1 DEF Inv, SteadySecure, SoleManager, Managers
    <2>6. Kept' /\ OnlyStarts'
      <3>1. Answer.about \notin Players \cup Wars
        BY NewsAssumption DEF Answer, Subjects, Broadcast
      <3>2. \A d \in Cores, s \in Wars : AllIn(queue'[d], s, starts)
        BY <2>2 DEF Inv, OnlyStarts
      <3> QED BY <1>1, <2>1, <2>2, <3>1, <3>2, KeptKeeps
    <2> QED BY <2>3, <2>4, <2>5, <2>6 DEF Inv
  <1> QED BY <1>2, <1>3 DEF HandleOffshop

\* Apply and Load
LEMMA BridgeInv ==
    ASSUME Inv, (\E c \in Cores : Apply(c)) \/ Load PROVE Inv'
  <1>1. ASSUME NEW c \in Cores, Apply(c) PROVE Inv'
    <2>1. /\ wire[c] # <<>> /\ wire' = [wire EXCEPT ![c] = Tail(@)]
          /\ request' \in {NoRequest, request}
          /\ UNCHANGED <<last, queue, news, starts, fresh, authority, session, sessions>>
          /\ UNCHANGED <<unp_packets, steady, sole>>
      BY <1>1 DEF Apply, game, changes, link, watch
    <2>2. wire[c] \in Seq(Change \cup {Answer})
      BY DEF Inv, TypeOK
    <2>3. Head(wire[c]) \in Change \cup {Answer} /\ Tail(wire[c]) \in Seq(Change \cup {Answer})
      BY <2>1, <2>2, HeadTailProperties
    <2>4. bridge' \in [Subjects -> 0..MaxNews]
      BY <1>1, <2>3 DEF Apply, Inv, TypeOK, Change
    <2>5. TypeOK'
      BY <2>1, <2>3, <2>4 DEF Inv, TypeOK, Request
    <2>6. NewsKnown' /\ QueueCurrent' /\ OthersQuiet'
      BY <1>1, ApplyKnown
    <2>7. SteadySecure' /\ SoleManager' /\ Kept'
      BY <2>1 DEF Inv, SteadySecure, SoleManager, Managers, Kept, Has
    <2>8. OnlyStarts'
      <3> SUFFICES ASSUME NEW d \in Cores, NEW s \in Wars
                   PROVE  /\ AllIn(queue[d], s, starts)
                          /\ d # Home[s] => /\ AllIn(wire'[d], s, starts)
                                            /\ AllIn(unp_packets[d], s, starts)
        BY <2>1 DEF OnlyStarts, AllIn
      <3>1. /\ AllIn(queue[d], s, starts)
            /\ d # Home[s] => AllIn(wire[d], s, starts) /\ AllIn(unp_packets[d], s, starts)
        BY DEF Inv, OnlyStarts
      <3>2. c # Home[s] => AllIn(Tail(wire[c]), s, starts)
        <4>1. c # Home[s] => AllIn(wire[c], s, starts)
          BY DEF Inv, OnlyStarts
        <4> QED BY <2>1, <2>2, <4>1, AllInHolds
      <3>3. wire'[d] = IF d = c THEN Tail(wire[c]) ELSE wire[d]
        BY <2>1 DEF Inv, TypeOK
      <3> QED BY <3>1, <3>2, <3>3
    <2> QED BY <2>5, <2>6, <2>7, <2>8 DEF Inv
  <1>2. CASE Load
    <2>1. /\ steady' \subseteq Cores /\ sole' \in BOOLEAN /\ fresh' = {}
          /\ bridge' = [s \in Subjects |-> IF s \in Wars THEN bridge[s] ELSE last[s]]
          /\ request' \in {NoRequest, request}
          /\ UNCHANGED <<last, queue, news, starts, authority, session, sessions>>
          /\ UNCHANGED <<wire, unp_packets>>
      BY <1>2 DEF Load, link
    <2>2. TypeOK'
      <3>1. bridge' \in [Subjects -> 0..MaxNews]
        BY <2>1 DEF Inv, TypeOK
      <3> QED BY <2>1, <3>1 DEF Inv, TypeOK, Request
    <2>3. Kept' /\ OnlyStarts'
      BY <2>1, StartsKeep DEF Inv, Kept, Has
    <2> QED BY <1>2, <2>2, <2>3, LoadKnown DEF Inv
  <1> QED BY <1>1, <1>2

\* Every step keeps the invariant.
LEMMA StepKeeps == Inv /\ [Next]_vars => Inv'
  <1> SUFFICES ASSUME Inv, [Next]_vars PROVE Inv'
    OBVIOUS
  <1>1. CASE \E c \in Cores : SessionStart(c) \/ OnEnabledEnc(c) \/ OnDisconnect(c)
    BY <1>1, SessionStartInv, OnEnabledEncInv, OnDisconnectInv
  <1>2. CASE \E c \in Cores : Restart(c) \/ SetAuthority(c)
    BY <1>2, RestartInv, SetAuthorityInv
  <1>3. CASE \E c \in Cores : DbMessage(c) \/ HandleOffshop(c)
    BY <1>3, DbMessageInv, HandleOffshopInv
  <1>4. CASE PlayerCreateSuccess \/ IncMember
    BY <1>4, OwnInv
  <1>5. CASE (\E c \in Cores : Apply(c)) \/ Load
    BY <1>5, BridgeInv
  <1>6. CASE DbEvent
    <2>1. request' \in Request
      BY <1>6 DEF DbEvent, Inv, TypeOK
    <2> QED BY <1>6, <2>1, BroadcastInv DEF DbEvent, link, watch
  <1>7. CASE UNCHANGED vars
    <2>1. /\ UNCHANGED <<last, queue, news, starts, fresh, authority, session, sessions, wire>>
          /\ UNCHANGED <<unp_packets, bridge, request, steady, sole>>
      BY <1>7 DEF vars, game, changes, link, watch
    <2>2. NewsKnown'
      BY <2>1, UntouchedKnown DEF Managers
    <2>3. OthersQuiet'
      BY <2>1, OthersKeep DEF Managers
    <2>4. TypeOK'
      BY <2>1 DEF Inv, TypeOK
    <2>5. QueueCurrent' /\ SteadySecure' /\ SoleManager' /\ Kept'
      BY <2>1 DEF Inv, QueueCurrent, SteadySecure, SoleManager, Managers, Kept, Has, EndsWith
    <2>6. OnlyStarts'
      BY <2>1, StartsKeep
    <2> QED BY <2>2, <2>3, <2>4, <2>5, <2>6 DEF Inv
  <1> QED BY <1>1, <1>2, <1>3, <1>4, <1>5, <1>6, <1>7 DEF Next

\* The invariant holds in every reachable state.
LEMMA Invariance == Spec => []Inv
  BY InitInv, StepKeeps, PTL DEF Spec

\* The state has its type; in particular only what IsSyncPacket singles out is kept.
THEOREM TypeCorrect == Spec => []TypeOK
  <1>1. Inv => TypeOK
    BY DEF Inv
  <1> QED BY <1>1, Invariance, PTL

\* What those who tell the bridge of a subject still have to say ends with its latest
\* change, and when they have said it the bridge knows that change: for any number of
\* cores, and whatever the order in which sessions, authorities and changes come.
THEOREM BridgeIsCurrent == Spec => []NewsKnown
  <1>1. Inv => NewsKnown
    BY DEF Inv
  <1> QED BY <1>1, Invariance, PTL
=============================================================================
