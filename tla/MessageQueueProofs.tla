------------------------- MODULE MessageQueueProofs -------------------------
(***************************************************************************)
(* Theorems about MessageQueue, for any number of whispers and any limit   *)
(* of the queue.                                                           *)
(***************************************************************************)
EXTENDS MessageQueue, TLAPS

\* Container ids are given out in the order of the texts, so that a text and its
\* container determine each other, and nothing is settled that was not whispered.
Numbered ==
    /\ message_container_id = texts
    /\ \A i \in 1..Len(message_queue) :
          message_queue[i].text = message_queue[i].container_id + 1 /\ message_queue[i].text <= texts
    /\ \A c \in checks : c.text = c.container_id + 1
    /\ \A i \in 1..Len(passed) : passed[i] <= texts
    /\ \A t \in refused : t <= texts

Inv == TypeOK /\ Numbered /\ UniqueIds /\ SettledOnce

\* The queue r holds messages of the queue q, each from a place of its own and none
\* from the places out.
From(q, r, out) ==
    /\ r \in Seq(Container) /\ Len(r) <= Len(q)
    /\ \E pos \in [1..Len(r) -> (1..Len(q)) \ out] :
         /\ \A i, j \in 1..Len(r) : pos[i] = pos[j] => i = j
         /\ \A i \in 1..Len(r) : r[i] = q[pos[i]]

-----------------------------------------------------------------------------
(***************************************************************************)
(* How the queue changes.                                                  *)
(***************************************************************************)
\* A queue made from places of the old one keeps what the invariant says of it, and
\* the messages at the places left out are gone.
LEMMA FromKeeps ==
    ASSUME Inv, NEW r, NEW out, From(message_queue, r, out)
    PROVE  /\ r \in Seq(Container) /\ Len(r) <= MaxCount
           /\ \A i \in 1..Len(r) : r[i].text = r[i].container_id + 1 /\ r[i].text <= texts
           /\ \A i, j \in 1..Len(r) : r[i].container_id = r[j].container_id => i = j
           /\ \A i \in 1..Len(r) : \E k \in (1..Len(message_queue)) \ out : r[i] = message_queue[k]
           /\ \A i \in 1..Len(r), k \in out \cap (1..Len(message_queue)) :
                 r[i].text # message_queue[k].text
<1>1. PICK pos \in [1..Len(r) -> (1..Len(message_queue)) \ out] :
        /\ \A i, j \in 1..Len(r) : pos[i] = pos[j] => i = j
        /\ \A i \in 1..Len(r) : r[i] = message_queue[pos[i]]
  BY DEF From
<1>2. r \in Seq(Container) /\ Len(r) <= MaxCount
  BY CountAssumption DEF From, Inv, TypeOK
<1>3. ASSUME NEW i \in 1..Len(r)
      PROVE  /\ pos[i] \in 1..Len(message_queue) /\ pos[i] \notin out
             /\ r[i] = message_queue[pos[i]]
             /\ r[i].text = r[i].container_id + 1 /\ r[i].text <= texts
  BY <1>1 DEF Inv, Numbered
<1>4. ASSUME NEW i \in 1..Len(r), NEW j \in 1..Len(r), r[i].container_id = r[j].container_id
      PROVE  i = j
  BY <1>1, <1>3, <1>4 DEF Inv, UniqueIds
<1>5. ASSUME NEW i \in 1..Len(r), NEW k \in out \cap (1..Len(message_queue))
      PROVE  r[i].text # message_queue[k].text
  <2>1. pos[i] # k /\ pos[i] \in 1..Len(message_queue) /\ r[i] = message_queue[pos[i]]
    BY <1>3
  <2>2. message_queue[pos[i]].container_id # message_queue[k].container_id
    BY <2>1 DEF Inv, UniqueIds
  <2>a. message_queue[pos[i]] \in Container /\ message_queue[k] \in Container
    BY <2>1 DEF Inv, TypeOK
  <2>b. message_queue[pos[i]].container_id \in Ids /\ message_queue[k].container_id \in Ids
    BY <2>a DEF Container
  <2>3. /\ message_queue[pos[i]].container_id \in Nat /\ message_queue[k].container_id \in Nat
        /\ message_queue[pos[i]].text = message_queue[pos[i]].container_id + 1
        /\ message_queue[k].text = message_queue[k].container_id + 1
    BY <2>1, <2>b, CountAssumption DEF Inv, Numbered, Ids
  <2> QED BY <2>1, <2>2, <2>3
<1> QED BY <1>2, <1>3, <1>4, <1>5

\* The last message takes the place of the one that goes; every other one stays.
LEMMA RemovedFrom ==
    ASSUME TypeOK, NEW k \in 1..Len(message_queue)
    PROVE  /\ From(message_queue, Removed(k), {k})
           /\ \A l \in 1..Len(message_queue) : l # k =>
                 \E j \in 1..Len(Removed(k)) : Removed(k)[j] = message_queue[l]
<1> DEFINE n == Len(message_queue)
           moved == [message_queue EXCEPT ![k] = message_queue[n]]
           pos == [i \in 1..(n - 1) |-> IF i = k THEN n ELSE i]
<1>1. n \in Nat /\ n >= 1 /\ moved \in Seq(Container) /\ Len(moved) = n
  BY DEF TypeOK
<1>2. /\ Removed(k) \in Seq(Container) /\ Len(Removed(k)) = n - 1
      /\ \A i \in 1..(n - 1) : Removed(k)[i] = moved[i]
  BY <1>1 DEF Removed
<1>3. \A i \in 1..(n - 1) : Removed(k)[i] = message_queue[pos[i]]
  BY <1>1, <1>2
<1>4. pos \in [1..(n - 1) -> (1..n) \ {k}]
  BY <1>1
<1>5. ASSUME NEW i \in 1..(n - 1), NEW j \in 1..(n - 1), pos[i] = pos[j]
      PROVE  i = j
  <2>1. i \in Nat /\ j \in Nat /\ i # n /\ j # n
    BY <1>1
  <2>2. pos[i] = (IF i = k THEN n ELSE i) /\ pos[j] = (IF j = k THEN n ELSE j)
    OBVIOUS
  <2> QED BY <1>5, <2>1, <2>2
<1>6. From(message_queue, Removed(k), {k})
  <2> HIDE DEF pos, moved
  <2>1. \E p \in [1..Len(Removed(k)) -> (1..Len(message_queue)) \ {k}] :
          /\ \A i, j \in 1..Len(Removed(k)) : p[i] = p[j] => i = j
          /\ \A i \in 1..Len(Removed(k)) : Removed(k)[i] = message_queue[p[i]]
    <3>1. pos \in [1..Len(Removed(k)) -> (1..Len(message_queue)) \ {k}]
      BY <1>2, <1>4
    <3> WITNESS pos \in [1..Len(Removed(k)) -> (1..Len(message_queue)) \ {k}]
    <3> QED BY <1>2, <1>3, <1>5
  <2> QED BY <1>1, <1>2, <2>1 DEF From
<1>7. ASSUME NEW l \in 1..n, l # k
      PROVE  \E j \in 1..Len(Removed(k)) : Removed(k)[j] = message_queue[l]
  <2>1. CASE l = n
    <3>1. k \in 1..(n - 1) /\ pos[k] = n BY <1>1, <1>7, <2>1
    <3> QED BY <1>2, <1>3, <2>1, <3>1
  <2>2. CASE l # n
    <3>1. l \in 1..(n - 1) /\ pos[l] = l BY <1>1, <1>7, <2>2
    <3> QED BY <1>2, <1>3, <3>1
  <2> QED BY <2>1, <2>2
<1> QED BY <1>6, <1>7

\* message_remove takes out the message with the id, if there is one, and no other.
LEMMA RemoveKeeps ==
    ASSUME Inv, NEW id, message_remove(id)
    PROVE  /\ From(message_queue, message_queue', Found(id))
           /\ \A l \in 1..Len(message_queue) : message_queue[l].container_id # id =>
                 \E j \in 1..Len(message_queue') : message_queue'[j] = message_queue[l]
<1>1. \A i \in Found(id) : i \in 1..Len(message_queue) /\ message_queue[i].container_id = id
  BY DEF Found
<1>2. CASE Found(id) = {}
  <2>1. message_queue' = message_queue
    BY <1>2 DEF message_remove
  <2> DEFINE same == [i \in 1..Len(message_queue) |-> i]
  <2>2. /\ same \in [1..Len(message_queue) -> (1..Len(message_queue)) \ Found(id)]
        /\ \A i \in 1..Len(message_queue) : same[i] = i
    BY <1>2
  <2> HIDE DEF same
  <2>3. \E p \in [1..Len(message_queue) -> (1..Len(message_queue)) \ Found(id)] :
          /\ \A i, j \in 1..Len(message_queue) : p[i] = p[j] => i = j
          /\ \A i \in 1..Len(message_queue) : message_queue[i] = message_queue[p[i]]
    <3>1. same \in [1..Len(message_queue) -> (1..Len(message_queue)) \ Found(id)]
      BY <2>2
    <3> WITNESS same \in [1..Len(message_queue) -> (1..Len(message_queue)) \ Found(id)]
    <3> QED BY <2>2
  <2>4. From(message_queue, message_queue, Found(id))
    BY <2>3 DEF From, Inv, TypeOK
  <2> QED BY <2>1, <2>4
<1>3. CASE Found(id) # {}
  <2>1. PICK k \in Found(id) : message_queue' = Removed(k)
    BY <1>3 DEF message_remove
  <2>2. Found(id) = {k}
    BY <1>1, <2>1 DEF Inv, UniqueIds
  <2> QED BY <1>1, <2>1, <2>2, RemovedFrom DEF Inv
<1> QED BY <1>2, <1>3

-----------------------------------------------------------------------------
(***************************************************************************)
(* The invariant.                                                          *)
(***************************************************************************)
\* Messages leave the queue from the places out, some of the texts there are sent on or
\* refused, and nothing else changes.
LEMMA SettleInv ==
    ASSUME Inv, NEW out, From(message_queue, message_queue', out),
           UNCHANGED <<message_container_id, texts, checks>>,
           \/ passed' = passed
           \/ \E k \in out \cap (1..Len(message_queue)) : passed' = Append(passed, message_queue[k].text),
           \/ refused' = refused
           \/ passed' = passed /\ refused' = refused \cup {message_queue[k].text : k \in out \cap (1..Len(message_queue))}
    PROVE  Inv'
<1>1. /\ message_queue' \in Seq(Container) /\ Len(message_queue') <= MaxCount
      /\ \A i \in 1..Len(message_queue') :
            message_queue'[i].text = message_queue'[i].container_id + 1 /\ message_queue'[i].text <= texts
      /\ UniqueIds'
      /\ \A i \in 1..Len(message_queue') :
            \E k \in (1..Len(message_queue)) \ out : message_queue'[i] = message_queue[k]
      /\ \A i \in 1..Len(message_queue'), k \in out \cap (1..Len(message_queue)) :
            message_queue'[i].text # message_queue[k].text
  BY FromKeeps DEF UniqueIds
<1>2. \A k \in 1..Len(message_queue) : message_queue[k].text \in Texts /\ message_queue[k].text <= texts
  <2>1. \A k \in 1..Len(message_queue) : message_queue[k] \in Container
    BY DEF Inv, TypeOK
  <2> QED BY <2>1 DEF Inv, Numbered, Container
<1>3. passed \in Seq(Texts) /\ refused \subseteq Texts
  BY DEF Inv, TypeOK
<1>4. CASE passed' = passed /\ refused' = refused
  <2>1. SettledOnce'
    BY <1>1, <1>4 DEF Inv, SettledOnce
  <2> QED BY <1>1, <1>4, <2>1 DEF Inv, TypeOK, Numbered
<1>5. ASSUME NEW k \in out \cap (1..Len(message_queue)), passed' = Append(passed, message_queue[k].text),
             refused' = refused
      PROVE  Inv'
  <2>1. /\ passed' \in Seq(Texts) /\ Len(passed') = Len(passed) + 1
        /\ \A i \in 1..Len(passed) : passed'[i] = passed[i]
        /\ passed'[Len(passed) + 1] = message_queue[k].text
    BY <1>2, <1>3, <1>5
  <2>2. \A i \in 1..Len(passed') : passed'[i] <= texts
    <3> SUFFICES ASSUME NEW i \in 1..Len(passed') PROVE passed'[i] <= texts
      OBVIOUS
    <3>1. i \in 1..Len(passed) \/ i = Len(passed) + 1
      BY <2>1, <1>3
    <3> QED BY <1>2, <2>1, <3>1 DEF Inv, Numbered
  <2>3. \A i, j \in 1..Len(passed') : passed'[i] = passed'[j] => i = j
    <3>1. \A i \in 1..Len(passed') : i \in 1..Len(passed) \/ i = Len(passed) + 1
      BY <2>1, <1>3
    <3>2. \A i \in 1..Len(passed) : passed[i] # message_queue[k].text
      BY DEF Inv, SettledOnce
    <3> QED BY <2>1, <3>1, <3>2 DEF Inv, SettledOnce
  <2>4. /\ \A i \in 1..Len(passed') : passed'[i] \notin refused'
        /\ \A i \in 1..Len(message_queue') : \A j \in 1..Len(passed') : passed'[j] # message_queue'[i].text
    <3>1. \A i \in 1..Len(passed') : i \in 1..Len(passed) \/ i = Len(passed) + 1
      BY <2>1, <1>3
    <3> QED BY <1>1, <1>5, <2>1, <3>1 DEF Inv, SettledOnce
  <2>5. SettledOnce'
    BY <1>1, <1>5, <2>3, <2>4 DEF Inv, SettledOnce
  <2> QED BY <1>1, <1>5, <2>1, <2>2, <2>5 DEF Inv, TypeOK, Numbered
<1>6. CASE /\ passed' = passed
           /\ refused' = refused \cup {message_queue[k].text : k \in out \cap (1..Len(message_queue))}
  <2>1. refused' \subseteq Texts /\ \A t \in refused' : t <= texts
    BY <1>2, <1>3, <1>6 DEF Inv, Numbered
  <2>2. SettledOnce'
    BY <1>1, <1>6 DEF Inv, SettledOnce
  <2> QED BY <1>1, <1>6, <2>1, <2>2 DEF Inv, TypeOK, Numbered
<1> QED BY <1>4, <1>5, <1>6

\* A new whisper has a new number, which nothing in the queue or settled has.
LEMMA AddInv ==
    ASSUME Inv, sendUserCheck
    PROVE  Inv'
<1> DEFINE c == [container_id |-> message_container_id, text |-> texts + 1]
           kept == IF Len(message_queue) >= MaxCount THEN Tail(message_queue) ELSE message_queue
<1>1. /\ texts \in Nat /\ texts < MaxMessages /\ texts' = texts + 1 /\ message_container_id = texts
      /\ message_container_id' = texts + 1 /\ passed' = passed /\ refused' = refused
      /\ checks' \subseteq checks \cup {c}
      /\ message_queue' = Append(kept, c)
  BY CountAssumption DEF sendUserCheck, message_add, Inv, TypeOK, Numbered
<1>2. c \in Container /\ c.text = c.container_id + 1 /\ c.text = texts + 1 /\ c.container_id = texts
  BY <1>1, CountAssumption DEF Container, Ids, Texts
<1>3. /\ kept \in Seq(Container) /\ Len(kept) + 1 <= MaxCount
      /\ \A i \in 1..Len(kept) : \E k \in 1..Len(message_queue) : kept[i] = message_queue[k]
      /\ \A i, j \in 1..Len(kept) : kept[i].container_id = kept[j].container_id => i = j
  <2>1. message_queue \in Seq(Container) /\ Len(message_queue) <= MaxCount /\ Len(message_queue) \in Nat
    BY DEF Inv, TypeOK
  <2>2. CASE Len(message_queue) >= MaxCount
    <3>1. message_queue # <<>> /\ kept = Tail(message_queue)
      BY <2>1, <2>2, CountAssumption
    <3>2. /\ kept \in Seq(Container) /\ Len(kept) = Len(message_queue) - 1
          /\ \A i \in 1..Len(kept) : kept[i] = message_queue[i + 1] /\ i + 1 \in 1..Len(message_queue)
      BY <2>1, <3>1
    <3> HIDE DEF kept
    <3>3. \A i, j \in 1..Len(kept) : kept[i].container_id = kept[j].container_id => i + 1 = j + 1
      BY <3>2 DEF Inv, UniqueIds
    <3> QED BY <2>1, <3>2, <3>3, CountAssumption
  <2>3. CASE ~(Len(message_queue) >= MaxCount)
    <3>1. kept = message_queue
      BY <2>3
    <3> HIDE DEF kept
    <3> QED BY <2>1, <2>3, <3>1, CountAssumption DEF Inv, UniqueIds
  <2> QED BY <2>2, <2>3
<1> HIDE DEF c, kept
<1>4. /\ message_queue' \in Seq(Container) /\ Len(message_queue') = Len(kept) + 1
      /\ \A i \in 1..Len(kept) : message_queue'[i] = kept[i]
      /\ message_queue'[Len(kept) + 1] = c
      /\ \A i \in 1..Len(message_queue') : i \in 1..Len(kept) \/ i = Len(kept) + 1
  BY <1>1, <1>2, <1>3
<1>5. \A i \in 1..Len(message_queue) : message_queue[i].container_id \in Ids
  <2>1. \A i \in 1..Len(message_queue) : message_queue[i] \in Container
    BY DEF Inv, TypeOK
  <2> QED BY <2>1 DEF Container
<1>6. \A i \in 1..Len(kept) :
        /\ kept[i].text = kept[i].container_id + 1 /\ kept[i].text <= texts
        /\ kept[i].container_id \in Ids
  BY <1>3, <1>5 DEF Inv, Numbered
<1>7. \A i \in 1..Len(kept) : kept[i].container_id # texts /\ kept[i].text \in Nat
  BY <1>1, <1>6, CountAssumption DEF Ids
<1>8. TypeOK'
  <2>1. texts' \in 0..MaxMessages /\ message_container_id' \in 0..MaxMessages
    BY <1>1, CountAssumption
  <2>2. checks' \subseteq [container_id : Ids, text : Texts]
    BY <1>1, <1>2 DEF Inv, TypeOK, Container
  <2> QED BY <1>1, <1>3, <1>4, <2>1, <2>2 DEF Inv, TypeOK
<1>9. Numbered'
  <2>1. \A i \in 1..Len(message_queue') :
          message_queue'[i].text = message_queue'[i].container_id + 1 /\ message_queue'[i].text <= texts'
    <3> SUFFICES ASSUME NEW i \in 1..Len(message_queue')
                 PROVE  message_queue'[i].text = message_queue'[i].container_id + 1 /\ message_queue'[i].text <= texts'
      OBVIOUS
    <3>1. CASE i \in 1..Len(kept)
      BY <1>1, <1>4, <1>6, <1>7, <3>1
    <3>2. CASE i = Len(kept) + 1
      BY <1>1, <1>2, <1>4, <3>2
    <3> QED BY <1>4, <3>1, <3>2
  <2>2. \A d \in checks' : d.text = d.container_id + 1
    BY <1>1, <1>2 DEF Inv, Numbered
  <2>3. /\ \A i \in 1..Len(passed) : passed[i] \in Nat
        /\ \A t \in refused : t \in Nat
    BY CountAssumption DEF Inv, TypeOK, Texts
  <2>4. /\ \A i \in 1..Len(passed') : passed'[i] <= texts'
        /\ \A t \in refused' : t <= texts'
    BY <1>1, <2>3 DEF Inv, Numbered
  <2> QED BY <1>1, <2>1, <2>2, <2>4 DEF Numbered
<1>10. UniqueIds'
  <2> SUFFICES ASSUME NEW i \in 1..Len(message_queue'), NEW j \in 1..Len(message_queue'),
                      message_queue'[i].container_id = message_queue'[j].container_id
               PROVE  i = j
    BY DEF UniqueIds
  <2> QED BY <1>2, <1>3, <1>4, <1>7
<1>11. SettledOnce'
  <2>1. /\ \A i \in 1..Len(passed) : passed[i] # texts + 1
        /\ texts + 1 \notin refused
    BY <1>1, CountAssumption DEF Inv, TypeOK, Numbered, Texts
  <2>2. \A i \in 1..Len(message_queue') :
          /\ message_queue'[i].text \notin refused
          /\ \A j \in 1..Len(passed) : passed[j] # message_queue'[i].text
    <3> SUFFICES ASSUME NEW i \in 1..Len(message_queue')
                 PROVE  /\ message_queue'[i].text \notin refused
                        /\ \A j \in 1..Len(passed) : passed[j] # message_queue'[i].text
      OBVIOUS
    <3>1. CASE i \in 1..Len(kept)
      BY <1>3, <1>4, <3>1 DEF Inv, SettledOnce
    <3>2. CASE i = Len(kept) + 1
      BY <1>2, <1>4, <2>1, <3>2
    <3> QED BY <1>4, <3>1, <3>2
  <2> QED BY <1>1, <2>2 DEF Inv, SettledOnce
<1> QED BY <1>8, <1>9, <1>10, <1>11 DEF Inv

LEMMA AnswerInv ==
    ASSUME Inv, NEW id, NEW response, HandleUserCheck(id, response)
    PROVE  Inv'
<1>1. message_remove(id) /\ UNCHANGED <<message_container_id, texts, checks>>
  BY DEF HandleUserCheck, message_process
<1>2. From(message_queue, message_queue', Found(id))
  BY <1>1, RemoveKeeps
<1>3. Found(id) \cap (1..Len(message_queue)) = Found(id)
  BY DEF Found
<1>4. /\ \/ passed' = passed
         \/ \E k \in Found(id) : passed' = Append(passed, message_queue[k].text)
      /\ \/ refused' = refused
         \/ passed' = passed /\ refused' = refused \cup {message_queue[k].text : k \in Found(id)}
  BY DEF HandleUserCheck, message_process
<1> QED BY <1>1, <1>2, <1>3, <1>4, SettleInv

LEMMA CleanupInv ==
    ASSUME Inv, message_cleanup_expired
    PROVE  Inv'
<1>0. PICK n \in 0..Len(message_queue) : \E p \in [1..n -> 1..Len(message_queue)] :
        /\ \A i, j \in 1..n : i < j => p[i] < p[j]
        /\ message_queue' = [i \in 1..n |-> message_queue[p[i]]]
  BY DEF message_cleanup_expired
<1>1. PICK pos \in [1..n -> 1..Len(message_queue)] :
        /\ \A i, j \in 1..n : i < j => pos[i] < pos[j]
        /\ message_queue' = [i \in 1..n |-> message_queue[pos[i]]]
  BY <1>0
<1>2. message_queue \in Seq(Container) /\ Len(message_queue) \in Nat /\ n \in Nat /\ n <= Len(message_queue)
  BY DEF Inv, TypeOK
<1>3. message_queue' \in Seq(Container) /\ Len(message_queue') = n
      /\ \A i \in 1..n : message_queue'[i] = message_queue[pos[i]]
  BY <1>1, <1>2
<1>4. ASSUME NEW i \in 1..n, NEW j \in 1..n, pos[i] = pos[j]
      PROVE  i = j
  <2>1. pos[i] \in Nat /\ pos[j] \in Nat /\ i \in Nat /\ j \in Nat
    BY <1>2
  <2>2. ~(i < j) /\ ~(j < i)
    BY <1>1, <1>4, <2>1
  <2> QED BY <2>1, <2>2
<1>5. \E p \in [1..Len(message_queue') -> (1..Len(message_queue)) \ {}] :
        /\ \A i, j \in 1..Len(message_queue') : p[i] = p[j] => i = j
        /\ \A i \in 1..Len(message_queue') : message_queue'[i] = message_queue[p[i]]
  <2>1. pos \in [1..Len(message_queue') -> (1..Len(message_queue)) \ {}]
    BY <1>3
  <2> WITNESS pos \in [1..Len(message_queue') -> (1..Len(message_queue)) \ {}]
  <2> QED BY <1>3, <1>4
<1>6. From(message_queue, message_queue', {})
  BY <1>2, <1>3, <1>5 DEF From
<1>7. UNCHANGED <<message_container_id, texts, checks, passed, refused>>
  BY DEF message_cleanup_expired
<1> QED BY <1>6, <1>7, SettleInv

LEMMA Invariance == Spec => []Inv
<1>1. Init => Inv
  BY CountAssumption DEF Init, Inv, TypeOK, Numbered, UniqueIds, SettledOnce
<1>2. Inv /\ [Next]_vars => Inv'
  <2> SUFFICES ASSUME Inv, [Next]_vars PROVE Inv'
    OBVIOUS
  <2>1. CASE sendUserCheck
    BY <2>1, AddInv
  <2>2. ASSUME NEW r \in EUserCheckResponse, Answered(r) PROVE Inv'
    <3>1. PICK c \in checks : HandleUserCheck(c.container_id, r)
      BY <2>2 DEF Answered
    <3> QED BY <3>1, AnswerInv
  <2>3. CASE message_cleanup_expired
    BY <2>3, CleanupInv
  <2>4. CASE UNCHANGED vars
    BY <2>4 DEF vars, Inv, TypeOK, Numbered, UniqueIds, SettledOnce
  <2> QED BY <2>1, <2>2, <2>3, <2>4 DEF Next
<1> QED BY <1>1, <1>2, PTL DEF Spec

-----------------------------------------------------------------------------
(***************************************************************************)
(* Theorems.                                                               *)
(***************************************************************************)
\* The queue keeps to its limit and every variable to its type, whatever is added,
\* answered and expired (CMessageHelper).
THEOREM TypeCorrect == Spec => []TypeOK
<1>1. Inv => TypeOK
  BY DEF Inv
<1> QED BY <1>1, Invariance, PTL

\* Filling holes with the last message never leaves two messages under one id
\* (message_process, message_remove).
THEOREM IdsAreUnique == Spec => []UniqueIds
<1>1. Inv => UniqueIds
  BY DEF Inv
<1> QED BY <1>1, Invariance, PTL

\* The check names the container that message_add makes: an answer, however late, never
\* concerns another whisper (sendUserCheck, HandleUserCheck).
THEOREM AnswersFindTheirs == Spec => []AnswersMatch
<1>1. Inv => AnswersMatch
  BY DEF Inv, Numbered, AnswersMatch
<1> QED BY <1>1, Invariance, PTL

\* Answers that come late, twice or for what is gone settle no whisper a second time
\* (HandleUserCheck, message_process, message_remove).
THEOREM WhispersSettleOnce == Spec => []SettledOnce
<1>1. Inv => SettledOnce
  BY DEF Inv
<1> QED BY <1>1, Invariance, PTL

\* Taking one message out leaves every other one in the queue (message_process,
\* message_remove).
THEOREM OthersWait == Spec => OthersUntouched
<1>1. Inv /\ [Next]_vars =>
        [\A r \in EUserCheckResponse : \A c \in checks :
            HandleUserCheck(c.container_id, r) =>
                \A i \in 1..Len(message_queue) :
                    message_queue[i].container_id # c.container_id =>
                        \E j \in 1..Len(message_queue') : message_queue'[j] = message_queue[i]]_vars
  <2> SUFFICES ASSUME Inv, NEW r \in EUserCheckResponse, NEW c \in checks,
                      HandleUserCheck(c.container_id, r)
               PROVE  \A i \in 1..Len(message_queue) :
                        message_queue[i].container_id # c.container_id =>
                          \E j \in 1..Len(message_queue') : message_queue'[j] = message_queue[i]
    OBVIOUS
  <2>1. message_remove(c.container_id)
    BY DEF HandleUserCheck, message_process
  <2> QED BY <2>1, RemoveKeeps
<1> QED BY <1>1, Invariance, PTL DEF Spec, OthersUntouched
=============================================================================
