---------------------------- MODULE MessageQueue ----------------------------
(***************************************************************************)
(* Whispers to players on mobile (CMessageHelper, sendUserCheck and        *)
(* HandleUserCheck).  A whisper is kept in message_queue_ under a          *)
(* container id while the bridge is asked whether the receiver may get it; *)
(* the answer names the container.  Answers come late, in any order and,   *)
(* after a reconnection, perhaps not at all or for a container that is     *)
(* gone, and the queue is not kept in order: the hole a message leaves is  *)
(* filled with the last one.                                               *)
(***************************************************************************)
EXTENDS Naturals, Sequences

CONSTANTS
    MaxMessages,    \* bound: whispers sent
    MaxCount        \* MAX_MESSAGE_COUNT

ASSUME CountAssumption == MaxMessages \in Nat /\ MaxCount \in Nat \ {0}

VARIABLES
    message_queue,          \* message_queue_
    message_container_id,   \* s_message_container_id
    texts,                  \* what was whispered: the texts are 1, 2, ...
    checks,                 \* the checks the bridge got, with the text meant
    passed,                 \* the texts sent on to the bridge, in order
    refused                 \* the texts whose senders were told they failed

vars == <<message_queue, message_container_id, texts, checks, passed, refused>>

Texts == 1..MaxMessages
Ids == 0..(MaxMessages - 1)

\* TMSMessageContainer; the text also stands for its sender and its receiver.
Container == [container_id : Ids, text : Texts]

EUserCheckResponse == {"VALID", "OFFLINE", "BLOCKED", "NOT_EXIST", "other"}

Init ==
    /\ message_queue = <<>>
    /\ message_container_id = 0
    /\ texts = 0
    /\ checks = {}
    /\ passed = <<>>
    /\ refused = {}

-----------------------------------------------------------------------------
\* Mutant of message_add: a full queue is not relieved.
message_add_unbounded(container) == Append(message_queue, container)

\* message_add: the front gives way when the queue is full.
message_add(container) ==
    LET kept == IF Len(message_queue) >= MaxCount
                THEN Tail(message_queue) ELSE message_queue
    IN  Append(kept, container)

\* Mutant of sendUserCheck: the id is read after message_add has advanced it.
sendUserCheckLate ==
    /\ texts < MaxMessages
    /\ texts' = texts + 1
    /\ message_queue' = message_add([container_id |-> message_container_id,
                                     text |-> texts'])
    /\ message_container_id' = message_container_id + 1
    /\ checks' \in {checks, checks \cup {[container_id |-> message_container_id',
                                          text |-> texts']}}
    /\ UNCHANGED <<passed, refused>>

\* sendUserCheck of a new whisper.  The check may get lost with the session.
sendUserCheck ==
    /\ texts < MaxMessages
    /\ texts' = texts + 1
    /\ message_queue' = message_add([container_id |-> message_container_id,
                                     text |-> texts'])
    /\ message_container_id' = message_container_id + 1
    /\ checks' \in {checks, checks \cup {[container_id |-> message_container_id,
                                          text |-> texts']}}
    /\ UNCHANGED <<passed, refused>>

\* The positions at which find_if finds a container: the first one.
Found(id) ==
    {i \in 1..Len(message_queue) :
        /\ message_queue[i].container_id = id
        /\ \A j \in 1..(i - 1) : message_queue[j].container_id # id}

\* Mutants of Removed: the last message is not moved into the hole, and it is
\* moved but not taken off the end.
RemovedLast(i) == SubSeq(message_queue, 1, Len(message_queue) - 1)
RemovedTwice(i) == [message_queue EXCEPT ![i] = message_queue[Len(message_queue)]]

\* The queue without its element i: the last element takes its place.
Removed(i) ==
    LET n == Len(message_queue)
    IN  SubSeq([message_queue EXCEPT ![i] = message_queue[n]], 1, n - 1)

\* message_remove
message_remove(id) ==
    message_queue' = IF Found(id) = {} THEN message_queue
                     ELSE Removed(CHOOSE i \in Found(id) : TRUE)

\* message_process: the message goes whether Send takes it or not.
message_process(id) ==
    /\ message_remove(id)
    /\ passed' \in {passed} \cup {Append(passed, message_queue[i].text) : i \in Found(id)}

\* HandleUserCheck.  The sender of a refused message is told if he is in game.
HandleUserCheck(id, response) ==
    /\ \/ /\ response = "VALID"
          /\ message_process(id)
          /\ UNCHANGED refused
       \/ /\ response \in {"OFFLINE", "BLOCKED", "NOT_EXIST"}
          /\ message_remove(id)
          /\ refused' \in {refused, refused \cup {message_queue[i].text : i \in Found(id)}}
          /\ UNCHANGED passed
       \/ /\ response = "other"
          /\ message_remove(id)
          /\ UNCHANGED <<passed, refused>>
    /\ UNCHANGED <<message_container_id, texts, checks>>

\* message_cleanup_expired: everything older than some message goes; remove_if leaves
\* the others in their order.
message_cleanup_expired ==
    /\ \E id \in 0..message_container_id, n \in 0..Len(message_queue) :
         \E pos \in [1..n -> 1..Len(message_queue)] :
            /\ \A i, j \in 1..n : i < j => pos[i] < pos[j]
            /\ \A k \in 1..Len(message_queue) :
                  message_queue[k].container_id >= id <=> \E i \in 1..n : pos[i] = k
            /\ message_queue' = [i \in 1..n |-> message_queue[pos[i]]]
    /\ UNCHANGED <<message_container_id, texts, checks, passed, refused>>

\* The bridge answers checks it got, in any order, and nothing stops it from
\* answering one again.
Answered(response) == \E c \in checks : HandleUserCheck(c.container_id, response)

Next ==
    \/ sendUserCheck
    \/ \E r \in EUserCheckResponse : Answered(r)
    \/ message_cleanup_expired

Spec == Init /\ [][Next]_vars

-----------------------------------------------------------------------------
(***************************************************************************)
(* Properties.                                                             *)
(***************************************************************************)
\* Type invariant, with the limit of the queue.
TypeOK ==
    /\ message_queue \in Seq(Container) /\ Len(message_queue) <= MaxCount
    /\ message_container_id \in 0..MaxMessages
    /\ texts \in 0..MaxMessages
    /\ checks \subseteq [container_id : Ids, text : Texts]
    /\ passed \in Seq(Texts)
    /\ refused \subseteq Texts

\* No two messages in the queue answer to the same id, so that an answer can
\* only ever concern one of them.
UniqueIds ==
    \A i, j \in 1..Len(message_queue) :
        message_queue[i].container_id = message_queue[j].container_id => i = j

\* The id in a check is the id of the message it is about: an answer never
\* sends or refuses another player's whisper.
AnswersMatch ==
    \A c \in checks : \A i \in 1..Len(message_queue) :
        message_queue[i].container_id = c.container_id => message_queue[i].text = c.text

\* A whisper is settled once: it is not sent on twice, it is not sent on and
\* refused, and once settled it is no longer in the queue.
SettledOnce ==
    /\ \A i, j \in 1..Len(passed) : passed[i] = passed[j] => i = j
    /\ \A i \in 1..Len(passed) : passed[i] \notin refused
    /\ \A i \in 1..Len(message_queue) :
          /\ message_queue[i].text \notin refused
          /\ \A j \in 1..Len(passed) : passed[j] # message_queue[i].text

\* An answer concerns its own message alone: every other one is still waiting.
OthersUntouched ==
    [][\A r \in EUserCheckResponse : \A c \in checks :
          HandleUserCheck(c.container_id, r) =>
              \A i \in 1..Len(message_queue) :
                  message_queue[i].container_id # c.container_id =>
                      \E j \in 1..Len(message_queue') : message_queue'[j] = message_queue[i]]_vars
=============================================================================
