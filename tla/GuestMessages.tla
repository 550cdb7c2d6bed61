--------------------------- MODULE GuestMessages ---------------------------
(***************************************************************************)
(* An OSMessageQueue (runtime/src/hle/os/os_message.cpp) on top of the     *)
(* guest thread kernel: a ring buffer, and two thread queues on which      *)
(* senders wait for room and receivers for a message.  The calls block by  *)
(* sleeping in a retry loop, so another thread may take the room or the    *)
(* message between the wakeup and the retry.  The value of a message is    *)
(* carried in the num field of the frame of the call.                      *)
(***************************************************************************)
EXTENDS GuestKernel

CONSTANTS
    MsgCount,   \* the capacity of the queue's message array
    Messages    \* the messages threads and alarm handlers send

ASSUME MessageConstants ==
    /\ MsgCount \in Nat
    /\ Messages \subseteq 0 .. MaxPrio + 1
    /\ {"send", "recv"} \subseteq WaitQueues

VARIABLES
    array, first, used,  \* OSMessageQueue: the ring buffer
    got                  \* what OSReceiveMessage stored last, for each fiber

msgVars == <<array, first, used, got>>

\* All that an operation on the message queue leaves alone.
otherVars == <<threadVars, listVars, links, schedVars, mutexVars, fiberVars,
               host, timerVars, alarmVars>>

-----------------------------------------------------------------------------
MsgQueueIsFull == MsgCount # 0 /\ used >= MsgCount

MsgQueueIsEmpty == used = 0

\* Mutant: the slot after the last message is computed one off.
EnqueueOffByOne(msg) ==
    /\ array' = [array EXCEPT ![(first + used + 1) % MsgCount] = msg]
    /\ used' = used + 1
    /\ UNCHANGED <<first, got>>

\* Append a message; a queue without room for any drops it.
MsgQueueEnqueue(msg) ==
    /\ IF MsgCount = 0 THEN UNCHANGED <<array, used>>
       ELSE /\ array' = [array EXCEPT ![(first + used) % MsgCount] = msg]
            /\ used' = used + 1
    /\ UNCHANGED <<first, got>>

\* Put a message in front of the others.
MsgQueueJam(msg) ==
    LET slot == IF first = 0 THEN MsgCount - 1 ELSE first - 1
    IN  /\ IF MsgCount = 0 THEN UNCHANGED <<array, first, used>>
           ELSE /\ array' = [array EXCEPT ![slot] = msg]
                /\ first' = slot
                /\ used' = used + 1
        /\ UNCHANGED got

\* Take the first message; the caller stores it where its fiber wants it.
MsgQueueDequeue ==
    /\ got' = [got EXCEPT ![host] = array[first]]
    /\ first' = (first + 1) % MsgCount
    /\ used' = used - 1
    /\ UNCHANGED array

\* Mutant: the threads waiting for the opposite are not the ones woken.
OpWakesOwnQueue(op, ready, apply, wakeQueue, blockQueue) ==
    /\ At(op)
    /\ \/ /\ ready
          /\ apply
          /\ Continue(<<OnQ("wake", WaitQueue(blockQueue))>>)
       \/ /\ ~ready /\ UNCHANGED msgVars
          /\ IF Top.flag THEN Call(<<OnQ("sleep", WaitQueue(blockQueue))>>) ELSE Return
    /\ UNCHANGED otherVars

\* One round of MsgQueueOp's loop: when the queue allows it, apply the
\* operation and wake those waiting for the opposite; otherwise return, or
\* sleep and try again.
MsgQueueOp(op, ready, apply, wakeQueue, blockQueue) ==
    /\ At(op)
    /\ \/ /\ ready
          /\ apply
          /\ Continue(<<OnQ("wake", WaitQueue(wakeQueue))>>)
       \/ /\ ~ready /\ ~Top.flag
          /\ Return
          /\ UNCHANGED msgVars
       \/ /\ ~ready /\ Top.flag
          /\ Call(<<OnQ("sleep", WaitQueue(blockQueue))>>)
          /\ UNCHANGED msgVars
    /\ UNCHANGED otherVars

SendMessage == MsgQueueOp("send", ~MsgQueueIsFull, MsgQueueEnqueue(Top.num), "recv", "send")
JamMessage  == MsgQueueOp("jam", ~MsgQueueIsFull, MsgQueueJam(Top.num), "recv", "send")
ReceiveMessage == MsgQueueOp("recv", ~MsgQueueIsEmpty, MsgQueueDequeue, "send", "recv")

\* Guest code calls op with a message, blocking or not.
MsgCall(name, op, msg, block) ==
    /\ MayCall(name)
    /\ Call(<<[Frame(op) EXCEPT !.num = msg, !.flag = block]>>)
    /\ UNCHANGED <<msgVars, otherVars>>

OSSendMessage(msg)     == MsgCall("send", "send", msg, TRUE)
OSTrySendMessage(msg)  == MsgCall("trySend", "send", msg, FALSE)
OSJamMessage(msg)      == MsgCall("jam", "jam", msg, TRUE)
OSTryJamMessage(msg)   == MsgCall("tryJam", "jam", msg, FALSE)
OSReceiveMessage       == MsgCall("recv", "recv", 0, TRUE)
OSTryReceiveMessage    == MsgCall("tryRecv", "recv", 0, FALSE)

-----------------------------------------------------------------------------
\* OSInitMessageQueue, before any thread uses the queue.
InitMessageQueue ==
    /\ array = [i \in 0 .. MsgCount - 1 |-> 0] /\ first = 0 /\ used = 0
    /\ got = [t \in Threads |-> 0]

MsgInit == Init /\ InitMessageQueue

MsgNext ==
    \/ Next /\ UNCHANGED msgVars
    \/ SendMessage \/ JamMessage \/ ReceiveMessage
    \/ \E msg \in Messages :
         \/ OSSendMessage(msg) \/ OSTrySendMessage(msg)
         \/ OSJamMessage(msg) \/ OSTryJamMessage(msg)
    \/ OSReceiveMessage \/ OSTryReceiveMessage

MsgSpec == MsgInit /\ [][MsgNext]_<<vars, msgVars>>

-----------------------------------------------------------------------------
\* The messages in the ring buffer, the next one to receive first.
Contents == [i \in 1 .. used |-> array[(first + i - 1) % MsgCount]]

Deque == INSTANCE MessageDeque
           WITH Capacity <- MsgCount, Receivers <- Threads, contents <- Contents

\* The ring buffer behaves as a bounded deque whatever the threads and the
\* alarm handlers do with it: MsgQueueEnqueue, MsgQueueJam and MsgQueueDequeue
\* and their index arithmetic implement Send, Jam and Receive.
ImplementsDeque == Deque!Spec

\* No wakeup is lost: a thread waits for a message only while there is none,
\* and for room only while there is none, except while the operation that
\* changed this is still waking the waiters.
NoLostWakeup ==
    /\ links.seq[WaitQueue("recv")] # <<>> /\ ~MsgQueueIsEmpty =>
          At("wake") /\ Top.que = WaitQueue("recv")
    /\ links.seq[WaitQueue("send")] # <<>> /\ ~MsgQueueIsFull =>
          At("wake") /\ Top.que = WaitQueue("send")
=============================================================================
