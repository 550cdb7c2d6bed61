---------------------------- MODULE MessageDeque ----------------------------
(***************************************************************************)
(* What a message queue of the guest kernel promises: a bounded sequence   *)
(* of messages.  Sending appends a message, jamming puts one in front, and *)
(* receiving hands the first one to exactly one receiver.  Nothing is      *)
(* lost, duplicated or overtaken except by a jam.                          *)
(***************************************************************************)
EXTENDS Integers, Sequences

CONSTANTS
    Capacity,   \* the most messages the queue holds
    Messages,   \* the messages that can be sent
    Receivers   \* those who receive messages

VARIABLES
    contents,   \* the messages in the queue, the next one to receive first
    got         \* the message each receiver received last

Init == contents = <<>> /\ got = [r \in Receivers |-> 0]

Send == /\ Len(contents) < Capacity
        /\ \E m \in Messages : contents' = Append(contents, m)
        /\ UNCHANGED got

Jam == /\ Len(contents) < Capacity
       /\ \E m \in Messages : contents' = <<m>> \o contents
       /\ UNCHANGED got

Receive(r) == /\ contents # <<>>
              /\ contents' = Tail(contents)
              /\ got' = [got EXCEPT ![r] = Head(contents)]

Next == Send \/ Jam \/ \E r \in Receivers : Receive(r)

Spec == Init /\ [][Next]_<<contents, got>>
=============================================================================
