----------------------------- MODULE BoundedFifo -----------------------------
(****************************************************************************)
(* What the event queue promises the two threads that share it: a FIFO of   *)
(* at most Capacity messages, in which an offered message is either         *)
(* accepted (only when there is room) or dropped and counted, and in which  *)
(* the receiver gets accepted messages in order, none twice, none lost.     *)
(****************************************************************************)
EXTENDS Naturals, Sequences

CONSTANTS Capacity,  \* the most messages the queue holds
          Msgs,      \* the messages
          NoMsg      \* "no message"

VARIABLES fifo,      \* the accepted messages not yet taken, oldest first
          offered,   \* the message the sender waits to get rid of, or NoMsg
          taken,     \* the message the receiver is working on, or NoMsg
          drops      \* how many messages were dropped

vars == <<fifo, offered, taken, drops>>

Init == /\ fifo = <<>>
        /\ offered = NoMsg
        /\ taken = NoMsg
        /\ drops = 0

\* The sender has a message to send.
Offer(m) == /\ offered = NoMsg
            /\ offered' = m
            /\ UNCHANGED <<fifo, taken, drops>>

\* The offered message enters the queue.
Accept_Overrun ==                   \* variant: stores whether there is room or not
          /\ offered # NoMsg
          /\ fifo' = Append(fifo, offered)
          /\ offered' = NoMsg
          /\ UNCHANGED <<taken, drops>>
Accept_AtFront ==                   \* variant: the newest message comes out first
          /\ offered # NoMsg
          /\ Len(fifo) < Capacity
          /\ fifo' = <<offered>> \o fifo
          /\ offered' = NoMsg
          /\ UNCHANGED <<taken, drops>>
Accept == /\ offered # NoMsg
          /\ Len(fifo) < Capacity
          /\ fifo' = Append(fifo, offered)
          /\ offered' = NoMsg
          /\ UNCHANGED <<taken, drops>>

\* The offered message is given up, and counted.
Drop == /\ offered # NoMsg
        /\ drops' = drops + 1
        /\ offered' = NoMsg
        /\ UNCHANGED <<fifo, taken>>

\* The receiver gets the oldest message.
Take == /\ taken = NoMsg
        /\ fifo # <<>>
        /\ taken' = Head(fifo)
        /\ fifo' = Tail(fifo)
        /\ UNCHANGED <<offered, drops>>

\* The receiver is done with its message.
Finish == /\ taken # NoMsg
          /\ taken' = NoMsg
          /\ UNCHANGED <<fifo, offered, drops>>

Next == \/ \E m \in Msgs : Offer(m)
        \/ Accept
        \/ Drop
        \/ Take
        \/ Finish

Spec == Init /\ [][Next]_vars

\* No offer stays open for ever, and a receiver that is free and has something
\* to take takes it.  Nothing is promised about when the receiver is done.
Fairness == /\ WF_vars(Accept \/ Drop)
            /\ WF_vars(Take)

FairSpec == Spec /\ Fairness
==============================================================================
