----------------------------- MODULE MsgQueue ------------------------------
(***************************************************************************)
(* Message passing between the engine, the test module controllers and the *)
(* test processes (utils/ipc/min_ipc_mechanism.c): one System V message    *)
(* queue for everybody, in which the receiver's pid selects the messages,  *)
(* and in every process a buffer for what did not fit into the queue.      *)
(*                                                                         *)
(* Each msgsnd and msgrcv is one step, so that other processes run between *)
(* the attempts of one call.  msgsnd refuses a message when the bytes in   *)
(* the queue would exceed its limit; sizes are in an arbitrary unit, since *)
(* a message is sent with the length of its two strings.                   *)
(***************************************************************************)
EXTENDS Naturals, Sequences, FiniteSets

CONSTANTS
  Process,
  Links,       \* the pairs <<p, q>> such that p sends to q
  Waiters,     \* those that block in mq_read_message (test processes); the
               \* others call it only when mq_peek_message saw a message
  Blockers,    \* those that also call mq_send_message_block
  Mortal,      \* those that may exit with messages still in their buffer
  Size,        \* the sizes of messages
  Capacity,    \* msg_qbytes of the queue
  MaxSends     \* bound: how many messages each process sends, [Process -> Nat]

ASSUME MsgQueueAssumption ==
  /\ Links \subseteq Process \X Process
  /\ Waiters \subseteq Process /\ Blockers \subseteq Process /\ Mortal \subseteq Process
  /\ Size \subseteq 1..Capacity
  /\ Capacity \in Nat /\ MaxSends \in [Process -> Nat]

VARIABLES
  kernel,    \* the queue, oldest message first
  buffer,    \* msg_buffer of each process
  pc,        \* where each process is in this module's functions
  out,       \* the message a process is sending
  sent,      \* how many messages it has been asked to send
  got,       \* the messages it has read, oldest first
  late,      \* history: the numbers of its messages that were ever buffered
  lost       \* history: the messages that went down with a buffer

vars == <<kernel, buffer, pc, out, sent, got, late, lost>>

(* n counts the messages of one sender in the order of the calls.          *)
Message == [from : Process, to : Process, size : Size, n : Nat \ {0}]
NoMessage == [n |-> 0]

PC == {"idle", "retry", "post", "block", "drain", "resend", "gone"}

(* What the variables hold; a process that is gone has left no message in *)
(* its buffer: mq_resend_buffered has sent it or the exit has dropped it.  *)
TypeOK ==
  /\ kernel \in Seq(Message)
  /\ buffer \in [Process -> Seq(Message)]
  /\ pc \in [Process -> PC]
  /\ out \in [Process -> Message \cup {NoMessage}]
  /\ sent \in [Process -> Nat]
  /\ got \in [Process -> Seq(Message)]
  /\ late \in [Process -> SUBSET Nat] /\ \A p \in Process : late[p] \subseteq 1..sent[p]
  /\ lost \subseteq Message
  /\ \A p \in Process : pc[p] = "gone" => buffer[p] = <<>>

Init ==
  /\ kernel = <<>>
  /\ buffer = [p \in Process |-> <<>>]
  /\ pc = [p \in Process |-> "idle"]
  /\ out = [p \in Process |-> NoMessage]
  /\ sent = [p \in Process |-> 0]
  /\ got = [p \in Process |-> <<>>]
  /\ late = [p \in Process |-> {}]
  /\ lost = {}

----------------------------------------------------------------------------
(* msgsnd                                                                  *)
Bytes == LET sum[k \in 0..Len(kernel)] == IF k = 0 THEN 0 ELSE sum[k - 1] + kernel[k].size
         IN sum[Len(kernel)]

Fits(m) == Bytes + m.size <= Capacity

(* msgsnd with IPC_NOWAIT of the oldest buffered message succeeds.         *)
CanUnbuffer(p) == buffer[p] # <<>> /\ Fits(Head(buffer[p]))

(* Deviation: the message stays in the buffer.                             *)
UnbufferCopies(p) ==
  /\ kernel' = Append(kernel, Head(buffer[p]))
  /\ UNCHANGED buffer

(* Deviation: the newest message leaves first.                             *)
UnbufferNewest(p) ==
  /\ kernel' = Append(kernel, buffer[p][Len(buffer[p])])
  /\ buffer' = [buffer EXCEPT ![p] = SubSeq(@, 1, Len(@) - 1)]

Unbuffer(p) ==
  /\ kernel' = Append(kernel, Head(buffer[p]))
  /\ buffer' = [buffer EXCEPT ![p] = Tail(@)]

Goto(p, here, next) == pc[p] = here /\ pc' = [pc EXCEPT ![p] = next]

(* mq_send_message, mq_send_message2 and mq_send_message_block are called. *)
Send(p, q, size, next) ==
  /\ Goto(p, "idle", next)
  /\ sent[p] < MaxSends[p]
  /\ sent' = [sent EXCEPT ![p] = @ + 1]
  /\ out' = [out EXCEPT ![p] = [from |-> p, to |-> q, size |-> size, n |-> sent[p] + 1]]
  /\ UNCHANGED <<kernel, buffer, got, late, lost>>

(* mq_wrapper_around_msgsnd, first the messages in the buffer ...          *)
Retry(p) ==
  /\ \/ /\ Goto(p, "retry", "retry") /\ CanUnbuffer(p)
        /\ Unbuffer(p)
     \/ /\ Goto(p, "retry", "post") /\ ~CanUnbuffer(p)
        /\ UNCHANGED <<kernel, buffer>>
  /\ UNCHANGED <<out, sent, got, late, lost>>

(* ... then, whether or not the buffer is empty by now, the new one.       *)
Post(p) ==
  /\ Goto(p, "post", "idle")
  /\ \/ /\ Fits(out[p])
        /\ kernel' = Append(kernel, out[p])
        /\ UNCHANGED <<buffer, late>>
     \/ /\ ~Fits(out[p])
        /\ buffer' = [buffer EXCEPT ![p] = Append(@, out[p])]
        /\ late' = [late EXCEPT ![p] = @ \cup {out[p].n}]
        /\ UNCHANGED kernel
  /\ out' = [out EXCEPT ![p] = NoMessage]
  /\ UNCHANGED <<sent, got, lost>>

(* mq_send_message_block: msgsnd that waits for room; no buffer involved.  *)
PostBlocking(p) ==
  /\ Goto(p, "block", "idle")
  /\ Fits(out[p])
  /\ kernel' = Append(kernel, out[p])
  /\ out' = [out EXCEPT ![p] = NoMessage]
  /\ UNCHANGED <<buffer, sent, got, late, lost>>

(* mq_read_message: the oldest message for p is taken, and what is in the  *)
(* buffer is retried before the call returns.                              *)
Read(p) ==
  /\ Goto(p, "idle", "drain")
  /\ \E k \in DOMAIN kernel :
       /\ kernel[k].to = p
       /\ \A j \in 1..(k - 1) : kernel[j].to # p
       /\ got' = [got EXCEPT ![p] = Append(@, kernel[k])]
       /\ kernel' = SubSeq(kernel, 1, k - 1) \o SubSeq(kernel, k + 1, Len(kernel))
  /\ UNCHANGED <<buffer, out, sent, late, lost>>

Drain(p) ==
  /\ \/ /\ Goto(p, "drain", "drain") /\ CanUnbuffer(p)
        /\ Unbuffer(p)
     \/ /\ Goto(p, "drain", "idle") /\ ~CanUnbuffer(p)
        /\ UNCHANGED <<kernel, buffer>>
  /\ UNCHANGED <<out, sent, got, late, lost>>

(* Deviation: the last message of the buffer is not retried.               *)
DrainWaitingAllButOne(p) ==
  /\ p \in Waiters /\ pc[p] = "idle" /\ CanUnbuffer(p) /\ Len(buffer[p]) > 1
  /\ Unbuffer(p)
  /\ UNCHANGED <<pc, out, sent, got, late, lost>>

(* The same loop in a process that waits for a message.                    *)
DrainWaiting(p) ==
  /\ p \in Waiters /\ pc[p] = "idle" /\ CanUnbuffer(p)
  /\ Unbuffer(p)
  /\ UNCHANGED <<pc, out, sent, got, late, lost>>

(* gu_create_tp at the end of a test: mq_resend_buffered returns when the  *)
(* buffer is empty, and the process exits.                                 *)
Finish(p) ==
  /\ p \in Waiters
  /\ Goto(p, "idle", "resend")
  /\ UNCHANGED <<kernel, buffer, out, sent, got, late, lost>>

(* Deviation: mq_resend_buffered goes through the buffer once and returns. *)
ResendOnce(p) ==
  /\ \/ /\ Goto(p, "resend", "resend") /\ CanUnbuffer(p)
        /\ Unbuffer(p)
     \/ /\ Goto(p, "resend", "gone") /\ ~CanUnbuffer(p)
        /\ UNCHANGED <<kernel, buffer>>
  /\ UNCHANGED <<out, sent, got, late, lost>>

Resend(p) ==
  /\ \/ /\ Goto(p, "resend", "resend") /\ CanUnbuffer(p)
        /\ Unbuffer(p)
     \/ /\ Goto(p, "resend", "gone") /\ buffer[p] = <<>>
        /\ UNCHANGED <<kernel, buffer>>
  /\ UNCHANGED <<out, sent, got, late, lost>>

(* mq_flush_msg_buffer at the exit of a TMC or of the engine, or a process *)
(* that is killed: its buffer goes with it.                                *)
Exit(p) ==
  /\ p \in Mortal
  /\ Goto(p, "idle", "gone")
  /\ lost' = lost \cup {buffer[p][k] : k \in DOMAIN buffer[p]}
  /\ buffer' = [buffer EXCEPT ![p] = <<>>]
  /\ UNCHANGED <<kernel, out, sent, got, late>>

Next ==
  \/ \E link \in Links : \E size \in Size :
       \/ Send(link[1], link[2], size, "retry")
       \/ link[1] \in Blockers /\ Send(link[1], link[2], size, "block")
  \/ \E p \in Process :
       \/ Retry(p) \/ Post(p) \/ PostBlocking(p)
       \/ Read(p) \/ Drain(p) \/ DrainWaiting(p)
       \/ Finish(p) \/ Resend(p) \/ Exit(p)

Spec == Init /\ [][Next]_vars

(* Processes are scheduled and read what is there for them.  Nobody has to *)
(* send or to exit.                                                        *)
Fairness ==
  \A p \in Process :
    WF_vars(Retry(p) \/ Post(p) \/ PostBlocking(p) \/ Read(p)
            \/ Drain(p) \/ DrainWaiting(p) \/ Resend(p))

FairSpec == Spec /\ Fairness

----------------------------------------------------------------------------
Elements(s) == {s[k] : k \in DOMAIN s}
InHand(p) == IF pc[p] \in {"retry", "post", "block"} THEN {out[p]} ELSE {}

(* How often the n-th message of p exists, over all places it may be in.   *)
Numbered(s, p, n) == {k \in DOMAIN s : s[k].from = p /\ s[k].n = n}
ReadersOf(p, n) == {q \in Process : Numbered(got[q], p, n) # {}}
Copies(p, n) ==
  Cardinality(Numbered(kernel, p, n)) + Cardinality(Numbered(buffer[p], p, n))
    + Cardinality(ReadersOf(p, n))
    + Cardinality({m \in InHand(p) : m.n = n})
    + Cardinality({m \in lost : m.from = p /\ m.n = n})

(* No retry loop ever sends a message twice or drops one: each message     *)
(* that was handed to mq_send_message is in exactly one place, and only    *)
(* the end of its sender can lose it.                                      *)
ExactlyOnce ==
  \A p \in Process :
    /\ \A n \in 1..sent[p] : Copies(p, n) = 1
    /\ \A m \in lost : pc[m.from] = "gone"

(* m reaches q before n does: q has read both in this order, or m only, or *)
(* both are in the queue in this order.                                    *)
Follows(s, m, n) == \E i, j \in DOMAIN s : i < j /\ s[i] = m /\ s[j] = n
Before(q, m, n) ==
  \/ Follows(got[q], m, n)
  \/ m \in Elements(got[q]) /\ n \in Elements(kernel)
  \/ Follows(kernel, m, n)

(* Two messages of one sender arrive in the wrong order only when the one  *)
(* sent first had to be buffered and the other found room at once; those   *)
(* buffered keep their order, and so do those that were not.               *)
OnlyBufferedOvertaken ==
  \A q \in Process : \A m, n \in Elements(got[q]) \cup {k \in Elements(kernel) : k.to = q} :
    Before(q, m, n) /\ m.from = n.from /\ m.n > n.n =>
      n.n \in late[n.from] /\ m.n \notin late[m.from]

(* A process that blocks in mq_read_message or ends with                   *)
(* mq_resend_buffered gets rid of its buffer in the end, unless one it     *)
(* sends to has died and left the queue full of messages nobody reads.     *)
WaitersDeliver ==
  \A p \in Waiters :
    buffer[p] # <<>> ~>
      buffer[p] = <<>> \/ \E link \in Links : link[1] = p /\ pc[link[2]] = "gone"
============================================================================
