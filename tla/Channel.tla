------------------------------ MODULE Channel ------------------------------
(***************************************************************************)
(* What a ReadableStream promises to the two ends that use it: a channel   *)
(* from a source, which sends chunks, to a reader, whose reads are         *)
(* answered in the order they are made.  Chunks are received in the order  *)
(* they were sent, each at most once; a stream that ends by being closed   *)
(* has delivered all of them; only cancelling and failing drop some.       *)
(*                                                                         *)
(* A chunk that no read waits for is sent in two halves.  A read that      *)
(* begins to wait between them is not given the chunk: the order of reads  *)
(* and chunks is promised where there is no such read.                     *)
(*                                                                         *)
(* A lossy channel loses a chunk that meets a waiting read, and the read   *)
(* with it, and forgets the waiting reads when it fails: what is left of   *)
(* the promise in a program whose read requests cannot be settled.         *)
(***************************************************************************)
EXTENDS Naturals, Sequences, Functions

CONSTANTS Chunks, MaxReads

VARIABLES
    lossy,      \* does not change
    state,      \* "open", "closed", "cancelled" or "failed"
    sending,    \* a chunk is being sent
    buffer,     \* the chunks sent and not received
    waiting,    \* the reads that wait, in order
    answers     \* of each read: "none", "pending", a chunk, "done", "rejected"

vars == <<lossy, state, sending, buffer, waiting, answers>>

Init ==
    /\ lossy \in BOOLEAN
    /\ state = "open"
    /\ sending = FALSE
    /\ buffer = <<>>
    /\ waiting = <<>>
    /\ answers = [i \in 1..MaxReads |-> "none"]

\* The answers once the waiting reads are answered, all at once.
Answering(answer) ==
    [i \in DOMAIN answers |-> IF i \in Range(waiting) THEN answer ELSE answers[i]]

AnswerWaiting(answer) ==
    /\ waiting' = <<>>
    /\ answers' = Answering(answer)

Unsent(chunk) == chunk \notin Range(buffer) \cup Range(answers)

\* The first half: nobody waits for the chunk.
BeginSend ==
    /\ state = "open" /\ ~sending /\ waiting = <<>>
    /\ sending' = TRUE
    /\ UNCHANGED <<lossy, state, buffer, waiting, answers>>

\* The second one; the channel may have ended meanwhile.
EndSend(chunk) ==
    /\ sending
    /\ sending' = FALSE
    /\ IF state = "open" THEN Unsent(chunk) /\ buffer' = Append(buffer, chunk)
       ELSE UNCHANGED buffer
    /\ UNCHANGED <<lossy, state, waiting, answers>>

\* A read waits for the chunk.
Hand(chunk) ==
    /\ state = "open" /\ waiting # <<>>
    /\ Unsent(chunk)
    /\ waiting' = Tail(waiting)
    /\ answers' = IF lossy THEN answers ELSE [answers EXCEPT ![Head(waiting)] = chunk]
    /\ UNCHANGED <<lossy, state, sending, buffer>>

\* The last chunk may end a channel that is being closed.
Receive(i) ==
    /\ answers[i] = "none"
    /\ \A j \in 1..(i - 1) : answers[j] # "none"
    /\ \/ /\ state = "open" /\ buffer # <<>>
          /\ buffer' = Tail(buffer)
          /\ \/ /\ answers' = [answers EXCEPT ![i] = Head(buffer)]
                /\ UNCHANGED <<state, waiting>>
             \/ /\ buffer' = <<>> /\ state' = "closed"
                /\ waiting' = <<>>
                /\ answers' = [Answering("done") EXCEPT ![i] = Head(buffer)]
       \/ /\ state = "open" /\ buffer = <<>>
          /\ waiting' = Append(waiting, i)
          /\ answers' = [answers EXCEPT ![i] = "pending"]
          /\ UNCHANGED <<state, buffer>>
       \/ /\ state # "open"
          /\ answers' = [answers EXCEPT ![i] = IF state = "failed" THEN "rejected" ELSE "done"]
          /\ UNCHANGED <<state, buffer, waiting>>
    /\ UNCHANGED <<lossy, sending>>

Close ==
    /\ state = "open" /\ buffer = <<>>
    /\ state' = "closed"
    /\ AnswerWaiting("done")
    /\ UNCHANGED <<lossy, sending, buffer>>

Cancel ==
    /\ state = "open"
    /\ state' = "cancelled" /\ buffer' = <<>>
    /\ AnswerWaiting("done")
    /\ UNCHANGED <<lossy, sending>>

\* The second half of a send may fail.
Fail ==
    /\ state = "open"
    /\ state' = "failed" /\ buffer' = <<>>
    /\ IF lossy THEN UNCHANGED <<waiting, answers>> ELSE AnswerWaiting("rejected")
    /\ sending' \in {sending, FALSE}
    /\ UNCHANGED lossy

Next ==
    \/ BeginSend
    \/ \E chunk \in Chunks : EndSend(chunk) \/ Hand(chunk)
    \/ \E i \in 1..MaxReads : Receive(i)
    \/ Close
    \/ Cancel
    \/ Fail

Spec == Init /\ [][Next]_vars
=============================================================================
