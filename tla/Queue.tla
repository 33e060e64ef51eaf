------------------------------- MODULE Queue -------------------------------
(***************************************************************************)
(* What publisher/queue/queue.go promises of every queue, independent of   *)
(* the implementation: events are accepted in some order, handed to the    *)
(* consumer in that order, and released in that order, never before they   *)
(* were handed out.  The queue holds at most Capacity events.  Once it is  *)
(* closing it accepts nothing more, and it is finished only after every    *)
(* accepted event was released.                                            *)
(***************************************************************************)
EXTENDS Naturals, Sequences

CONSTANTS Event,     \* the entries producers publish
          Capacity   \* BufferConfig.MaxEvents

VARIABLES accepted,  \* every event ever accepted, oldest first
          read,      \* how many of them were handed to the consumer
          released,  \* how many of them were acknowledged and discarded
          closing,   \* Close() was called
          finished   \* the channel returned by Done() is unblocked

vars == <<accepted, read, released, closing, finished>>

Init ==
  /\ accepted = <<>>
  /\ read = 0
  /\ released = 0
  /\ closing = FALSE
  /\ finished = FALSE

\* An event enters.  A waiting Get may be answered in the same step.
Accept(e) ==
  /\ ~closing
  /\ Len(accepted) - released < Capacity
  /\ accepted' = Append(accepted, e)
  /\ read' \in read..Len(accepted')
  /\ UNCHANGED <<released, closing, finished>>

\* A Get is answered with a batch of the oldest unread events.
Read ==
  /\ read' \in (read + 1)..Len(accepted)
  /\ UNCHANGED <<accepted, released, closing, finished>>

\* Batches the consumer is done with are discarded, oldest first.
Release ==
  /\ released' \in (released + 1)..read
  /\ finished' = (closing /\ released' = Len(accepted))
  /\ UNCHANGED <<accepted, read, closing>>

\* Close.  A waiting Get may be answered in the same step.
Close ==
  /\ ~closing
  /\ closing' = TRUE
  /\ read' \in read..Len(accepted)
  /\ UNCHANGED <<accepted, released, finished>>

Next == (\E e \in Event : Accept(e)) \/ Read \/ Release \/ Close

Spec == Init /\ [][Next]_vars

=============================================================================
