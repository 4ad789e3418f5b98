----------------------------- MODULE MCConsumer -----------------------------
(***************************************************************************)
(* Instances of Consumer for TLC.                                          *)
(***************************************************************************)
EXTENDS Consumer

Event == [copy |-> 1, id |-> 1, content |-> 1, kind |-> "good"]

\* An event, a well-formed message of the same id whose properties contradict it, and a
\* message with that id that cannot be read.
SomeMessages ==
  { Event,
    [copy |-> 1, id |-> 1, content |-> 2, kind |-> "mismatched"],
    [copy |-> 1, id |-> 1, content |-> 3, kind |-> "unreadable"] }

\* Two events with one id.
ConflictingMessages == { Event, [copy |-> 1, id |-> 1, content |-> 2, kind |-> "good"] }

OneEvent == {Event}
=============================================================================
