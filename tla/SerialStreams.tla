---------------------------- MODULE SerialStreams ----------------------------
(***************************************************************************)
(* What the write path promises of the event streams: a command decides on *)
(* the state its first event of a stream follows, as if commands were      *)
(* executed one after the other, and a command is only acknowledged when   *)
(* its events, or those of an earlier call with the same command id, are   *)
(* in the streams.  CommandPath implements this.                           *)
(***************************************************************************)
EXTENDS Integers, Sequences

CONSTANTS
  Requests,
  Streams,
  Twins(_),     \* the requests that carry the same command id, r included
  Writes(_)     \* the streams a request appends to

VARIABLES
  history,      \* [Streams -> sequence of the events appended]
  acked         \* requests that were answered with success

Init ==
  /\ history = [s \in Streams |-> <<>>]
  /\ acked = {}

\* A request has an event in a stream.
Wrote(r, s) == \E i \in 1 .. Len(history[s]) : history[s][i].req = r

\* An event that was decided on everything before it.
Decide(r, s) ==
  /\ history' = [history EXCEPT ![s] = Append(@, [req |-> r, saw |-> Len(@)])]
  /\ UNCHANGED acked

\* A further event of a command: others may have come in between.
Follow(r, s) ==
  /\ Wrote(r, s)
  /\ \E n \in 0 .. Len(history[s]) :
       history' = [history EXCEPT ![s] = Append(@, [req |-> r, saw |-> n])]
  /\ UNCHANGED acked

Acknowledge(r) ==
  /\ \E q \in Twins(r) : \A s \in Writes(q) : Wrote(q, s)
  /\ acked' = acked \union {r}
  /\ UNCHANGED history

Next == \E r \in Requests : Acknowledge(r) \/ \E s \in Streams : Decide(r, s) \/ Follow(r, s)

Spec == Init /\ [][Next]_<<history, acked>>
=============================================================================
