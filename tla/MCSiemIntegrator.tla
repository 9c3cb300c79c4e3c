--------------------------- MODULE MCSiemIntegrator ---------------------------
(* Batches of two events, and circuits that open at the second failure. *)
EXTENDS SiemIntegrator

CONSTANTS splunk, elk

\* Bounds: after a second start() there is one connector, and one event, or two events and no
\* failure.  The names are alike, so that one of the two orders in which they are added stands
\* for both.
Bounded ==
  /\ connectors # <<>> => connectors[1] = splunk
  /\ started = 2 =>
       /\ Len(connectors) < 2
       /\ accepted < 3
       /\ accepted = 2 => \A c \in Names : failure_counts[c] = 0

===============================================================================
