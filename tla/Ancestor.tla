------------------------------ MODULE Ancestor ------------------------------
(***************************************************************************)
(* eth/downloader: the search for the last block shared with a peer, or    *)
(* with the skeleton, before a sync.  First headers at equal distances     *)
(* near the head are asked for (findAncestorSpanSearch), then the chain is *)
(* halved (findAncestorBinarySearch), a request for each step.             *)
(*                                                                         *)
(* Both chains agree up to a fork, so a header of the peer is known if it  *)
(* is not above it.  The numbers are those of the code.                    *)
(***************************************************************************)
EXTENDS Integers

CONSTANTS LocalHeights, RemoteHeights, \* heights to try
          Below,                       \* how far under the lower head the fork may be
          MaxForkAncestry              \* fullMaxForkAncestry

ASSUME AncestorAssumption ==
  LocalHeights \subseteq Nat /\ RemoteHeights \subseteq Nat /\ Below \in Nat /\ MaxForkAncestry \in Nat

VARIABLES
  heights,  \* of the local chain and of the peer's, and the last block they share
  lookup,   \* where the search is: the interval left
  found     \* its result

ancestorVars == <<heights, lookup, found>>

MaxHeaderFetch == 192
Least(m, n) == IF m < n THEN m ELSE n
Most(m, n) == IF m < n THEN n ELSE m

Unfound == -1
InvalidAncestor == -2

Known(n) == n <= heights.fork
Floor == IF heights.local >= MaxForkAncestry THEN heights.local - MaxForkAncestry ELSE -1

\* calculateRequestSpan: the first number, the count and the distance
RequestSpan(remoteHeight, localHeight) ==
  LET maxCount == MaxHeaderFetch \div 16
      requestHead == Most(remoteHeight - 1, 0)
      requestBottom == Most(localHeight - 1, 0)
      \* / rounds to zero
      Quotient(m, n) == IF m < 0 THEN -((-m) \div n) ELSE m \div n
      totalSpan == requestHead - requestBottom
      span == Least(Most(1 + Quotient(totalSpan, maxCount), 2), 16)
      count == Most(Least(1 + Quotient(totalSpan, span), maxCount), 2)
  IN [from |-> Most(requestHead - (count - 1) * span, 0), count |-> count, span |-> span]

\* mutant: the floor itself is good enough
AcceptedFloor(n) == IF n < Floor THEN InvalidAncestor ELSE n

Accepted(n) == IF n <= Floor THEN InvalidAncestor ELSE n

\* The headers the peer has of those asked for; the highest known is the ancestor.
SpanSearch ==
  /\ lookup.at = "span"
  /\ LET request == RequestSpan(heights.remote, heights.local)
         asked == {request.from + i * request.span : i \in 0..(request.count - 1)}
         shared == {n \in asked : n <= heights.remote /\ Known(n)}
     IN IF shared # {}
        THEN /\ found' = Accepted(CHOOSE n \in shared : \A m \in shared : m <= n)
             /\ lookup' = [lookup EXCEPT !.at = "ended"]
        ELSE /\ lookup' = [at |-> "halve", start |-> Most(Floor, 0), end |-> heights.remote]
             /\ UNCHANGED found
  /\ UNCHANGED heights

\* findBeaconAncestor: the skeleton ends on a known block.
BeaconSearch ==
  /\ lookup.at = "span"
  /\ \E tail \in RemoteHeights :
       /\ 0 < tail /\ tail <= heights.remote /\ Known(tail - 1)
       /\ lookup' = [at |-> "beacon", start |-> tail - 1, end |-> Least(heights.local, heights.remote)]
  /\ UNCHANGED <<heights, found>>

Halve ==
  /\ lookup.at \in {"halve", "beacon"} /\ lookup.start + 1 < lookup.end
  /\ LET check == (lookup.start + lookup.end) \div 2
     IN lookup' = IF Known(check) THEN [lookup EXCEPT !.start = check] ELSE [lookup EXCEPT !.end = check]
  /\ UNCHANGED <<heights, found>>

EndHalving ==
  /\ lookup.at \in {"halve", "beacon"} /\ lookup.start + 1 >= lookup.end
  /\ found' = IF lookup.at = "beacon" THEN lookup.start ELSE Accepted(lookup.start)
  /\ lookup' = [lookup EXCEPT !.at = IF @ = "beacon" THEN "linked" ELSE "ended"]
  /\ UNCHANGED heights

AncestorInit ==
  /\ heights \in {h \in [local : LocalHeights, remote : RemoteHeights, fork : LocalHeights \cup RemoteHeights] :
                    h.fork <= Least(h.local, h.remote) /\ h.fork >= Least(h.local, h.remote) - Below}
  /\ lookup = [at |-> "span", start |-> 0, end |-> 0] /\ found = Unfound

AncestorNext == SpanSearch \/ BeaconSearch \/ Halve \/ EndHalving
AncestorSpec == AncestorInit /\ [][AncestorNext]_ancestorVars

-----------------------------------------------------------------------------
(* What a sync starts from.                                                *)

\* findAncestorSpanSearch, findAncestorBinarySearch and findBeaconAncestor agree with
\* the fork they look for: the block found is shared, and no block is fetched again but the last few: less
\* than the distance of the headers asked for, or the head of one side.  A peer is
\* turned away only if its fork is too deep, as far as the distance allows to say.
AncestorExact ==
  /\ lookup.at = "ended" =>
       \/ found \in (Floor + 1)..heights.fork /\ heights.fork - found < 16
       \/ found = InvalidAncestor /\ heights.fork < Floor + 16
  /\ lookup.at = "linked" => found <= heights.fork /\ heights.fork - found <= 1
=============================================================================
