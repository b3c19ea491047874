------------------------------ MODULE AdjRibIn ------------------------------
(***************************************************************************)
(* What the Adj-RIB-In promises its readers: a table of routes keyed by    *)
(* prefix and BGP identifier in which one step changes at most one key,    *)
(* and a route appears only under the identifier of a neighbour that has   *)
(* completed an OPEN.                                                      *)
(***************************************************************************)
CONSTANTS Prefix, Id, Attr, None

VARIABLES
    rib,      \* the routes
    owners    \* identifiers learned from OPEN messages

Init ==
    /\ rib = [k \in Prefix \X Id |-> None]
    /\ owners = {}

Learn ==
    /\ \E i \in Id : owners' = owners \cup {i}
    /\ UNCHANGED rib

Put ==
    /\ \E x \in Prefix, i \in owners, a \in Attr :
         rib' = [rib EXCEPT ![<<x, i>>] = a]
    /\ UNCHANGED owners

Remove ==
    /\ \E k \in Prefix \X Id : rib' = [rib EXCEPT ![k] = None]
    /\ UNCHANGED owners

Next == Learn \/ Put \/ Remove

Spec == Init /\ [][Next]_<<rib, owners>>
=============================================================================
