----------------------------- MODULE BgpdOrder ------------------------------
(***************************************************************************)
(* Bgpd with history variables that record what the neighbours' UPDATEs    *)
(* ask for, in the order the main thread parses them.  proc_in_q puts      *)
(* announcements and withdrawals on two queues and init_BGP empties the    *)
(* first before the second, so the order between them is lost; the module  *)
(* states when that matters.                                               *)
(***************************************************************************)
EXTENDS Bgpd

VARIABLES
    wanted,   \* the RIB the UPDATEs parsed so far ask for
    flipped   \* keys announced while a withdrawal of theirs was queued, or by
              \* a message that also withdraws

orderVars == <<vars, wanted, flipped>>

KeyOf(item) == <<item.prefix, item.id>>

WdrawPending(k) ==
    \E n \in 1..Len(adj_rib_in_wdraw_q) : KeyOf(adj_rib_in_wdraw_q[n]) = k
Pending(k) ==
    WdrawPending(k) \/ \E n \in 1..Len(adj_rib_in_q) : KeyOf(adj_rib_in_q[n]) = k

\* Keys an UPDATE of the neighbour being processed withdraws and announces.
Asked(prefixes) == {<<prefixes[n], bgp_id[cur]>> : n \in 1..Len(prefixes)}

\* Parsing an UPDATE: the last word on every key it names.
Record ==
    LET gone == Asked(packet.wd)
        here == Asked(packet.nlri)
    IN  /\ wanted' = [k \in Key |-> IF k \in here THEN packet.attr
                                    ELSE IF k \in gone THEN None
                                    ELSE wanted[k]]
        /\ flipped' = (flipped \ (gone \cup here))
                          \cup {k \in here : WdrawPending(k) \/ packet.wd # <<>>}

\* A flush takes back what is not queued to come.
Forget ==
    /\ wanted' = [k \in Key |-> IF adj_rib_in[k] # None /\ adj_rib_in'[k] = None
                                   /\ ~Pending(k)
                                THEN None ELSE wanted[k]]
    /\ UNCHANGED flipped

OrderInit ==
    /\ Init
    /\ wanted = [k \in Key |-> None]
    /\ flipped = {}

OrderNext ==
    \/ Parse /\ Record
    \/ MainRun /\ mpc # "parse" /\ UNCHANGED <<wanted, flipped>>
    \/ KillAll /\ UNCHANGED <<wanted, flipped>>
    \/ \E p \in Peer : (PeerRun(p) \/ Remote(p) \/ HoldTimePasses(p)) /\ Forget

OrderSpec == OrderInit /\ [][OrderNext]_orderVars

\* Between two rounds of the main thread the RIB holds, for every key, what
\* the last UPDATE about it said, whatever the threads did to the sessions.
LatestUpdateWins ==
    mpc = "wait" /\ ~stop => adj_rib_in = wanted

\* The only keys for which that can fail are those withdrawn and announced
\* again within one round of the main thread, and those announced by a message
\* with withdrawn routes, whose announcements proc_in_q does not look at.
LatestUpdateWinsUnlessFlipped ==
    mpc = "wait" /\ ~stop =>
        \A k \in Key : adj_rib_in[k] # wanted[k] => k \in flipped
=============================================================================
