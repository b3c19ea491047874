---------------------------- MODULE MCBgpdOrder -----------------------------
(***************************************************************************)
(* Values of the constants of BgpdOrder for TLC.                           *)
(***************************************************************************)
EXTENDS BgpdOrder

CONSTANTS x, a, b

\* Two announcements of one prefix that differ, its withdrawal, and a message
\* that does both.
OrderUpdates ==
    {[wd |-> <<>>, nlri |-> <<x>>, attr |-> a],
     [wd |-> <<>>, nlri |-> <<x>>, attr |-> b],
     [wd |-> <<x>>, nlri |-> <<>>, attr |-> a],
     [wd |-> <<x>>, nlri |-> <<x>>, attr |-> b]}

\* Plain messages only.
PlainUpdates == {u \in OrderUpdates : u.wd = <<>> \/ u.nlri = <<>>}

\* Neighbour p always sends identifier p.
OneIdEach == [p \in Peer |-> {p}]
=============================================================================
