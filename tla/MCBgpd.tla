------------------------------- MODULE MCBgpd -------------------------------
(***************************************************************************)
(* Values of the constants of Bgpd for TLC.                                *)
(***************************************************************************)
EXTENDS Bgpd

CONSTANTS x, a

\* An announcement, a withdrawal, and a message that carries both.
SmallUpdates ==
    {[wd |-> <<>>, nlri |-> <<x>>, attr |-> a],
     [wd |-> <<x>>, nlri |-> <<>>, attr |-> a],
     [wd |-> <<x>>, nlri |-> <<x>>, attr |-> a]}

\* Plain messages only.
PlainUpdates == {u \in SmallUpdates : u.wd = <<>> \/ u.nlri = <<>>}

\* Neighbour p always sends identifier p.
OneIdEach == [p \in Peer |-> {p}]
=============================================================================
