-------------------------- MODULE MCOverlayGroups --------------------------
(* An instance of OverlayGroups: two loose nodes, a container and its node. *)
EXTENDS OverlayGroups, TLC

CONSTANTS na, nb, nc, nk

Free(ns) == [members |-> ns, locked |-> FALSE]
Locked(ns) == [members |-> ns, locked |-> TRUE]
MCNodes == {na, nb, nc, nk}
MCSavedGroups ==
    {<< >>, 2 :> Free({na, nk}),
     <<Locked({na, nb}), Free({1, nc})>>, <<Free({na, nb}), Free({1, nc})>>, <<Free({na, nk}), Locked({1, nb})>>}
=============================================================================
