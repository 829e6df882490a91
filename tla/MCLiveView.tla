----------------------------- MODULE MCLiveView -----------------------------
(* One page that shows one of two views.                                     *)
EXTENDS LiveView

CONSTANTS all, report, p1

MCView == [c \in Clients |-> report]
=============================================================================
