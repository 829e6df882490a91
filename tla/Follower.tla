------------------------------ MODULE Follower ------------------------------
(***************************************************************************)
(* What every part of the program that keeps a copy of the project's files *)
(* promises at least: the files change on their own, the copy follows      *)
(* them, each of its entries only forward and never past what the file     *)
(* has been.  An entry may skip changes, and lag.                          *)
(***************************************************************************)
EXTENDS Integers

CONSTANT Keys

VARIABLES source,  \* Keys -> the last change of the file
          copy     \* Keys -> the change the copy shows

Init ==
  /\ source \in [Keys -> Nat]
  /\ copy \in [Keys -> Nat]
  /\ \A k \in Keys : copy[k] <= source[k]

Change ==
  /\ source' \in [Keys -> Nat]
  /\ \A k \in Keys : source'[k] >= source[k]
  /\ UNCHANGED copy

Follow ==
  /\ copy' \in [Keys -> Nat]
  /\ \A k \in Keys : copy'[k] \in copy[k] .. source[k]
  /\ UNCHANGED source

Next == Change \/ Follow

Spec == Init /\ [][Next]_<<source, copy>>
=============================================================================
