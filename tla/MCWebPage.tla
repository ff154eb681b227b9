----------------------------- MODULE MCWebPage -----------------------------
(* A snapshot with two pages of objects and one with other objects that a  *)
(* refresh captures. One search finds all objects, the other one those      *)
(* without a.                                                               *)
EXTENDS WebPage

CONSTANTS old, new, a, b, all, some

AllFound ==
    [s \in Snapshots |-> [q \in Searches |->
        IF s = new THEN <<b>> ELSE IF q = all THEN <<a, b>> ELSE <<b>>]]
=============================================================================
