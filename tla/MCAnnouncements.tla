--------------------------- MODULE MCAnnouncements ---------------------------
(* Instances of Announcements for TLC.                                      *)
EXTENDS Announcements, TLC

CONSTANTS w1, w2, a1, a2, u1, u2, c1, c2

Everything == AllOps \cup {"create"}

(* Concurrent requests: those that touch a counter, a row or a deleted row. *)
Counted == Everything \ {"publish", "mark_read", "mark_unread"}

Symmetry == Permutations(Workers) \cup Permutations(Users) \cup Permutations(Comments)
=============================================================================
