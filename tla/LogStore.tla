------------------------------ MODULE LogStore ------------------------------
(***************************************************************************)
(* What the logger promises: entries become rows in the order they were    *)
(* logged and once at most.  An entry that is not a row yet may be dropped *)
(* (its INSERT or COMMIT fails, or the process ends); rows disappear all   *)
(* together or the oldest first, and then never while no more than         *)
(* MaxLogRows are left.  When the writer runs, and what readers do, is     *)
(* left open.                                                              *)
(***************************************************************************)
EXTENDS Naturals, Sequences

CONSTANTS Entry, MaxLogRows

VARIABLES
    pending,  \* entries accepted and not yet rows, oldest first
    rows      \* the rows, oldest first

vars == <<pending, rows>>

Init == pending = <<>> /\ rows = <<>>

Log(e) ==
    /\ pending' = Append(pending, e)
    /\ UNCHANGED rows

(* The n oldest entries become rows. *)
Store(n) ==
    /\ rows' = rows \o SubSeq(pending, 1, n)
    /\ pending' = SubSeq(pending, n + 1, Len(pending))

(* The entries from the i-th to the j-th are dropped. *)
Drop(i, j) ==
    /\ pending' = SubSeq(pending, 1, i - 1) \o SubSeq(pending, j + 1, Len(pending))
    /\ UNCHANGED rows

Trim ==
    /\ Len(rows) > MaxLogRows
    /\ rows' = SubSeq(rows, Len(rows) - MaxLogRows + 1, Len(rows))
    /\ UNCHANGED pending

Clear ==
    /\ rows' = <<>>
    /\ UNCHANGED pending

Forget ==
    /\ pending' = <<>>
    /\ UNCHANGED rows

Next ==
    \/ \E e \in Entry : Log(e)
    \/ \E n \in 1 .. Len(pending) : Store(n)
    \/ \E i, j \in 1 .. Len(pending) : i <= j /\ Drop(i, j)
    \/ Trim
    \/ Clear
    \/ Forget

Spec == Init /\ [][Next]_vars
=============================================================================
