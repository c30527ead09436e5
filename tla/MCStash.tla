------------------------------- MODULE MCStash -------------------------------
(* Instances of Stash for TLC. *)
EXTENDS Stash, TLC

CONSTANTS r1, r2, inbox, c1, c2, l1, l2, l3, f1, f2, f3, x1, x2, x3, t1, t2

Tail == "ext"
Devices == r1 :> "disk" @@ r2 :> "mount" @@ inbox :> "disk"
Roots   == c1 :> r1 @@ c2 :> r2
Paths   == {"a", "b"} \X {Tail}

\* A loot of one file, and a file in the inbox that two runs may take for a loot of
\* its own.  Under t2 old and new change names.
Owners == f1 :> l1 @@ f2 :> l2 @@ f3 :> l3
Stems  == t1 :> (l1 :> "a" @@ l2 :> "b" @@ l3 :> "b")
       @@ t2 :> (l1 :> "b" @@ l2 :> "a" @@ l3 :> "a")
Disk   == [p \in (({r1, r2} \cup {inbox}) \X Paths) |->
             IF p = <<r1, <<"a", Tail>>>> THEN x1
             ELSE IF p = <<inbox, <<"a", Tail>>>> THEN x3 ELSE Nothing]
OldRow(stem, x) == [path |-> <<stem, Tail>>, hash |-> x, of |-> x, by |-> "start"]
InRows == f1 :> OldRow("a", x1) @@ f2 :> NoRow @@ f3 :> NoRow
InColl == l1 :> c1 @@ l2 :> NoColl @@ l3 :> NoColl
InTpl  == c1 :> t1 @@ c2 :> t2
=============================================================================
