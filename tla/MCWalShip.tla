------------------------------ MODULE MCWalShip ------------------------------
(* Small instances of WalShip for TLC. *)
EXTENDS WalShip, TLC

\* In the order of the reasons a run needs them.
Bounds(commits, spills, snapshots, segments, holds, kills) ==
    [txn |-> commits, spill |-> spills, snapshot |-> snapshots, segment |-> segments,
     hold |-> holds, kill |-> kills]

\* The application alone; a transaction that spills, and may be rolled back, while a Put fails; a
\* shipper that dies and a Put that fails; a hold that is lost and a snapshot that fails.
MCSites == {Bounds(3, 0, 0, 0, 0, 0), Bounds(2, 1, 0, 1, 0, 0), Bounds(2, 0, 0, 1, 0, 1),
            Bounds(2, 0, 1, 0, 1, 0)}

\* One snapshot that fails.
LossSites == {Bounds(1, 0, 1, 0, 0, 0)}

\* No property names a page.
PageSymmetry == Permutations(Pages)
=============================================================================
