----------------------------- MODULE LzwVersions -----------------------------
(***************************************************************************)
(* The two versions of lzw_encode in the repository: a program is linked   *)
(* with the one (Lzw) or with the other (LzwOld).                          *)
(***************************************************************************)
EXTENDS Lzw, LzwOld

VersionsInit == Init /\ OldInit

New == old_data = << >> /\ Next /\ UNCHANGED oldVars
Older == calls = 0 /\ OldNext /\ UNCHANGED vars

VersionsSpec == VersionsInit /\ [][New \/ Older]_<<vars, oldVars>>
=============================================================================
