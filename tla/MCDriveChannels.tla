--------------------------- MODULE MCDriveChannels ---------------------------
(* Instances of DriveChannels for TLC. *)
EXTENDS DriveChannels, TLC

\* Ids and requests are interchangeable, and the properties are invariants.
Alike == Permutations(Channels) \cup Permutations(Requests) \cup Permutations(Subs)

=============================================================================
