-------------------------- MODULE MCThreadPrograms --------------------------
(***************************************************************************)
(* Instance of the programs with threads: what the files of a search may   *)
(* be, a password of one character, one that is cut, none, and no file.    *)
(***************************************************************************)
EXTENDS ThreadPrograms

MCShownArchives == {<<0>>, <<0, 1>>, NoPassword, Unreadable}

=============================================================================
