--------------------------- MODULE MCFileSystem ---------------------------
(***************************************************************************)
(* An instance of FileSystem for TLC: one device, one file, two            *)
(* descriptors and a task with its own, positions on both sides of the     *)
(* contents, pieces that may be empty.                                     *)
(***************************************************************************)
EXTENDS FileSystem

MCDevices == <<"/dev/null">>
MCNames == {"file"}
MCBuffers == {<<>>, <<"a", "b">>}
MCOffsets == {-2, 1}
MCCounts == {2}

===========================================================================
