--------------------------- MODULE MCFileServices ---------------------------
(***************************************************************************)
(* The instance of FileServices for TLC: three devices, of which fs0 is    *)
(* the second, one host file, reached below fs0 and by the fallback of     *)
(* find_device, and a path that no device opens.                           *)
(***************************************************************************)
EXTENDS FileServices

CONSTANTS t1, t2, txt, dev

MCDevices == {1, 2, 3}
MCHostFiles == {<<txt>>}
MCPaths == {<<dev>>, <<dev, 1>>, <<dev, 3, txt>>, <<dev, 2, txt>>, <<txt>>}

=============================================================================
