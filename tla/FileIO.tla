------------------------------- MODULE FileIO -------------------------------
(***************************************************************************)
(* A File of the client, opened on a file (ByteStream) or on a directory   *)
(* (Listing).  handleRead, handleWrite and handleReaddir refuse the other  *)
(* kind, so one File does one or the other.                                *)
(***************************************************************************)
EXTENDS Listing, ByteStream

VARIABLE isDir   \* what the fid was opened on

vars == <<isDir, dirVars, fileVars>>

Init ==
  /\ isDir \in BOOLEAN
  /\ DirInit /\ FileInit
  /\ IF isDir THEN iounit = ClampIOUnit(0)
              ELSE children = {} /\ ~raw /\ count = CHOOSE n \in Counts : TRUE

Next ==
  \/ isDir /\ DirNext /\ UNCHANGED <<isDir, fileVars>>
  \/ ~isDir /\ FileNext /\ UNCHANGED <<isDir, dirVars>>

Spec == Init /\ [][Next]_vars
=============================================================================
