------------------------------ MODULE FileCopy ------------------------------
(***************************************************************************)
(* What the transfer of one file promises the synchronising client, with   *)
(* no packets, windows, acknowledgements or retries: the temporary file    *)
(* always holds a prefix of the server's file that ends on a chunk         *)
(* boundary, it only grows, and it is installed under its final name       *)
(* exactly when it is the whole file.  The copy may be given up at any     *)
(* moment before that.                                                     *)
(***************************************************************************)
EXTENDS Integers, Sequences

CONSTANTS
    NChunks,  \* number of chunks of the file
    Bound     \* Bound[c]: number of packets in the first c chunks

VARIABLES
    written,  \* contents of the temporary file, as a sequence of packets
    outcome   \* "pending", "installed" or "aborted"

vars == <<written, outcome>>

\* The first c chunks of the file; the whole file is Prefix(NChunks).
Prefix(c) == [k \in 1..Bound[c] |-> k]

Init == written = <<>> /\ outcome = "pending"

\* One or more whole chunks reach the disk; the last one installs the file.
Extend ==
    /\ outcome = "pending"
    /\ \E c \in 1..NChunks :
          /\ Len(written) < Bound[c]
          /\ written' = Prefix(c)
          /\ outcome' = IF c = NChunks THEN "installed" ELSE "pending"

Abort == outcome = "pending" /\ outcome' = "aborted" /\ UNCHANGED written

Next == Extend \/ Abort

Spec == Init /\ [][Next]_vars

=============================================================================
