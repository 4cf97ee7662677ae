---------------------------- MODULE ReceivePathMC ----------------------------
(***************************************************************************)
(* Forged datagrams for the runs of ReceivePath, as [typ, length, body]:   *)
(* the chunk type, the length its header claims, the zero bytes after it.  *)
(***************************************************************************)
EXTENDS ReceivePath

\* An INIT with its 16-byte minimum, a COOKIE-ECHO, a HEARTBEAT-ACK, a
\* header claiming less than itself and one claiming more than is there.
\* (ForgeHeaderOnly adds the datagram with no chunk at all.)
MCForgeries ==
    { [typ |-> 1, length |-> 20, body |-> 16],
      [typ |-> 10, length |-> 8, body |-> 4],
      [typ |-> 5, length |-> 4, body |-> 0],
      [typ |-> 10, length |-> 2, body |-> 0],
      [typ |-> 11, length |-> 12, body |-> 4] }

\* An INIT chunk header with no value after it, the last thing in the
\* datagram.
MCForgeriesTruncatedInit ==
    { [typ |-> 1, length |-> 4, body |-> 0] }
=============================================================================
