-------------------------- MODULE MCNalogoReceipts --------------------------
(* Small instances of NalogoReceipts for TLC. *)
EXTENDS NalogoReceipts

CONSTANTS top, gift, \* a top-up and a code-only gift
          h1, h2, loop, force, admin
=============================================================================
