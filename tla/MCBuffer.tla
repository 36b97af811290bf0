------------------------------ MODULE MCBuffer ------------------------------
(* Buffer on a small instance: see MCBuffer.cfg and MCBufferDelim.cfg. *)
EXTENDS Buffer

CONSTANTS cr, lf, x

CRLF == <<cr, lf>>
=============================================================================
