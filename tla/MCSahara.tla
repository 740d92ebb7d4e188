------------------------------ MODULE MCSahara ------------------------------
(***************************************************************************)
(* A three-byte loader and four-bit words for TLC, so that the signs and    *)
(* the wrap-around of the request arithmetic are within reach.             *)
(***************************************************************************)
EXTENDS SaharaClaims

\* inside the loader, its last byte, its end, the largest positive int, and
\* the two negative ints at which the subtraction does and does not wrap
MCOffsets == {1, 2, 3, 8, 15}
MCSizes == {2, 9}
MCReplies == {<<>>, <<"ACK">>, <<"log", "NAK">>}
=============================================================================
