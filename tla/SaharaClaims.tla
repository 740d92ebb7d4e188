---------------------------- MODULE SaharaClaims ----------------------------
(* What a comment of the repository says of an EDL session and the code does  *)
(* not do.                                                                    *)
EXTENDS SaharaSession

\* FirehoseClient.cs:103: "Check if we have a complete response (ACK or NAK)".
\* A call fails for want of an ACK only if no ACK has arrived.
AckIsSeen ==
    [][outcome' = "firehose" /\ outcome # "firehose"
          => \A i \in DOMAIN received : received[i] # "ACK"]_vars
=============================================================================
