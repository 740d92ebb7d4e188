-------------------------- MODULE DownloadModeClaims --------------------------
(* What DownloadModeFlasher says of its own results and does not keep.        *)
EXTENDS DownloadModeSession

\* "Partition {partitionName} flashed successfully", logged when the last ACK has
\* been read (DownloadModeFlasher.cs:180): a partition in SuccessfulPartitions is
\* on the device, whichever answers were late.
FlashedIsOnDevice == \A p \in ok : flash[p] = Whole(p)
=============================================================================
