-------------------------------- MODULE MCAdb --------------------------------
(***************************************************************************)
(* Both transports, every greeting and commands with no output and with two *)
(* pieces of it, for TLC.                                                   *)
(***************************************************************************)
EXTENDS AdbSession

MCTransports == {"tcp", "usb"}
MCGreetings == {"open", "known", "unknown", "stls"}
MCLengths == {0, 2}
=============================================================================
