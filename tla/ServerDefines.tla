---------------------------- MODULE ServerDefines ----------------------------
(***************************************************************************)
(* What every server component shares: ids count up from 1, and 0 is the   *)
(* invalid id (server/server_defines.h).                                   *)
(***************************************************************************)
EXTENDS Naturals

CONSTANT NULL   \* a null session pointer, an empty string, an absent field

INVALID_USER_ID == 0

INVALID_NOTIFICATION_ID == 0

UserIds == Nat \ {INVALID_USER_ID}

NotificationIds == Nat \ {INVALID_NOTIFICATION_ID}
=============================================================================
