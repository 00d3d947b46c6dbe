-------------------------- MODULE MCAnnouncementInbox --------------------------
(* One reminder that is due at 1, and two drops that use one name, which sorts *)
(* after that of the reminder.                                                 *)
EXTENDS AnnouncementInbox

MCNameOf == [m \in Messages |-> IF m = 1 THEN 1 ELSE 2]

================================================================================
