----------------------------- MODULE MCChannels -----------------------------
(* Two channels of one tag, or one channel and the id of one to be added.      *)
EXTENDS Channels

CONSTANTS c1, c2, x, y

MCChannels == {c1, c2}
MCPriority == [c \in MCChannels |-> IF c = c1 THEN 1 ELSE 0]
MCRow(s, t) == [status |-> s, tag |-> t]
MCStarts ==
  {[c \in MCChannels |-> MCRow(IF c = c1 THEN "enabled" ELSE s, x)] : s \in {"auto", "none"}}
=============================================================================
