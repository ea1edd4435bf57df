--------------------------- MODULE MCTalkbackBank ---------------------------
(* TLC instances of TalkbackBank: users and channel ids as model values.   *)
EXTENDS TalkbackBank, TLC
=============================================================================
