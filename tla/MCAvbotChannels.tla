-------------------------- MODULE MCAvbotChannels --------------------------
(* AvbotChannels for TLC: two QQ groups, an IRC room, an XMPP room, mail.   *)
EXTENDS AvbotChannels

qq1 == Room("qq", 1)
qq2 == Room("qq", 2)
irc1 == Room("irc", 1)
xmpp1 == Room("xmpp", 1)

MCRooms == {qq1, qq2, irc1, xmpp1, Mail}
MCQqs == {1, 2}
MCAccounts == {"qq", "irc", "xmpp"}
MCRpcChannels == {BLANK, 2}

\* Groups that share no room: without QQ groups, with a QQ group that is not
\* the first room, with a room named twice and rooms left out of map=.
MCDisjoint ==
    {<<<<irc1, qq2, qq1, irc1>>, <<xmpp1, Mail>>>>,
     <<<<xmpp1, qq1>>>>}
=============================================================================
