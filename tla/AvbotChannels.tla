--------------------------- MODULE AvbotChannels ---------------------------
(***************************************************************************)
(* How avbot passes messages from room to room: the channel map built from *)
(* the map= option (main.cpp, build_group), the channels added when a QQ   *)
(* group is found, forward_message and the other slots of on_message       *)
(* (libavbot/avbot.cpp, main.cpp), the answers of the command handler      *)
(* (botctl.cpp), and the group table of libwebqq that survives a restart   *)
(* (buddy_mgr.cpp, webqq_group_list.hpp).                                  *)
(*                                                                         *)
(* A room "irc:name", "qq:123", "xmpp:name" or "mail" is a record of its   *)
(* prefix and a number.  A channel name is a number too, so that < orders  *)
(* names as std::map orders the strings: "" first, then the names that     *)
(* begin with a digit (QQ numbers and group codes), then "group2",         *)
(* "group3"..., then "none".                                               *)
(***************************************************************************)
EXTENDS Naturals, FiniteSets, SequencesExt

CONSTANTS
    Configs,        \* the values of map=: sequences of groups of rooms
    Qqs,            \* the QQ groups the account is a member of, as numbers
    Rooms,          \* every room the bot is in, "mail" and "" included
    Accounts,       \* the prefixes whose account is set
    RpcChannels,    \* the channels an RPC client names
    MaxMessages,    \* bound: messages received
    MaxRestarts     \* bound: restarts of the process

Room(protocol, id) == [protocol |-> protocol, id |-> id]

NoRoom  == Room("none", 0)      \* room_name: a message without a room
Mail    == Room("mail", 0)
BLANK   == 0                    \* ""
Code(n) == 50 + n               \* the group code of QQ group n
Group(m) == 100 + m             \* "group" and the number m
NONE    == 200                  \* "none"

ASSUME ChannelsAssumption ==
    /\ Qqs \subseteq 1..49
    /\ "qq" \in Accounts
    /\ MaxMessages \in Nat /\ MaxRestarts \in Nat
    /\ \A config \in Configs : config \in Seq(Seq(Rooms))

VARIABLES
    config,         \* the value of map= this bot was started with
    m_channel_map,  \* the rooms of every channel
    announced,      \* the channels signal_new_channel was raised for
    m_groups,       \* the groups libwebqq listed since the last login
    db,             \* the groups table: per group absent, listed, numbered
    todo,           \* the groups whose QQ number is still to be fetched
    posted,         \* handlers in the io_service: the answers to be sent
    delayed,        \* the newcomers to be greeted when six seconds are over
    inbox,          \* history: what happened to every message received
    restarts

vars == <<config, m_channel_map, announced, m_groups, db, todo, posted,
          delayed, inbox, restarts>>

GroupVars == <<m_groups, db, todo>>

-----------------------------------------------------------------------------
(* Plausible mistakes in the operations below; no specification uses them.  *)

\* add_to_channel without the search for the room.
add_to_channel_Duplicates(s, channel_name, room) ==
    IF channel_name \in DOMAIN s.map
    THEN [s EXCEPT !.map[channel_name] = Append(@, room)]
    ELSE [map |-> s.map @@ (channel_name :> <<room>>),
          announced |-> Append(s.announced, channel_name)]

\* add_to_channel that raises the signal for every room.
add_to_channel_AlwaysSignals(s, channel_name, room) ==
    [map |-> IF channel_name \in DOMAIN s.map
             THEN [s.map EXCEPT ![channel_name] =
                                   IF Contains(@, room) THEN @ ELSE Append(@, room)]
             ELSE s.map @@ (channel_name :> <<room>>),
     announced |-> Append(s.announced, channel_name)]

\* forward_message that takes an unknown channel for the empty one.
forward_message_Everywhere(channel_name, room) ==
    IF channel_name \in DOMAIN m_channel_map
    THEN [channels |-> {channel_name}, exclude |-> room]
    ELSE [channels |-> DOMAIN m_channel_map, exclude |-> NoRoom]

\* An answer that leaves the room of the question out.
RunAnswer_SkipsAsker ==
    /\ posted # <<>>
    /\ posted' = Tail(posted)
    /\ inbox' = [inbox EXCEPT ![Head(posted)].answered = TRUE]
    /\ UNCHANGED <<config, m_channel_map, announced, GroupVars, delayed, restarts>>

-----------------------------------------------------------------------------
(* Channels.                                                               *)

\* add_to_channel: s holds the channel map and the channels announced.
add_to_channel(s, channel_name, room) ==
    IF channel_name \in DOMAIN s.map
    THEN [s EXCEPT !.map[channel_name] =
                      IF Contains(@, room) THEN @ ELSE Append(@, room)]
    ELSE [map |-> s.map @@ (channel_name :> <<room>>),
          announced |-> Append(s.announced, channel_name)]

\* m_channel_map[channel_name]: a name that is not there is inserted.
Subscript(map, channel_name) == map @@ (channel_name :> <<>>)

get_channel_name(map, room) ==
    LET holding == {c \in DOMAIN map : Contains(map[c], room)}
    IN  IF holding = {} THEN NONE ELSE Min(holding)

\* One group of map=: a group with a QQ group is named after the first one.
BuildOne(s, rooms) ==
    LET qq    == SelectInSeq(rooms, LAMBDA r : r.protocol = "qq")
        m     == IF qq = 0 THEN s.m + 1 ELSE s.m
        name  == IF qq = 0 THEN Group(m) ELSE rooms[qq].id
        built == FoldLeft(LAMBDA t, r : add_to_channel(t, name, r),
                          [map |-> s.map, announced |-> s.announced], rooms)
    IN  [map |-> built.map, announced |-> built.announced, m |-> m]

build_group(groups) ==
    FoldLeft(BuildOne, [map |-> <<>>, announced |-> <<>>, m |-> 1], groups)

\* A plausible mistake: no test for an existing channel.
group_found_NoTest(s, n) == add_to_channel(s, n, Room("qq", n))

\* callback_on_qq_group_found
group_found(s, n) ==
    IF get_channel_name(s.map, Room("qq", n)) = NONE
    THEN add_to_channel(s, n, Room("qq", n))
    ELSE s

-----------------------------------------------------------------------------
(* Sending.                                                                *)

\* The rooms broadcast_message can write to now.
Reachable ==
    {r \in Rooms : \/ r.protocol \in Accounts \cap {"irc", "xmpp"}
                   \/ r.protocol = "qq" /\ r.id \in Qqs /\ db[r.id] = "numbered"}

\* broadcast_message to some channels: how often it writes to each room.
broadcast_message(channels, exclude_room) ==
    LET places == UNION {{c} \X DOMAIN m_channel_map[c] :
                             c \in channels \cap DOMAIN m_channel_map}
    IN  [r \in Rooms |->
            IF r \in Reachable \ {exclude_room}
            THEN Cardinality({p \in places : m_channel_map[p[1]][p[2]] = r})
            ELSE 0]

\* forward_message: where a message goes, and the room that is left out.
forward_message(channel_name, room) ==
    CASE channel_name = BLANK ->
            [channels |-> DOMAIN m_channel_map, exclude |-> NoRoom]
      [] channel_name # BLANK /\ channel_name \in DOMAIN m_channel_map ->
            [channels |-> {channel_name}, exclude |-> room]
      [] OTHER ->
            [channels |-> {}, exclude |-> NoRoom]

Silence == [r \in Rooms |-> 0]

\* A message as the history keeps it; asks says that it is a command.
Received(kind, room, channel, asks, posts) ==
    [kind |-> kind, room |-> room, channel |-> channel, asks |-> asks,
     posts |-> posts, reachable |-> Reachable, answers |-> Silence, answered |-> FALSE]

\* What is left of a message when the bot is restarted.
Forgotten ==
    [Received("forgotten", NoRoom, BLANK, FALSE, Silence) EXCEPT !.reachable = {}]

(***************************************************************************)
(* on_message: the slots run in the order they were connected.             *)
(* forward_message sends; avbot_log looks up the channel with operator[];  *)
(* my_on_bot_command runs a command, or has a newcomer greeted later.      *)
(***************************************************************************)
on_message(kind, room, channel, asks) ==
    LET to == forward_message(channel, room)
    IN  /\ Len(inbox) < MaxMessages
        /\ inbox' = Append(inbox, Received(kind, room, channel, asks,
                                           broadcast_message(to.channels, to.exclude)))
        /\ m_channel_map' = IF channel = BLANK THEN m_channel_map
                            ELSE Subscript(m_channel_map, channel)
        /\ posted' = IF asks THEN Append(posted, Len(inbox) + 1) ELSE posted
        /\ delayed' = IF kind = "newbee" THEN delayed \cup {Len(inbox) + 1} ELSE delayed
        /\ UNCHANGED <<config, announced, GroupVars, restarts>>

callback_on_irc_message(room, asks) ==
    /\ room.protocol = "irc"
    /\ on_message("chat", room, get_channel_name(m_channel_map, room), asks)

callback_on_xmpp_group_message(room, asks) ==
    /\ room.protocol = "xmpp"
    /\ on_message("chat", room, get_channel_name(m_channel_map, room), asks)

(***************************************************************************)
(* callback_on_qq_group_message.  A group in the table without a number    *)
(* gives the room "qq:".  For a group that is not in the table             *)
(* get_group_by_gid tests an indicator that no row has set: it returns no  *)
(* group, or a group with no number.                                       *)
(***************************************************************************)
callback_on_qq_group_message(n, asks) ==
    \/ /\ db[n] = "numbered"
       /\ on_message("chat", Room("qq", n),
                     get_channel_name(m_channel_map, Room("qq", n)), asks)
    \/ /\ db[n] # "numbered"
       /\ on_message("chat", Room("qq", 0),
                     get_channel_name(m_channel_map, Room("qq", 0)), asks)
    \/ /\ db[n] = "absent"
       /\ on_message("chat", NoRoom, Code(n), asks)

callback_on_qq_group_newbee(n) ==
    /\ db[n] = "numbered"
    /\ get_channel_name(m_channel_map, Room("qq", n)) # NONE
    /\ on_message("newbee", Room("qq", n),
                  get_channel_name(m_channel_map, Room("qq", n)), FALSE)

\* process_post: an RPC client raises the same signal.
process_post(channel, asks) == on_message("rpc", NoRoom, channel, asks)

\* callback_on_mail builds the message, and that is all.
callback_on_mail ==
    /\ Len(inbox) < MaxMessages
    /\ inbox' = Append(inbox, Received("mail", Mail, get_channel_name(m_channel_map, Mail),
                                       FALSE, Silence))
    /\ UNCHANGED <<config, m_channel_map, announced, GroupVars, posted, delayed, restarts>>

\* broadcast_message(channel, msg), the msg_sender of on_bot_command.
Answer(i) ==
    /\ inbox' = [inbox EXCEPT ![i].answered = TRUE,
                              ![i].answers = broadcast_message({inbox[i].channel}, NoRoom)]
    /\ m_channel_map' = Subscript(m_channel_map, inbox[i].channel)

\* The handler iopost_msg has posted.
RunAnswer ==
    /\ posted # <<>>
    /\ posted' = Tail(posted)
    /\ Answer(Head(posted))
    /\ UNCHANGED <<config, announced, GroupVars, delayed, restarts>>

\* Six seconds after a newcomer: on_bot_command greets at once.
Welcome(i) ==
    /\ i \in delayed
    /\ delayed' = delayed \ {i}
    /\ Answer(i)
    /\ UNCHANGED <<config, announced, GroupVars, posted, restarts>>

-----------------------------------------------------------------------------
(* The groups libwebqq finds.                                              *)

\* check_login_op, at the beginning of every login.
check_login ==
    /\ todo = {}
    /\ m_groups' = {}
    /\ UNCHANGED <<config, m_channel_map, announced, db, todo, posted, delayed, inbox, restarts>>

(***************************************************************************)
(* update_group_list_op: the server's list S goes into the table, keeping  *)
(* a number that is there; m_groups is replaced when it already held one   *)
(* of the groups.  Only groups without a number are asked for theirs, and  *)
(* none is when the caller has to try again: after an entry with a bad gid *)
(* (the others count), or after one whose fields are missing, where the    *)
(* exception leaves the groups read so far inserted and skips the swap.    *)
(***************************************************************************)
update_group_list(S, list) ==
    /\ todo = {}
    /\ m_groups' = IF list # "malformed" /\ S \cap m_groups # {} THEN S ELSE m_groups \cup S
    /\ db' = [n \in Qqs |-> IF n \in S /\ db[n] = "absent" THEN "listed" ELSE db[n]]
    /\ todo' = IF list # "good" THEN {} ELSE {n \in m_groups' : db'[n] # "numbered"}
    /\ UNCHANGED <<config, m_channel_map, announced, posted, delayed, inbox, restarts>>

\* The number of a group arrives: siggroupnumber, then map_group_qqnum.
GroupNumber(n) ==
    /\ n \in todo
    /\ todo' = todo \ {n}
    /\ db' = [db EXCEPT ![n] = "numbered"]
    /\ LET s == group_found([map |-> m_channel_map, announced |-> announced], n)
       IN  m_channel_map' = s.map /\ announced' = s.announced
    /\ UNCHANGED <<config, m_groups, posted, delayed, inbox, restarts>>

GroupNumberFails(n) ==
    /\ n \in todo
    /\ todo' = todo \ {n}
    /\ UNCHANGED <<config, m_channel_map, announced, m_groups, db, posted, delayed,
                   inbox, restarts>>

\* The process ends and is started again: of all this only the table is kept.
Restart ==
    /\ restarts < MaxRestarts
    /\ restarts' = restarts + 1
    /\ m_channel_map' = build_group(config).map
    /\ announced' = build_group(config).announced
    /\ m_groups' = {} /\ todo' = {}
    /\ posted' = <<>> /\ delayed' = {}
    /\ inbox' = [i \in 1..Len(inbox) |-> Forgotten]
    /\ UNCHANGED <<config, db>>

-----------------------------------------------------------------------------
Init ==
    /\ config \in Configs
    /\ m_channel_map = build_group(config).map
    /\ announced = build_group(config).announced
    /\ m_groups = {} /\ todo = {}
    /\ db = [n \in Qqs |-> "absent"]
    /\ posted = <<>> /\ delayed = {}
    /\ inbox = <<>>
    /\ restarts = 0

ReceiveNext ==
    \/ \E room \in Rooms, asks \in BOOLEAN :
          \/ callback_on_irc_message(room, asks)
          \/ callback_on_xmpp_group_message(room, asks)
    \/ \E n \in Qqs, asks \in BOOLEAN : callback_on_qq_group_message(n, asks)
    \/ \E n \in Qqs : callback_on_qq_group_newbee(n)
    \/ \E channel \in RpcChannels, asks \in BOOLEAN : process_post(channel, asks)
    \/ Mail \in Rooms /\ callback_on_mail

Next ==
    \/ ReceiveNext
    \/ RunAnswer
    \/ \E i \in 1..MaxMessages : Welcome(i)
    \/ check_login
    \/ \E S \in SUBSET Qqs, list \in {"good", "bad_gid", "malformed"} : update_group_list(S, list)
    \/ \E n \in Qqs : GroupNumber(n) \/ GroupNumberFails(n)
    \/ Restart

Spec == Init /\ [][Next]_vars

\* io_service.run keeps running the handlers that are posted.
FairSpec == Spec /\ WF_vars(RunAnswer)

-----------------------------------------------------------------------------
(* Properties.                                                             *)

\* The rooms of the groups of map= that hold the room.
GroupsOf(room) == {g \in 1..Len(config) : Contains(config[g], room)}

(***************************************************************************)
(* qqbotrc.example: only chats configured into the same group of map= are  *)
(* forwarded to each other.  Whatever a chat or a newcomer's notice is     *)
(* written to shares a configured group with the room it came from, and is *)
(* not that room: neither the channels made for found QQ groups nor the    *)
(* empty ones made by operator[] leak a message into another group.        *)
(***************************************************************************)
SameGroupOnly ==
    \A i \in 1..Len(inbox) : \A r \in Rooms :
        inbox[i].kind \in {"chat", "newbee"} /\ inbox[i].posts[r] > 0
            => r # inbox[i].room /\ GroupsOf(r) \cap GroupsOf(inbox[i].room) # {}

(***************************************************************************)
(* A chat from a configured room is written exactly once to each other     *)
(* room of its group that could be written to when it came: build_group,   *)
(* get_channel_name and broadcast_message agree on what the group is.      *)
(***************************************************************************)
GroupGetsItOnce ==
    \A i \in 1..Len(inbox) : \A r \in inbox[i].reachable \ {inbox[i].room} :
        inbox[i].kind \in {"chat", "newbee"} /\ GroupsOf(r) \cap GroupsOf(inbox[i].room) # {}
            => inbox[i].posts[r] = 1

(***************************************************************************)
(* signal_new_channel installs the extensions of a channel (joke,          *)
(* urlpreview): raised twice, every joke would be told twice.              *)
(***************************************************************************)
AnnouncedOnce == IsInjective(announced)

(***************************************************************************)
(* While the process runs a room that has a channel keeps it: a QQ group   *)
(* found later does not take a room out of the channel map= gave it.       *)
(***************************************************************************)
RoomKeepsChannel ==
    [][restarts' = restarts =>
          \A r \in Rooms : get_channel_name(m_channel_map, r) # NONE =>
              get_channel_name(m_channel_map', r) = get_channel_name(m_channel_map, r)]_m_channel_map

\* Message i is a command from a configured room that can be written to, and the
\* room does not have its one answer.
Unanswered(i) ==
    /\ i \in 1..Len(inbox)
    /\ LET m == inbox[i]
       IN /\ m.asks /\ m.room \in m.reachable
          /\ GroupsOf(m.room) # {} /\ m.answers[m.room] # 1

(***************************************************************************)
(* Who asks the bot gets an answer: a command from a configured room that  *)
(* can be written to is answered in that room, once (on_bot_command sends  *)
(* to the whole channel, through a handler posted to the io_service),      *)
(* unless the bot is restarted first.                                      *)
(***************************************************************************)
AskerAnswered ==
    \A i \in 1..MaxMessages : Unanswered(i) ~> ~Unanswered(i)

Found == {n \in m_groups : db[n] = "numbered"}

(***************************************************************************)
(* avbot.hpp: for a QQ group libwebqq finds a channel is created if there  *)
(* is none.  (The number of a group that is in the table already is not    *)
(* fetched again, and siggroupnumber is raised nowhere else.)              *)
(***************************************************************************)
FoundGroupHasChannel ==
    \A n \in Found : get_channel_name(m_channel_map, Room("qq", n)) # NONE
=============================================================================
