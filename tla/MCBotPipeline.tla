---------------------------- MODULE MCBotPipeline ----------------------------
(* BotPipeline: a command of a chat, first without its text, a second one and  *)
(* an unsend of the same chat, and a command of a plain thread.                *)
EXTENDS BotPipeline

Say(i)   == [id |-> i, chat |-> "chat", does |-> "reply"]
MCMessages == {Say("i1"), [Say("i1") EXCEPT !.does = "nothing"], Say("i2"),
               [Say("i3") EXCEPT !.does = "unsend"], [Say("i4") EXCEPT !.chat = "thread"]}

==============================================================================
