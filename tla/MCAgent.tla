------------------------------- MODULE MCAgent -------------------------------
(* Two commands on two sessions, with a crash and a fault of the disk.     *)
EXTENDS Agent, TLC

CONSTANTS c1, c2, main

MCKeys    == {"CHAT_ID", "PUBLIC_IP", "ENABLE_GOOGLE", "ENABLE_TRUST"} \cup Topic
MCSavers  == Cmds \cup {main}
MCUpdates == {Only({"PUBLIC_IP"}, "ip")} \cup {Only(Topic, v) : v \in {"t1", ""}}
               \cup {Only({"ENABLE_GOOGLE"}, v) : v \in {"true", "false"}}
               \cup {Only({"ENABLE_TRUST"}, "false")}
Toggle(m, v) == [path |-> "toggle", mod |-> m, value |-> v]
SetTopic(v) == [path |-> "set_topic", value |-> v]
Quality(yt, play, gemini) ==
  [path |-> "quality", egress |-> FALSE, cc |-> "US", pages |-> [yt |-> yt, play |-> play, gemini |-> gemini]]

MCMenu == [c \in Cmds |->
  IF c = c1 THEN {Toggle("google", "false"), SetTopic("t1"), Quality(NoPage, RegionPage(""), RegionPage("USA"))}
            ELSE {Toggle("google", "true"), SetTopic(""),
                  Quality(YouTubePage("", {"offer"}), NoPage, NoPage), [path |-> "run"],
                  [path |-> "module", mod |-> "google"]}]
MCInstalled ==
  {[k \in MCKeys |-> CASE k = "CHAT_ID" -> "owner" [] k \in Topic \cup {"PUBLIC_IP"} -> Absent
                        [] k = "ENABLE_TRUST" -> "true" [] k = "ENABLE_GOOGLE" -> "true"]}
=============================================================================
