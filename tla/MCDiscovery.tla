----------------------------- MODULE MCDiscovery -----------------------------
(* A node with a registry, one whose application talks and that another    *)
(* replaces, and one that is heard only when it is asked.                  *)
EXTENDS Discovery

TalkersChange == [n \in Device |-> IF n \in Talker THEN 2 ELSE 1]

(* The Watcher asks everyone for something that nobody has.                *)
AskAround == {[from |-> Watcher, to |-> Everyone, about |-> "other"]}
=============================================================================
