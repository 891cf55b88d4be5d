---------------------------- MODULE MCEdgeAgent -----------------------------
(* EdgeAgent on small instances: each command names its type and subject.    *)
EXTENDS EdgeAgent, TLC

CONSTANTS s1, s2, b1, startS1, startS2, stopS1, startB1, stopB1, ping, sync, other

MCKindOf == [c \in Commands |->
  CASE c \in {startS1, startS2} -> "start_session"
    [] c = stopS1               -> "stop_session"
    [] c = startB1              -> "start_mbusd"
    [] c = stopB1               -> "stop_mbusd"
    [] c = ping                 -> "health_ping"
    [] c = sync                 -> "sync_inventory"
    [] OTHER                    -> "refresh_capabilities"]

MCSubjectOf == [c \in Commands |->
  CASE c = startS2             -> s2
    [] c \in {startB1, stopB1} -> b1
    [] OTHER                   -> s1]
=============================================================================
