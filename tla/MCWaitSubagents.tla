-------------------------- MODULE MCWaitSubagents --------------------------
(* Two children of the turn and one of a task, and a message.             *)
EXTENDS WaitSubagents

CONSTANTS kid1, kid2, kid3, msg1, nil

TwoChildren == {kid1, kid2}
ThreeChildren == {kid1, kid2, kid3}
OneMessage == {msg1}
AsyncChild == {kid1}
TaskChild == {kid3}
Nobody == {}
=============================================================================
