---------------------------- MODULE MCCommunity ----------------------------
(* Instances of Community small enough for TLC. *)
EXTENDS Community

CONSTANTS olena, petro, hello, link, news, notice, command, post, student, supervisor

\* Petro joins and writes; Olena is an administrator of everything.
AuthorOf == [m \in Messages |-> IF m = news THEN olena ELSE petro]

\* In each scene some part of the community has most of the events: handlers that set
\* tags, messages and members who come and go, the panel, or a bit of everything.
Scene(chat, tags, panel, stop) ==
    [chat |-> chat, tags |-> tags, panel |-> panel, stop |-> stop]

Scenes == {Scene(1, 2, 0, 0), Scene(2, 1, 0, 0), Scene(3, 0, 0, 1), Scene(0, 0, 3, 1),
           Scene(1, 1, 1, 1)}

\* Everybody is in the chat and a student, but where members come and go Petro may
\* have yet to join, without a role, and the chat may not be configured.
MCInit ==
    /\ Init
    /\ olena \in inChat /\ role[olena] = student
    /\ left.chat < 2 => petro \in inChat /\ role[petro] = student /\ connected

MCSpec == MCInit /\ [][Next]_vars
=============================================================================
