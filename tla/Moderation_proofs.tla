------------------------- MODULE Moderation_proofs -------------------------
(***************************************************************************)
(* What no step of moderation breaks, for any messages, links, notices and *)
(* administrators, and with the chat connected or not.  Community_proofs   *)
(* puts these lemmas together with those of the other modules.             *)
(***************************************************************************)
EXTENDS Moderation, TLAPS

(***************************************************************************)
(* The inductive invariant: what is so of a message follows from how far   *)
(* its handling is.                                                        *)
(***************************************************************************)

\* A message is in the chat until it is taken away, by Delete as a member's link
\* or at the end; what is handed on to karma without trouble may stay.
OnItsWay(m) ==
    /\ at[m] = "unsent" => m \notin visible
    /\ at[m] \in {"sent", "delete", "track"} => m \in visible
    /\ at[m] \in {"delete", "warn"} => ~ Exempt(m)
    /\ at[m] \in {"delete", "warn", "track"} => m \notin Notices \cup Commands
    /\ at[m] = "warn" => m \notin visible
    /\ at[m] = "track" /\ m \notin troubled => Exempt(m)

\* Only what has been handled has a row or a warning.
HandledOnly == \A m \in tracked \cup warnings : at[m] = "done"

ModerationInv ==
    /\ ModerationTypeOK
    /\ \A m \in Messages : OnItsWay(m)
    /\ HandledOnly
    /\ LinksRemoved /\ RemovedNotTracked /\ WarningsPass

\* Before the first message (ModerationInit).
LEMMA ModerationInvInit == ModerationInit => ModerationInv
BY DEF ModerationInit, ModerationInv, ModerationTypeOK, OnItsWay, HandledOnly, LinksRemoved,
       RemovedNotTracked, WarningsPass

\* Steps that concern one message leave what is so of the others.
OthersKept(m) ==
    /\ at' = [at EXCEPT ![m] = at'[m]]
    /\ \A n \in Messages \ {m} :
          /\ n \in visible' <=> n \in visible
          /\ n \in tracked' <=> n \in tracked
          /\ n \in warnings' <=> n \in warnings
          /\ n \in cleanups' <=> n \in cleanups
          /\ n \in troubled' <=> n \in troubled

\* What is so of one message.
Fine(m) ==
    /\ at[m] \in {"unsent", "sent", "delete", "warn", "track", "done"}
    /\ OnItsWay(m)
    /\ m \in tracked \cup warnings => at[m] = "done"
    /\ at[m] = "done" /\ m \notin troubled =>
        (m \in visible <=>
            /\ m \notin Notices
            /\ m \in Links => m \in Commands \cup Channels \/ Author[m] \in ChatAdmins)
    /\ m \in tracked => m \in visible
    /\ m \in warnings => m \in cleanups \cup troubled
    /\ m \in cleanups => m \in warnings

\* The invariant is what is so of each message, and the types of the sets.
LEMMA InvIsFine ==
    ModerationInv <=>
        /\ at \in [Messages -> {"unsent", "sent", "delete", "warn", "track", "done"}]
        /\ visible \subseteq Messages /\ tracked \subseteq Messages /\ warnings \subseteq Messages
        /\ cleanups \subseteq Messages /\ troubled \subseteq Messages
        /\ \A m \in Messages : Fine(m)
BY DEF ModerationInv, ModerationTypeOK, Fine, HandledOnly, LinksRemoved, RemovedNotTracked,
       WarningsPass

\* A step of one message leaves it as the invariant has it, and the others alone.
LEMMA ModerateFine ==
    ASSUME ModerationInv, NEW m \in Messages, Send(m) \/ Moderate(m)
    PROVE  Fine(m)' /\ OthersKept(m)
<1> USE DEF Go, Trouble, OthersKept
<1>1. Fine(m) /\ at \in [Messages -> {"unsent", "sent", "delete", "warn", "track", "done"}]
  BY InvIsFine
<1>2. CASE Send(m)
  BY <1>1, <1>2 DEF Send, Fine, OnItsWay
<1>3. CASE Throttle(m)
  BY <1>1, <1>3 DEF Throttle, Fine, OnItsWay
<1>13. CASE Take(m)
  <2>1. m \notin Notices
    BY <1>13, ModerationAssumption DEF Take
  <2> QED
    BY <1>1, <1>13, <2>1 DEF Take, Fine, OnItsWay
<1>4. CASE RemoveNotice(m)
  BY <1>1, <1>4 DEF RemoveNotice, Fine, OnItsWay
<1>5. CASE CheckLinks(m)
  BY <1>1, <1>5 DEF CheckLinks, Fine, OnItsWay, Exempt
<1>6. CASE StatusUnknown(m)
  BY <1>1, <1>6 DEF StatusUnknown, Fine, OnItsWay, Exempt
<1>7. CASE Delete(m)
  BY <1>1, <1>7 DEF Delete, Fine, OnItsWay, Exempt
<1>8. CASE DeleteRefused(m)
  BY <1>1, <1>8 DEF DeleteRefused, Fine, OnItsWay, Exempt
<1>9. CASE Warn(m)
  BY <1>1, <1>9 DEF Warn, Fine, OnItsWay, Exempt
<1>10. CASE Track(m)
  BY <1>1, <1>10 DEF Track, Fine, OnItsWay, Exempt
<1>11. CASE CleanUp(m)
  BY <1>1, <1>11 DEF CleanUp, Fine, OnItsWay
<1>12. CASE Raise(m)
  BY <1>1, <1>12 DEF Raise, Fine, OnItsWay
<1> QED
  BY <1>2, <1>3, <1>4, <1>5, <1>6, <1>7, <1>8, <1>9, <1>10, <1>11, <1>12, <1>13 DEF Moderate

\* No step of the handlers of a message breaks the invariant: what link_moderation
\* removes stays removed and has no row, what it warns of has a removal pending.
LEMMA ModerateKeepsInv ==
    ASSUME ModerationInv, NEW m \in Messages, Send(m) \/ Moderate(m)
    PROVE  ModerationInv'
<1>1. Fine(m)' /\ OthersKept(m)
  BY ModerateFine
<1>2. /\ at \in [Messages -> {"unsent", "sent", "delete", "warn", "track", "done"}]
      /\ \A n \in Messages : Fine(n)
  BY InvIsFine
<1>3. /\ visible' \subseteq Messages /\ tracked' \subseteq Messages /\ warnings' \subseteq Messages
      /\ cleanups' \subseteq Messages /\ troubled' \subseteq Messages
  BY DEF ModerationInv, ModerationTypeOK, Send, Moderate, Throttle, Take, RemoveNotice, CheckLinks,
         StatusUnknown, Delete, DeleteRefused, Warn, Track, CleanUp, Raise, Trouble
<1>4. at' \in [Messages -> {"unsent", "sent", "delete", "warn", "track", "done"}]
  BY <1>1, <1>2 DEF OthersKept, Fine
<1>5. ASSUME NEW n \in Messages PROVE Fine(n)'
  <2>1. CASE n = m
    BY <1>1, <2>1
  <2>2. CASE n # m
    BY <1>1, <1>2, <2>2 DEF OthersKept, Fine, OnItsWay, Exempt
  <2> QED
    BY <2>1, <2>2
<1> QED
  BY <1>3, <1>4, <1>5 DEF ModerationInv, ModerationTypeOK, Fine, HandledOnly, LinksRemoved,
     RemovedNotTracked, WarningsPass

\* Nor does the end of the process: the messages under way and the warnings whose
\* removal was pending become troubled.
LEMMA StopKeepsInv ==
    ASSUME ModerationInv, Stop PROVE ModerationInv'
<1>1. \A m \in Messages : at'[m] = IF at[m] = "unsent" THEN "unsent" ELSE "done"
  BY DEF Stop
<1>2. ModerationTypeOK'
  BY DEF ModerationInv, ModerationTypeOK, Stop
<1>3. (\A m \in Messages : OnItsWay(m))' /\ HandledOnly'
  BY <1>1, <1>2 DEF ModerationInv, ModerationTypeOK, OnItsWay, HandledOnly, Stop, Exempt
<1>4. LinksRemoved' /\ RemovedNotTracked' /\ WarningsPass'
  BY <1>1 DEF ModerationInv, ModerationTypeOK, LinksRemoved, RemovedNotTracked, WarningsPass, Stop
<1> QED
  BY <1>2, <1>3, <1>4 DEF ModerationInv

\* Nor a step of the other modules.
LEMMA IdleKeepsModeration ==
    ASSUME ModerationInv, UNCHANGED moderationVars PROVE ModerationInv'
BY DEF ModerationInv, moderationVars, ModerationTypeOK, OnItsWay, Exempt, HandledOnly, LinksRemoved,
       RemovedNotTracked, WarningsPass
=============================================================================
