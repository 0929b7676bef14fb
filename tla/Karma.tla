------------------------------- MODULE Karma -------------------------------
(***************************************************************************)
(* Reactions in the community chat and the three tables that count them.   *)
(* Handlers of reaction updates overlap.  Each is one transaction under    *)
(* READ COMMITTED: the rows it loads are not loaded again, what it writes  *)
(* is the value it computed from them, and a row it has written is locked  *)
(* until it ends.  Its writes are kept aside here and applied on commit.   *)
(***************************************************************************)
EXTENDS Integers, Sequences, FiniteSetsExt

CONSTANTS Members,    \* members of the chat who are users of the bot
          Admins,     \* those of them who vote without an approved application
          Messages,   \* messages of the chat
          Author,     \* who wrote each message
          Tasks,      \* handlers that can be under way at the same time
          HasRow,     \* members who have a row of karma_statistics already
          Lossy,      \* updates can be dropped, ignored, or rolled back
          Patient,    \* nobody reacts again before the last reaction is handled
          Threshold,  \* NEGATIVE_VOTES_ALERT_THRESHOLD
          MaxReacts   \* bound: reactions changed

ASSUME KarmaAssumption ==
    /\ Author \in [Messages -> Members] /\ Admins \subseteq Members
    /\ HasRow \subseteq Members /\ Lossy \in BOOLEAN /\ Patient \in BOOLEAN
    /\ Threshold \in Nat /\ MaxReacts \in Nat
    /\ IsFiniteSet(Members) /\ IsFiniteSet(Messages)

Vote     == {"HELPED", "NOT_HELPED"}
Reaction == Vote \cup {"none"}

\* positive stands for karma_points and positive_votes too, which always change
\* together.  row: the row exists.
Totals == [row : BOOLEAN, positive : Int, negative : Int]
Zero   == [row |-> FALSE, positive |-> 0, negative |-> 0]

\* MessageReactionUpdated.
Update == [message : Messages, voter : Members, old : Reaction, new : Reaction]

VARIABLES reaction,  \* what Telegram shows under each message
          updates,   \* reaction updates of each member, oldest first, not handled yet
          verified,  \* members with an approved application
          tracked,   \* messages with a row in message_feedback
          votes,     \* karma_votes
          stats,     \* karma_statistics
          feedback,  \* the totals of message_feedback
          alerted,   \* messages the admins were alerted about
          open,      \* the handlers under way
          lost,      \* votes of which an update has been lost
          together,  \* pairs of votes that had handlers under way at the same time
          reacts     \* reactions changed so far

tables == <<votes, stats, feedback, alerted>>
vars   == <<reaction, updates, verified, tracked, tables, open, lost, together, reacts>>

\* The vote that an update is about: of a member, on a message.
VoteOf(u) == <<u.message, u.voter>>

\* todo: what the handler still does; touches: its vote statement hit a row;
\* holds: the totals it has written; stats, feedback: the rows as it loaded them.
Handler == [todo : Seq({"vote", "read", "stats", "feedback", "commit"}),
            update : Update, touches : BOOLEAN, holds : SUBSET {"stats", "feedback"},
            stats : Totals, feedback : Totals]

Busy(t) == open[t] # <<>>
Doing(t, step) == Busy(t) /\ Head(open[t].todo) = step

TypeOK ==
    /\ reaction \in [Messages -> [Members -> Reaction]]
    /\ updates \in [Members -> Seq(Update)]
    /\ verified \subseteq Members /\ tracked \subseteq Messages /\ alerted \subseteq Messages
    /\ votes \in [Messages -> [Members -> Reaction]]
    /\ stats \in [Members -> Totals] /\ feedback \in [Messages -> Totals]
    /\ \A t \in Tasks : Busy(t) => open[t] \in Handler
    /\ lost \subseteq Messages \X Members
    /\ together \subseteq (Messages \X Members) \X (Messages \X Members)
    /\ reacts \in 0..MaxReacts

Init ==
    /\ reaction = [m \in Messages |-> [v \in Members |-> "none"]]
    /\ updates = [v \in Members |-> <<>>]
    /\ verified \in IF Lossy THEN SUBSET Members ELSE {Members}
    /\ tracked = IF Lossy THEN {} ELSE Messages
    /\ votes = reaction /\ alerted = {}
    /\ stats = [v \in Members |-> [Zero EXCEPT !.row = v \in HasRow]]
    /\ feedback = [m \in Messages |-> [Zero EXCEPT !.row = m \in tracked]]
    /\ open = [t \in Tasks |-> <<>>]
    /\ lost = {} /\ together = {} /\ reacts = 0

-----------------------------------------------------------------------------
(***************************************************************************)
(* The chat and the updates.                                               *)
(***************************************************************************)

Pending(v) == updates[v] # <<>> \/ \E t \in Tasks : Busy(t) /\ open[t].update.voter = v

React(m, v, new) ==
    /\ reacts < MaxReacts /\ reaction[m][v] # new
    /\ Patient => ~ Pending(v)
    /\ reaction' = [reaction EXCEPT ![m][v] = new]
    /\ updates' = [updates EXCEPT ![v] =
          Append(@, [message |-> m, voter |-> v, old |-> reaction[m][v], new |-> new])]
    /\ reacts' = reacts + 1
    /\ UNCHANGED <<verified, tracked, tables, open, lost, together>>

\* on_group_message.
Track(m) ==
    /\ m \notin tracked /\ Author[m] \in verified
    /\ tracked' = tracked \cup {m}
    /\ feedback' = [feedback EXCEPT ![m].row = TRUE]
    /\ UNCHANGED <<reaction, updates, verified, votes, stats, alerted, open, lost, together, reacts>>

\* An application is approved, or an approved one rejected after all.
ChangeVerified(v) ==
    /\ Lossy
    /\ verified' = IF v \in verified THEN verified \ {v} ELSE verified \cup {v}
    /\ UNCHANGED <<reaction, updates, tracked, tables, open, lost, together, reacts>>

\* ThrottlingMiddleware: another update of the member came less than 700 ms ago.
Drop(v) ==
    /\ Lossy /\ updates[v] # <<>>
    /\ updates' = [updates EXCEPT ![v] = Tail(@)]
    /\ lost' = lost \cup {VoteOf(Head(updates[v]))}
    /\ UNCHANGED <<reaction, verified, tracked, tables, open, together, reacts>>

\* on_message_reaction returns early.
Counts(u) ==
    /\ u.message \in tracked
    /\ u.voter \in verified \cup Admins
    /\ u.voter # Author[u.message]

Ignore(v) ==
    /\ updates[v] # <<>> /\ ~ Counts(Head(updates[v]))
    /\ updates' = [updates EXCEPT ![v] = Tail(@)]
    /\ lost' = lost \cup {VoteOf(Head(updates[v]))}
    /\ UNCHANGED <<reaction, verified, tracked, tables, open, together, reacts>>

-----------------------------------------------------------------------------
(***************************************************************************)
(* apply_reaction_change.                                                  *)
(***************************************************************************)

\* The negative side counts on the message before it counts on the author.
Faulty_Plan(u) ==
    IF "NOT_HELPED" \in {u.old, u.new}
    THEN <<"vote", "feedback", "read", "stats", "commit">>
    ELSE <<"vote", "read", "stats", "feedback", "commit">>

\* A change from one vote to the other writes both totals twice; the second time
\* finds them loaded and locked, so it is one step with the first.
Plan(u) == <<"vote", "read", "stats", "feedback", "commit">>

\* Forgets the old vote when it is exchanged for the other.
Faulty_Change(u, vote) == IF u.new = vote THEN 1 ELSE IF u.old = vote /\ u.new = "none" THEN -1 ELSE 0

\* _adjust_positive, _adjust_negative: what update u adds to the total of a vote.
Change(u, vote) == (IF u.new = vote THEN 1 ELSE 0) - (IF u.old = vote THEN 1 ELSE 0)

\* The row as loaded, plus the change, in the columns that change; other columns
\* are not part of the statement.
Written(current, loaded, u) ==
    [row      |-> TRUE,
     positive |-> IF Change(u, "HELPED") # 0
                  THEN loaded.positive + Change(u, "HELPED") ELSE current.positive,
     negative |-> IF Change(u, "NOT_HELPED") # 0
                  THEN loaded.negative + Change(u, "NOT_HELPED") ELSE current.negative]

Moves(t) == [open[t] EXCEPT !.todo = Tail(@)]

\* A handler of vote a is under way together with every other one that is.
Meets(a) == LET others == {VoteOf(open[s].update) : s \in {x \in Tasks : Busy(x)}}
            IN ({a} \X others) \cup (others \X {a})

\* on_message_reaction up to apply_reaction_change: it loads the row of the
\* message.
Begin(t, v) ==
    /\ ~ Busy(t) /\ updates[v] # <<>> /\ Counts(Head(updates[v]))
    /\ LET u == Head(updates[v])
       IN /\ open' = [open EXCEPT ![t] =
             [todo |-> Plan(u), update |-> u, touches |-> FALSE, holds |-> {},
              stats |-> Zero, feedback |-> feedback[u.message]]]
          /\ together' = together \cup Meets(VoteOf(u))
    /\ updates' = [updates EXCEPT ![v] = Tail(@)]
    /\ UNCHANGED <<reaction, verified, tracked, tables, lost, reacts>>

\* ON CONFLICT DO NOTHING.
Faulty_HitsRow(u) == (u.new = "none") # (votes[u.message][u.voter] = "none")

\* An insert hits a row or makes one.  A delete sees committed rows only.
HitsRow(u) == u.new # "none" \/ votes[u.message][u.voter] # "none"

\* upsert, delete: wait for a transaction that has written this vote.
WriteVote(t) ==
    LET u == open[t].update
    IN /\ Doing(t, "vote")
       /\ HitsRow(u) => \A s \in Tasks \ {t} : ~ (/\ Busy(s) /\ open[s].touches
                                                  /\ open[s].update.message = u.message
                                                  /\ open[s].update.voter = u.voter)
       /\ open' = [open EXCEPT ![t] = [Moves(t) EXCEPT !.touches = HitsRow(u)]]
       /\ UNCHANGED <<reaction, updates, verified, tracked, tables, lost, together, reacts>>

\* Does not make up a row where there is none.
Faulty_ReadStats(t) ==
    LET author == Author[open[t].update.message]
    IN /\ Doing(t, "read")
       /\ open' = [open EXCEPT ![t] = [Moves(t) EXCEPT
             !.stats = IF stats[author].row THEN stats[author] ELSE <<>>]]
       /\ UNCHANGED <<reaction, updates, verified, tracked, tables, lost, together, reacts>>

\* Loads the row of the voter.
Faulty_ReadStatsOfVoter(t) ==
    /\ Doing(t, "read")
    /\ open' = [open EXCEPT ![t] = [Moves(t) EXCEPT !.stats = stats[open[t].update.voter]]]
    /\ UNCHANGED <<reaction, updates, verified, tracked, tables, lost, together, reacts>>

\* KarmaStatisticsRepository.get_or_create reads,
ReadStats(t) ==
    /\ Doing(t, "read")
    /\ open' = [open EXCEPT ![t] = [Moves(t) EXCEPT !.stats = stats[Author[open[t].update.message]]]]
    /\ UNCHANGED <<reaction, updates, verified, tracked, tables, lost, together, reacts>>

\* A handler waits for another one that has written the same row.
Unlocked(t, table) ==
    \A s \in Tasks \ {t} :
        Busy(s) /\ table \in open[s].holds =>
            LET m == open[t].update.message  n == open[s].update.message
            IN IF table = "stats" THEN Author[m] # Author[n] ELSE m # n

Write(t, table) ==
    /\ Doing(t, table) /\ Unlocked(t, table)
    /\ open' = [open EXCEPT ![t] = [Moves(t) EXCEPT !.holds = @ \cup {table}]]
    /\ UNCHANGED <<reaction, updates, verified, tracked, tables, lost, together, reacts>>

\* then inserts, or updates what it read,
Missed(t) == ~ open[t].stats.row /\ stats[Author[open[t].update.message]].row

WriteStats(t) == Write(t, "stats") /\ ~ Missed(t)

\* and when another handler has inserted the row meanwhile, the insert violates
\* the primary key and everything is rolled back.
InsertFails(t) ==
    /\ Doing(t, "stats") /\ Unlocked(t, "stats") /\ Missed(t)
    /\ open' = [open EXCEPT ![t] = <<>>] /\ lost' = lost \cup {VoteOf(open[t].update)}
    /\ UNCHANGED <<reaction, updates, verified, tracked, tables, together, reacts>>

\* MessageFeedbackRepository.adjust_counts on the row loaded at the beginning.
WriteFeedback(t) == Write(t, "feedback")

\* Compares the total as it was before this vote.
Faulty_CrossesThreshold(u, loaded) ==
    Change(u, "NOT_HELPED") = 1 /\ loaded.negative = Threshold + 1

CrossesThreshold(u, loaded) ==
    Change(u, "NOT_HELPED") = 1 /\ loaded.negative + 1 = Threshold + 1

Alert(t) ==
    LET u == open[t].update
    IN alerted' = IF CrossesThreshold(u, open[t].feedback)
                  THEN alerted \cup {u.message} ELSE alerted

\* The tag is set and the admins are alerted, then the transaction commits,
Commit(t) ==
    LET u == open[t].update
    IN /\ Doing(t, "commit")
       /\ votes' = [votes EXCEPT ![u.message][u.voter] = IF open[t].touches THEN u.new ELSE @]
       /\ stats' = [stats EXCEPT ![Author[u.message]] = Written(@, open[t].stats, u)]
       /\ feedback' = [feedback EXCEPT ![u.message] = Written(@, open[t].feedback, u)]
       /\ Alert(t)
       /\ open' = [open EXCEPT ![t] = <<>>]
       /\ UNCHANGED <<reaction, updates, verified, tracked, lost, together, reacts>>

\* The statistics have been committed on their own.
Faulty_RollBack(t) ==
    LET u == open[t].update
    IN /\ Lossy /\ Busy(t)
       /\ stats' = IF "stats" \in open[t].holds
                   THEN [stats EXCEPT ![Author[u.message]] = Written(@, open[t].stats, u)]
                   ELSE stats
       /\ open' = [open EXCEPT ![t] = <<>>] /\ lost' = lost \cup {VoteOf(u)}
       /\ UNCHANGED <<reaction, updates, verified, tracked, votes, feedback, alerted, together, reacts>>

\* or something raised on the way.
RollBack(t) ==
    /\ Lossy /\ Busy(t)
    /\ UNCHANGED alerted \/ (Doing(t, "commit") /\ Alert(t))
    /\ open' = [open EXCEPT ![t] = <<>>] /\ lost' = lost \cup {VoteOf(open[t].update)}
    /\ UNCHANGED <<reaction, updates, verified, tracked, votes, stats, feedback, together, reacts>>

-----------------------------------------------------------------------------
Handle(t) ==
    \/ WriteVote(t) \/ ReadStats(t) \/ WriteStats(t) \/ InsertFails(t)
    \/ WriteFeedback(t) \/ Commit(t)

Next ==
    \/ \E m \in Messages, v \in Members, new \in Reaction : React(m, v, new)
    \/ \E m \in Messages : Track(m)
    \/ \E v \in Members : ChangeVerified(v) \/ Drop(v) \/ Ignore(v)
    \/ \E t \in Tasks : (\E v \in Members : Begin(t, v)) \/ Handle(t) \/ RollBack(t)

Spec == Init /\ [][Next]_vars

\* The event loop runs every handler on whenever the database lets it.
FairSpec == Spec /\ \A t \in Tasks : WF_vars(Handle(t))

-----------------------------------------------------------------------------
(***************************************************************************)
(* Properties.                                                             *)
(***************************************************************************)

Voters(m, vote) == {v \in Members : votes[m][v] = vote}

\* An update of v's vote on m waits or is being handled.
Unsettled(m, v) ==
    \/ \E i \in 1..Len(updates[v]) : updates[v][i].message = m
    \/ \E t \in Tasks : Busy(t) /\ VoteOf(open[t].update) = <<m, v>>

\* No two handlers for messages in ms have been under way at the same time.
Apart(ms) == \A p \in together : ~ (p[1][1] \in ms /\ p[2][1] \in ms)

\* Nor has any update of a vote on m, other than the author's own, been lost.
Intact(m) == Apart({m}) /\ \A v \in Members \ {Author[m]} : <<m, v>> \notin lost

Own(v) == {m \in Messages : Author[m] = v}

\* A settled vote is the reaction (karma_vote.py:11-12), however the handlers of other
\* votes overlap and whatever other updates are lost; two handlers of one vote, which
\* the code does not keep apart, and a lost update can break it.
VotesMirror ==
    \A m \in Messages : \A v \in Members \ {Author[m]} :
        <<m, v>> \notin lost /\ <<<<m, v>>, <<m, v>>>> \notin together /\ ~ Unsettled(m, v)
            => votes[m][v] = reaction[m][v]

\* message_feedback "holds the running totals" (message_feedback.py:11-12): they count
\* the votes at all times, over every change of mind (karma_service.py:98-121),
\* unless updates of the message were lost or handled by two handlers at once.
TotalsMirror ==
    \A m \in Messages : Intact(m) =>
        /\ feedback[m].positive = Cardinality(Voters(m, "HELPED"))
        /\ feedback[m].negative = Cardinality(Voters(m, "NOT_HELPED"))

\* A member's karma is the sum over the member's messages, whatever updates are
\* lost and wherever a handler fails, since both totals change in one transaction
\* (karma_service.py:130-142); handlers for the messages of other members may
\* overlap with each other and with those for the member's as they like.
KarmaIsSum ==
    \A v \in Members : Apart(Own(v)) =>
        /\ stats[v].positive = SumFunctionOnSet([m \in Messages |-> feedback[m].positive], Own(v))
        /\ stats[v].negative = SumFunctionOnSet([m \in Messages |-> feedback[m].negative], Own(v))

\* A message with more negative votes than the threshold has been reported
\* (karma_service.py:143-147), however the votes came and went, with the exceptions
\* of TotalsMirror.
AlertedAbove ==
    \A m \in Messages : Intact(m) =>
        (Cardinality(Voters(m, "NOT_HELPED")) > Threshold => m \in alerted)

\* No two handlers wait for each other's rows: a handler that has begun ends.
HandlersEnd == \A t \in Tasks : Busy(t) ~> ~ Busy(t)

\* karma_vote.py:11-12 "this table always mirrors Telegram's own current reaction
\* state exactly".
AlwaysMirror ==
    \A m \in Messages : \A v \in Members \ {Author[m]} :
        ~ Unsettled(m, v) => votes[m][v] = reaction[m][v]

\* message_feedback.py:11-12 "holds the running totals used for the negative-feedback
\* admin alert".
RunningTotals ==
    \A m \in Messages :
        /\ feedback[m].positive = Cardinality(Voters(m, "HELPED"))
        /\ feedback[m].negative = Cardinality(Voters(m, "NOT_HELPED"))
=============================================================================
