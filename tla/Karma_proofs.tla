---------------------------- MODULE Karma_proofs ----------------------------
(***************************************************************************)
(* What is so of reactions, votes and totals for any members, messages,    *)
(* reactions and handlers, overlapping in any way, with updates dropped,   *)
(* ignored and rolled back as may be.  Each property speaks only of the    *)
(* votes and rows that no lost update and no second handler has touched;   *)
(* which those are the model keeps as history (lost, together).            *)
(***************************************************************************)
EXTENDS Karma, FiniteSetTheorems, WellFoundedInduction, SequenceTheorems, TLAPS

-----------------------------------------------------------------------------
(***************************************************************************)
(* Handlers and their steps.                                               *)
(***************************************************************************)

\* What a handler may still have to do.
Stages == {<<"vote", "read", "stats", "feedback", "commit">>,
           <<"read", "stats", "feedback", "commit">>, <<"stats", "feedback", "commit">>,
           <<"feedback", "commit">>, <<"commit">>}

Steps == {"vote", "read", "stats", "feedback", "commit"}

\* The updates that wait, by their place in the queue.
QueuesOK == updates \in [Members -> Seq(Update)]
            /\ \A v \in Members : \A i \in 1..Len(updates[v]) : updates[v][i].voter = v

\* The types, and the order of a handler's steps.
TypeInv ==
    /\ reaction \in [Messages -> [Members -> Reaction]]
    /\ QueuesOK
    /\ verified \subseteq Members /\ tracked \subseteq Messages /\ alerted \subseteq Messages
    /\ votes \in [Messages -> [Members -> Reaction]]
    /\ stats \in [Members -> Totals] /\ feedback \in [Messages -> Totals]
    /\ open \in [Tasks -> Handler \cup {<<>>}]
    /\ \A t \in Tasks : Busy(t) => open[t].todo \in Stages
    /\ lost \subseteq Messages \X Members
    /\ together \subseteq (Messages \X Members) \X (Messages \X Members)
    /\ reacts \in 0..MaxReacts

\* One step after the other.
LEMMA StageSteps ==
    ASSUME NEW s \in Stages
    PROVE  /\ s \in Seq(Steps) /\ Head(s) \in Steps
           /\ Head(s) # "commit" => Tail(s) \in Stages
           /\ Head(s) = "vote" => Head(Tail(s)) = "read"
           /\ Head(s) = "read" => Head(Tail(s)) = "stats"
           /\ Head(s) = "stats" => Head(Tail(s)) = "feedback"
           /\ Head(s) = "feedback" => Head(Tail(s)) = "commit"
<1>1. CASE s = <<"vote", "read", "stats", "feedback", "commit">>
  <2>1. Tail(s) = <<"read", "stats", "feedback", "commit">>
    BY <1>1
  <2> QED
    BY <1>1, <2>1 DEF Stages, Steps
<1>2. CASE s = <<"read", "stats", "feedback", "commit">>
  <2>1. Tail(s) = <<"stats", "feedback", "commit">>
    BY <1>2
  <2> QED
    BY <1>2, <2>1 DEF Stages, Steps
<1>3. CASE s = <<"stats", "feedback", "commit">>
  <2>1. Tail(s) = <<"feedback", "commit">>
    BY <1>3
  <2> QED
    BY <1>3, <2>1 DEF Stages, Steps
<1>4. CASE s = <<"feedback", "commit">>
  <2>1. Tail(s) = <<"commit">>
    BY <1>4
  <2> QED
    BY <1>4, <2>1 DEF Stages, Steps
<1>5. CASE s = <<"commit">>
  BY <1>5 DEF Stages, Steps
<1> QED
  BY <1>1, <1>2, <1>3, <1>4, <1>5 DEF Stages

\* A handler is something.
LEMMA HandlerIs == ASSUME NEW h \in Handler PROVE h # <<>>
<1>1. "todo" \in DOMAIN h
  BY DEF Handler
<1>2. "todo" \notin DOMAIN <<>>
  OBVIOUS
<1> QED
  BY <1>1, <1>2

\* A record with the fields of a handler.
LEMMA IsHandler ==
    ASSUME NEW todo \in Seq(Steps), NEW update \in Update, NEW touches \in BOOLEAN,
           NEW holds \in SUBSET {"stats", "feedback"}, NEW st \in Totals, NEW fb \in Totals
    PROVE  [todo |-> todo, update |-> update, touches |-> touches, holds |-> holds,
            stats |-> st, feedback |-> fb] \in Handler
BY Zenon DEF Handler, Steps

\* A record with the fields of totals.
LEMMA IsTotals ==
    ASSUME NEW row \in BOOLEAN, NEW positive \in Int, NEW negative \in Int
    PROVE  [row |-> row, positive |-> positive, negative |-> negative] \in Totals
BY Zenon DEF Totals

\* No totals (Zero), with or without a row.
LEMMA ZeroIs ==
    /\ Zero \in Totals /\ Zero.positive = 0 /\ Zero.negative = 0
    /\ \A b \in BOOLEAN :
          /\ [Zero EXCEPT !.row = b] \in Totals /\ [Zero EXCEPT !.row = b].row = b
          /\ [Zero EXCEPT !.row = b].positive = 0 /\ [Zero EXCEPT !.row = b].negative = 0
<1>1. 0 \in Int
  OBVIOUS
<1>2. FALSE \in BOOLEAN
  BY Zenon
<1>3. Zero \in Totals
  BY <1>1, <1>2, IsTotals, Zenon DEF Zero
<1>4. Zero.positive = 0 /\ Zero.negative = 0
  BY DEF Zero
<1>5. ASSUME NEW b \in BOOLEAN
      PROVE  /\ [Zero EXCEPT !.row = b] \in Totals /\ [Zero EXCEPT !.row = b].row = b
             /\ [Zero EXCEPT !.row = b].positive = 0 /\ [Zero EXCEPT !.row = b].negative = 0
  <2>1. [row |-> b, positive |-> 0, negative |-> 0] \in Totals
    BY <1>1, IsTotals, Zenon
  <2>2. [Zero EXCEPT !.row = b] = [row |-> b, positive |-> 0, negative |-> 0]
    BY DEF Zero
  <2>3. [row |-> b, positive |-> 0, negative |-> 0].row = b
    BY Zenon
  <2> QED
    BY <2>1, <2>2, <2>3
<1> QED
  BY <1>3, <1>4, <1>5

\* What a handler under way consists of.
LEMMA Fields ==
    ASSUME TypeInv, NEW t \in Tasks, Busy(t)
    PROVE  /\ open[t] \in Handler /\ open[t].todo \in Stages
           /\ open[t].update \in Update /\ open[t].touches \in BOOLEAN
           /\ open[t].holds \in SUBSET {"stats", "feedback"}
           /\ open[t].stats \in Totals /\ open[t].feedback \in Totals
           /\ open[t].update.message \in Messages /\ open[t].update.voter \in Members
           /\ Author[open[t].update.message] \in Members
           /\ open[t].update.new \in Reaction /\ open[t].update.old \in Reaction
<1>1. open[t] \in Handler /\ open[t].todo \in Stages
  BY DEF TypeInv, Busy
<1>2. open[t].touches \in BOOLEAN
  BY <1>1, Zenon DEF Handler
<1>3. /\ open[t].update \in Update /\ open[t].holds \in SUBSET {"stats", "feedback"}
      /\ open[t].stats \in Totals /\ open[t].feedback \in Totals
  BY <1>1 DEF Handler
<1>4. /\ open[t].update.message \in Messages /\ open[t].update.voter \in Members
      /\ open[t].update.new \in Reaction /\ open[t].update.old \in Reaction
  BY <1>3 DEF Update
<1>5. Author[open[t].update.message] \in Members
  BY <1>4, KarmaAssumption
<1> QED
  BY <1>1, <1>2, <1>3, <1>4, <1>5

\* A step of a handler other than its last: it becomes h.
Proceeds(t, h) ==
    /\ Busy(t) /\ h \in Handler /\ open' = [open EXCEPT ![t] = h]
    /\ h.update = open[t].update /\ h.feedback = open[t].feedback
    /\ Head(open[t].todo) # "commit" /\ h.todo = Tail(open[t].todo)
    /\ h.touches = IF Head(open[t].todo) = "vote" THEN HitsRow(open[t].update)
                   ELSE open[t].touches
    /\ h.stats = IF Head(open[t].todo) = "read" THEN stats[Author[open[t].update.message]]
                 ELSE open[t].stats
    /\ UNCHANGED <<reaction, updates, verified, tracked, tables, lost, together, reacts>>

\* The steps before the last are such steps.
LEMMA Proceeding ==
    ASSUME TypeInv, NEW t \in Tasks,
           WriteVote(t) \/ ReadStats(t) \/ WriteStats(t) \/ WriteFeedback(t)
    PROVE  \E h : Proceeds(t, h)
<1>1. Busy(t)
  BY DEF WriteVote, ReadStats, WriteStats, WriteFeedback, Write, Doing
<1> DEFINE r == open[t]
<1>2. /\ r \in Handler /\ r.todo \in Stages /\ r.update \in Update /\ r.touches \in BOOLEAN
      /\ r.holds \in SUBSET {"stats", "feedback"} /\ r.stats \in Totals
      /\ r.feedback \in Totals
      /\ Author[r.update.message] \in Members
  BY <1>1, Fields
<1>3. ASSUME Head(r.todo) # "commit" PROVE Tail(r.todo) \in Seq(Steps)
  BY <1>2, <1>3, StageSteps
<1>4. CASE WriteVote(t)
  <2>1. HitsRow(r.update) \in BOOLEAN
    BY Zenon DEF HitsRow
  <2>0. PICK h : h = [r EXCEPT !.todo = Tail(r.todo), !.touches = HitsRow(r.update)]
    OBVIOUS
  <2>2. Head(r.todo) = "vote" /\ open' = [open EXCEPT ![t] = h]
    BY <1>4, <2>0, Zenon DEF WriteVote, Doing, Moves
  <2>3. h = [todo |-> Tail(r.todo), update |-> r.update, touches |-> HitsRow(r.update),
             holds |-> r.holds, stats |-> r.stats, feedback |-> r.feedback]
    BY <1>2, <2>0, Zenon DEF Handler
  <2>4. h \in Handler
    BY <1>2, <1>3, <2>1, <2>2, <2>3, IsHandler, Zenon
  <2>5. /\ h.todo = Tail(r.todo) /\ h.update = r.update /\ h.stats = r.stats
        /\ h.feedback = r.feedback
    BY <2>3
  <2>6. h.touches = HitsRow(r.update)
    BY <2>3, Zenon
  <2>7. UNCHANGED <<reaction, updates, verified, tracked, tables, lost, together, reacts>>
    BY <1>4, Zenon DEF WriteVote
  <2> QED
    BY <1>1, <2>2, <2>4, <2>5, <2>6, <2>7, Zenon DEF Proceeds
<1>5. CASE ReadStats(t)
  <2> DEFINE st == stats[Author[r.update.message]]
  <2>0. PICK h : h = [r EXCEPT !.todo = Tail(r.todo), !.stats = st]
    OBVIOUS
  <2>1. st \in Totals
    BY <1>2 DEF TypeInv
  <2>2. Head(r.todo) = "read" /\ open' = [open EXCEPT ![t] = h]
    BY <1>5, <2>0, Zenon DEF ReadStats, Doing, Moves
  <2>3. h = [todo |-> Tail(r.todo), update |-> r.update, touches |-> r.touches,
             holds |-> r.holds, stats |-> st, feedback |-> r.feedback]
    BY <1>2, <2>0, Zenon DEF Handler
  <2>4. h \in Handler
    BY <1>2, <1>3, <2>1, <2>2, <2>3, IsHandler, Zenon
  <2>5. /\ h.todo = Tail(r.todo) /\ h.update = r.update /\ h.stats = st
        /\ h.feedback = r.feedback
    BY <2>3
  <2>6. h.touches = r.touches
    BY <2>3, Zenon
  <2>7. UNCHANGED <<reaction, updates, verified, tracked, tables, lost, together, reacts>>
    BY <1>5, Zenon DEF ReadStats
  <2> QED
    BY <1>1, <2>2, <2>4, <2>5, <2>6, <2>7, Zenon DEF Proceeds
<1>6. CASE WriteStats(t) \/ WriteFeedback(t)
  <2>1. PICK table \in {"stats", "feedback"} : Write(t, table)
    BY <1>6 DEF WriteStats, WriteFeedback
  <2> DEFINE holds == r.holds \cup {table}
  <2>0. PICK h : h = [r EXCEPT !.todo = Tail(r.todo), !.holds = holds]
    OBVIOUS
  <2>2. Head(r.todo) = table /\ open' = [open EXCEPT ![t] = h]
    BY <2>0, <2>1, Zenon DEF Write, Doing, Moves
  <2>3. h = [todo |-> Tail(r.todo), update |-> r.update, touches |-> r.touches,
             holds |-> holds, stats |-> r.stats, feedback |-> r.feedback]
    BY <1>2, <2>0, Zenon DEF Handler
  <2>4. holds \in SUBSET {"stats", "feedback"}
    BY <1>2, <2>1
  <2> HIDE DEF holds
  <2>5. Head(r.todo) \notin {"commit", "vote", "read"}
    BY <2>1, <2>2
  <2>6. h \in Handler
    BY <1>2, <1>3, <2>3, <2>4, <2>5, IsHandler, Zenon
  <2>7. /\ h.todo = Tail(r.todo) /\ h.update = r.update /\ h.stats = r.stats
        /\ h.feedback = r.feedback
    BY <2>3
  <2>8. h.touches = r.touches
    BY <2>3, Zenon
  <2>9. UNCHANGED <<reaction, updates, verified, tracked, tables, lost, together, reacts>>
    BY <2>1, Zenon DEF Write
  <2> QED
    BY <1>1, <2>2, <2>5, <2>6, <2>7, <2>8, <2>9, Zenon DEF Proceeds
<1> QED
  BY <1>4, <1>5, <1>6

\* What an update adds to the total of a vote is 1, 0 or -1.
LEMMA ChangeIs == ASSUME NEW u, NEW vote PROVE Change(u, vote) \in {-1, 0, 1}
BY DEF Change

\* The row a handler writes; where it has loaded the current totals, it adds to them.
LEMMA WrittenIs ==
    ASSUME NEW current \in Totals, NEW loaded \in Totals, NEW u
    PROVE  /\ Written(current, loaded, u) \in Totals /\ Written(current, loaded, u).row = TRUE
           /\ loaded.positive = current.positive =>
                 Written(current, loaded, u).positive = current.positive + Change(u, "HELPED")
           /\ loaded.negative = current.negative =>
                 Written(current, loaded, u).negative = current.negative + Change(u, "NOT_HELPED")
<1> DEFINE positive == IF Change(u, "HELPED") # 0
                       THEN loaded.positive + Change(u, "HELPED") ELSE current.positive
           negative == IF Change(u, "NOT_HELPED") # 0
                       THEN loaded.negative + Change(u, "NOT_HELPED") ELSE current.negative
<1>1. /\ loaded.positive \in Int /\ current.positive \in Int
      /\ loaded.negative \in Int /\ current.negative \in Int
  BY DEF Totals
<1>2. /\ positive \in Int /\ negative \in Int
      /\ loaded.positive = current.positive => positive = current.positive + Change(u, "HELPED")
      /\ loaded.negative = current.negative
            => negative = current.negative + Change(u, "NOT_HELPED")
  BY <1>1, ChangeIs
<1>3. Written(current, loaded, u) = [row |-> TRUE, positive |-> positive, negative |-> negative]
  BY Zenon DEF Written
<1> HIDE DEF positive, negative
<1>4. TRUE \in BOOLEAN
  BY Zenon
<1>5. Written(current, loaded, u) \in Totals
  <2>1. [row |-> TRUE, positive |-> positive, negative |-> negative] \in Totals
    BY <1>2, <1>4, IsTotals, Zenon
  <2> QED
    BY <1>3, <2>1, Zenon
<1>6. Written(current, loaded, u).row = TRUE
  <2>1. [row |-> TRUE, positive |-> positive, negative |-> negative].row = TRUE
    BY Zenon
  <2> QED
    BY <1>3, <2>1, Zenon
<1>7. /\ Written(current, loaded, u).positive = positive
      /\ Written(current, loaded, u).negative = negative
  BY <1>3
<1> QED
  BY <1>2, <1>5, <1>6, <1>7, Zenon

-----------------------------------------------------------------------------
(***************************************************************************)
(* Types.                                                                  *)
(***************************************************************************)

\* The first update of a queue is handled, or lost.
LEMMA QueueTail ==
    ASSUME QueuesOK, NEW v \in Members, updates[v] # <<>>,
           updates' = [updates EXCEPT ![v] = Tail(@)]
    PROVE  /\ QueuesOK' /\ Head(updates[v]) \in Update /\ Head(updates[v]) = updates[v][1]
           /\ Head(updates[v]).voter = v /\ 1 \in 1..Len(updates[v])
           /\ \A w \in Members \ {v} : updates'[w] = updates[w]
           /\ Len(updates'[v]) = Len(updates[v]) - 1
           /\ \A i \in 1..Len(updates'[v]) : updates'[v][i] = updates[v][i + 1]
<1>1. updates[v] \in Seq(Update) /\ \A i \in 1..Len(updates[v]) : updates[v][i].voter = v
  BY DEF QueuesOK
<1>2. /\ Head(updates[v]) \in Update /\ Head(updates[v]) = updates[v][1]
      /\ 1 \in 1..Len(updates[v]) /\ Tail(updates[v]) \in Seq(Update)
      /\ Len(Tail(updates[v])) = Len(updates[v]) - 1
      /\ \A i \in 1..Len(Tail(updates[v])) : Tail(updates[v])[i] = updates[v][i + 1]
  BY <1>1
<1>3. /\ updates'[v] = Tail(updates[v]) /\ updates' \in [Members -> Seq(Update)]
      /\ \A w \in Members \ {v} : updates'[w] = updates[w]
  BY <1>2 DEF QueuesOK
<1>4. ASSUME NEW w \in Members, NEW i \in 1..Len(updates'[w]) PROVE updates'[w][i].voter = w
  <2>1. CASE w = v
    <3>1. i + 1 \in 1..Len(updates[v]) /\ updates'[v][i] = updates[v][i + 1]
      BY <1>1, <1>2, <1>3, <2>1
    <3> QED
      BY <1>1, <2>1, <3>1
  <2>2. CASE w # v
    BY <1>3, <2>2 DEF QueuesOK
  <2> QED
    BY <2>1, <2>2
<1> QED
  BY <1>1, <1>2, <1>3, <1>4 DEF QueuesOK

\* A member reacts: one more update waits.
LEMMA QueueAppend ==
    ASSUME QueuesOK, NEW v \in Members, NEW u \in Update, u.voter = v,
           updates' = [updates EXCEPT ![v] = Append(@, u)]
    PROVE  /\ QueuesOK' /\ \A w \in Members \ {v} : updates'[w] = updates[w]
           /\ Len(updates'[v]) = Len(updates[v]) + 1 /\ Len(updates[v]) \in Nat
           /\ updates'[v][Len(updates[v]) + 1] = u
           /\ \A i \in 1..Len(updates[v]) : updates'[v][i] = updates[v][i]
<1>1. updates[v] \in Seq(Update) /\ \A i \in 1..Len(updates[v]) : updates[v][i].voter = v
  BY DEF QueuesOK
<1>2. /\ updates'[v] = Append(updates[v], u) /\ updates' \in [Members -> Seq(Update)]
      /\ \A w \in Members \ {v} : updates'[w] = updates[w]
  BY <1>1 DEF QueuesOK
<1>3. /\ Len(updates'[v]) = Len(updates[v]) + 1 /\ Len(updates[v]) \in Nat
      /\ updates'[v][Len(updates[v]) + 1] = u
      /\ \A i \in 1..Len(updates[v]) : updates'[v][i] = updates[v][i]
  BY <1>1, <1>2
<1>4. ASSUME NEW w \in Members, NEW i \in 1..Len(updates'[w]) PROVE updates'[w][i].voter = w
  <2>1. CASE w = v /\ i \in 1..Len(updates[v])
    BY <1>1, <1>3, <2>1
  <2>2. CASE w = v /\ i = Len(updates[v]) + 1
    BY <1>3, <2>2
  <2>3. CASE w # v
    BY <1>2, <2>3 DEF QueuesOK
  <2> QED
    BY <1>3, <2>1, <2>2, <2>3
<1> QED
  BY <1>2, <1>3, <1>4 DEF QueuesOK

\* What is typed is of the types the runs check (TypeOK).
LEMMA TypedIsOK == TypeInv => TypeOK
BY DEF TypeInv, TypeOK, QueuesOK, Busy

\* Nothing has happened yet (Init).
LEMMA TypeInvInit == Init => TypeInv
<1> SUFFICES ASSUME Init PROVE TypeInv
  OBVIOUS
<1>1. stats \in [Members -> Totals]
  <2>1. \A v \in Members : [Zero EXCEPT !.row = v \in HasRow] \in Totals
    <3> SUFFICES ASSUME NEW v \in Members PROVE [Zero EXCEPT !.row = v \in HasRow] \in Totals
      OBVIOUS
    <3>1. (v \in HasRow) \in BOOLEAN
      OBVIOUS
    <3> QED
      BY <3>1, ZeroIs, Zenon
  <2> QED
    BY <2>1, Zenon DEF Init
<1>2. feedback \in [Messages -> Totals]
  <2>1. \A m \in Messages : [Zero EXCEPT !.row = m \in tracked] \in Totals
    <3> SUFFICES ASSUME NEW m \in Messages PROVE [Zero EXCEPT !.row = m \in tracked] \in Totals
      OBVIOUS
    <3>1. (m \in tracked) \in BOOLEAN
      OBVIOUS
    <3> QED
      BY <3>1, ZeroIs, Zenon
  <2> QED
    BY <2>1, Zenon DEF Init
<1>3. lost = {} /\ together = {}
  BY DEF Init
<1>4. reaction \in [Messages -> [Members -> Reaction]] /\ votes = reaction
  BY DEF Init, Reaction
<1>5. QueuesOK
  BY DEF Init, QueuesOK
<1>6. /\ verified \subseteq Members /\ tracked \subseteq Messages /\ alerted \subseteq Messages
      /\ open \in [Tasks -> Handler \cup {<<>>}] /\ \A t \in Tasks : ~ Busy(t)
      /\ reacts \in 0..MaxReacts
  BY KarmaAssumption DEF Init, Busy
<1> QED
  BY <1>1, <1>2, <1>3, <1>4, <1>5, <1>6 DEF TypeInv

\* The vote of an update is one of a member on a message.
LEMMA VoteOfIs ==
    ASSUME NEW u \in Update
    PROVE  VoteOf(u) \in Messages \X Members /\ VoteOf(u) = <<u.message, u.voter>>
BY DEF VoteOf, Update

\* The pairs that a new handler adds are pairs of votes.
LEMMA MeetsIs ==
    ASSUME TypeInv, NEW a \in Messages \X Members
    PROVE  Meets(a) \subseteq (Messages \X Members) \X (Messages \X Members)
<1>1. \A s \in Tasks : Busy(s) => VoteOf(open[s].update) \in Messages \X Members
  BY Fields, VoteOfIs
<1> QED
  BY <1>1 DEF Meets

\* A handler that has begun, and what it has loaded (Begin).
LEMMA Beginning ==
    ASSUME TypeInv, NEW t \in Tasks, NEW v \in Members, Begin(t, v)
    PROVE  \E h \in Handler :
              /\ ~ Busy(t) /\ open' = [open EXCEPT ![t] = h] /\ h \in Handler
              /\ h.todo \in Stages /\ Head(h.todo) = "vote"
              /\ h.update = Head(updates[v]) /\ h.feedback = feedback[h.update.message]
              /\ updates[v] # <<>> /\ Counts(Head(updates[v]))
              /\ updates' = [updates EXCEPT ![v] = Tail(@)]
              /\ UNCHANGED <<reaction, verified, tracked, tables, lost, reacts>>
              /\ together' = together \cup Meets(VoteOf(h.update))
<1> DEFINE u == Head(updates[v])
           fb == feedback[u.message]
<1>1. QueuesOK /\ feedback \in [Messages -> Totals]
  BY DEF TypeInv
<1>2. /\ ~ Busy(t) /\ updates[v] # <<>> /\ Counts(u)
      /\ updates' = [updates EXCEPT ![v] = Tail(@)]
      /\ UNCHANGED <<reaction, verified, tracked, tables, lost, reacts>>
      /\ together' = together \cup Meets(VoteOf(u))
  BY Zenon DEF Begin
<1>3. u \in Update
  BY <1>1, <1>2, QueueTail
<1>4. fb \in Totals
  BY <1>1, <1>3 DEF Update
<1>5. /\ Plan(u) = <<"vote", "read", "stats", "feedback", "commit">>
      /\ Plan(u) \in Stages
  BY DEF Plan, Stages
<1>6. Plan(u) \in Seq(Steps) /\ Head(Plan(u)) = "vote" /\ {} \in SUBSET {"stats", "feedback"}
  BY <1>5, StageSteps
<1>7. FALSE \in BOOLEAN /\ Zero \in Totals
  <2>1. FALSE \in BOOLEAN
    BY Zenon
  <2> QED
    BY <2>1, ZeroIs
<1>8. PICK h : h = [todo |-> Plan(u), update |-> u, touches |-> FALSE, holds |-> {},
                    stats |-> Zero, feedback |-> fb]
  OBVIOUS
<1>9. open' = [open EXCEPT ![t] = h]
  BY <1>8, Zenon DEF Begin
<1>10. h \in Handler
  <2>1. [todo |-> Plan(u), update |-> u, touches |-> FALSE, holds |-> {},
         stats |-> Zero, feedback |-> fb] \in Handler
    BY <1>3, <1>4, <1>6, <1>7, IsHandler, Zenon
  <2> QED
    BY <1>8, <2>1, Zenon
<1>11. h.todo = Plan(u) /\ h.update = u /\ h.feedback = fb
  BY <1>8, Zenon
<1> QED
  BY <1>2, <1>5, <1>6, <1>9, <1>10, <1>11, Zenon

\* A reaction is one more update of its member.
LEMMA Reacting ==
    ASSUME TypeInv, NEW m \in Messages, NEW v \in Members, NEW new \in Reaction,
           React(m, v, new)
    PROVE  \E u \in Update :
              /\ u.message = m /\ u.voter = v /\ u.old = reaction[m][v] /\ u.new = new
              /\ updates' = [updates EXCEPT ![v] = Append(@, u)]
<1>1. reaction[m][v] \in Reaction
  BY DEF TypeInv
<1>2. PICK u : u = [message |-> m, voter |-> v, old |-> reaction[m][v], new |-> new]
  OBVIOUS
<1>3. u \in Update
  BY <1>1, <1>2 DEF Update
<1>4. updates' = [updates EXCEPT ![v] = Append(@, u)]
  BY <1>2, Zenon DEF React
<1> QED
  BY <1>2, <1>3, <1>4

\* A handler ends, whatever becomes of the tables.
LEMMA Ending ==
    ASSUME TypeInv, NEW t \in Tasks, open' = [open EXCEPT ![t] = <<>>]
    PROVE  /\ open' \in [Tasks -> Handler \cup {<<>>}] /\ ~ Busy(t)'
           /\ \A s \in Tasks \ {t} : open'[s] = open[s] /\ (Busy(s)' <=> Busy(s))
           /\ \A s \in Tasks : Busy(s)' => open'[s].todo \in Stages
BY DEF TypeInv, Busy

\* A handler is, from now on, h.
LEMMA Becoming ==
    ASSUME TypeInv, NEW t \in Tasks, NEW h \in Handler, h.todo \in Stages,
           open' = [open EXCEPT ![t] = h]
    PROVE  /\ open' \in [Tasks -> Handler \cup {<<>>}] /\ Busy(t)' /\ open'[t] = h
           /\ \A s \in Tasks \ {t} : open'[s] = open[s] /\ (Busy(s)' <=> Busy(s))
           /\ \A s \in Tasks : Busy(s)' => open'[s].todo \in Stages
<1>1. h # <<>>
  BY HandlerIs
<1> QED
  BY <1>1 DEF TypeInv, Busy

\* The steps of the model, told apart as the invariants below need it.
LEMMA StepCases ==
    ASSUME TypeInv, [Next]_vars
    PROVE  \/ \E m \in Messages, v \in Members, new \in Reaction : React(m, v, new)
           \/ \E m \in Messages : Track(m)
           \/ \E v \in Members : ChangeVerified(v)
           \/ \E v \in Members : Drop(v) \/ Ignore(v)
           \/ \E t \in Tasks, v \in Members : Begin(t, v)
           \/ \E t \in Tasks : \E h : Proceeds(t, h)
           \/ \E t \in Tasks : InsertFails(t) \/ RollBack(t)
           \/ \E t \in Tasks : Commit(t)
           \/ UNCHANGED vars
BY Proceeding DEF Next, Handle

\* Every step keeps the types and the order of the handlers' steps.
LEMMA TypeInvStep == TypeInv /\ [Next]_vars => TypeInv'
<1> SUFFICES ASSUME TypeInv, [Next]_vars PROVE TypeInv'
  OBVIOUS
<1> USE DEF tables
<1>0. QueuesOK
  BY DEF TypeInv
<1>1. ASSUME NEW m \in Messages, NEW v \in Members, NEW new \in Reaction, React(m, v, new)
      PROVE  TypeInv'
  <2>1. QueuesOK'
    BY <1>0, <1>1, Reacting, QueueAppend
  <2>2. reaction' \in [Messages -> [Members -> Reaction]]
    BY <1>1 DEF React, TypeInv
  <2>3. reacts' \in 0..MaxReacts
    BY <1>1, KarmaAssumption DEF React, TypeInv
  <2>4. UNCHANGED <<verified, tracked, votes, stats, feedback, alerted, open, lost,
                    together>>
    BY <1>1 DEF React
  <2> QED
    BY <2>1, <2>2, <2>3, <2>4 DEF TypeInv, Busy
<1>2. ASSUME NEW m \in Messages, Track(m) PROVE TypeInv'
  <2>1. feedback' \in [Messages -> Totals]
    <3>1. PICK r : r = [feedback[m] EXCEPT !.row = TRUE]
      OBVIOUS
    <3>2. feedback[m] \in Totals
      BY DEF TypeInv
    <3>3. feedback[m].positive \in Int /\ feedback[m].negative \in Int
      BY <3>2 DEF Totals
    <3>4. r = [row |-> TRUE, positive |-> feedback[m].positive, negative |-> feedback[m].negative]
      BY <3>1, <3>2, Zenon DEF Totals
    <3>5. TRUE \in BOOLEAN
      BY Zenon
    <3>6. r \in Totals
      BY <3>3, <3>4, <3>5, IsTotals, Zenon
    <3>7. feedback' = [feedback EXCEPT ![m] = r]
      BY <1>2, <3>1, Zenon DEF Track
    <3> QED
      BY <3>6, <3>7 DEF TypeInv
  <2>2. tracked' \subseteq Messages
    BY <1>2 DEF Track, TypeInv
  <2>3. UNCHANGED <<reaction, updates, verified, votes, stats, alerted, open, lost, together,
                    reacts>>
    BY <1>2 DEF Track
  <2> QED
    BY <2>1, <2>2, <2>3 DEF TypeInv, Busy, QueuesOK
<1>3. ASSUME NEW v \in Members, ChangeVerified(v) PROVE TypeInv'
  BY <1>3 DEF ChangeVerified, TypeInv, Busy, QueuesOK
<1>4. ASSUME NEW v \in Members, Drop(v) \/ Ignore(v) PROVE TypeInv'
  <2>1. QueuesOK'
    BY <1>0, <1>4, QueueTail DEF Drop, Ignore
  <2>2. lost' \subseteq Messages \X Members
    <3>1. Head(updates[v]) \in Update
      BY <1>0, <1>4, QueueTail DEF Drop, Ignore
    <3>2. lost' = lost \cup {VoteOf(Head(updates[v]))}
      BY <1>4, Zenon DEF Drop, Ignore
    <3> QED
      BY <3>1, <3>2, VoteOfIs DEF TypeInv
  <2>3. UNCHANGED <<reaction, verified, tracked, votes, stats, feedback, alerted, open, together,
                    reacts>>
    BY <1>4 DEF Drop, Ignore
  <2> QED
    BY <2>1, <2>2, <2>3 DEF TypeInv, Busy
<1>5. ASSUME NEW t \in Tasks, NEW v \in Members, Begin(t, v) PROVE TypeInv'
  <2>1. PICK h \in Handler :
           /\ open' = [open EXCEPT ![t] = h] /\ h.todo \in Stages /\ updates[v] # <<>>
           /\ updates' = [updates EXCEPT ![v] = Tail(@)]
           /\ UNCHANGED <<reaction, verified, tracked, tables, lost, reacts>>
           /\ together' = together \cup Meets(VoteOf(h.update))
    BY <1>5, Beginning
  <2>2. QueuesOK'
    BY <1>0, <2>1, QueueTail
  <2>3. together' \subseteq (Messages \X Members) \X (Messages \X Members)
    <3>1. h.update \in Update
      BY DEF Handler
    <3> QED
      BY <2>1, <3>1, MeetsIs, VoteOfIs DEF TypeInv
  <2> QED
    BY <2>1, <2>2, <2>3, Becoming DEF TypeInv
<1>6. ASSUME NEW t \in Tasks, NEW h, Proceeds(t, h) PROVE TypeInv'
  <2>1. h \in Handler /\ open' = [open EXCEPT ![t] = h] /\ h.todo \in Stages
    <3>1. Head(open[t].todo) # "commit" /\ h.todo = Tail(open[t].todo) /\ h \in Handler
          /\ open' = [open EXCEPT ![t] = h] /\ Busy(t)
      BY <1>6 DEF Proceeds
    <3> QED
      BY <3>1, StageSteps, Fields
  <2>2. UNCHANGED <<reaction, updates, verified, tracked, tables, lost, together, reacts>>
    BY <1>6 DEF Proceeds
  <2> QED
    BY <2>1, <2>2, Becoming DEF TypeInv, QueuesOK
<1>7. ASSUME NEW t \in Tasks, InsertFails(t) \/ RollBack(t) PROVE TypeInv'
  <2>1. open' = [open EXCEPT ![t] = <<>>]
    BY <1>7 DEF InsertFails, RollBack
  <2>2. lost' \subseteq Messages \X Members
    <3>1. lost' = lost \cup {VoteOf(open[t].update)} /\ Busy(t)
      BY <1>7, Zenon DEF InsertFails, RollBack, Doing
    <3> QED
      BY <3>1, Fields, VoteOfIs DEF TypeInv
  <2>3. alerted' \subseteq Messages
    <3>1. CASE UNCHANGED alerted
      BY <3>1 DEF TypeInv
    <3>2. CASE Doing(t, "commit") /\ Alert(t)
      BY <3>2, Fields DEF TypeInv, Alert, Doing
    <3> QED
      BY <1>7, <3>1, <3>2 DEF InsertFails, RollBack
  <2>4. UNCHANGED <<reaction, updates, verified, tracked, votes, stats, feedback, together, reacts>>
    BY <1>7 DEF InsertFails, RollBack
  <2> QED
    BY <2>1, <2>2, <2>3, <2>4, Ending DEF TypeInv, QueuesOK
<1>8. ASSUME NEW t \in Tasks, Commit(t) PROVE TypeInv'
  <2> DEFINE u == open[t].update
             a == Author[u.message]
  <2>1. /\ Busy(t) /\ open' = [open EXCEPT ![t] = <<>>]
        /\ votes' = [votes EXCEPT ![u.message][u.voter] = IF open[t].touches THEN u.new ELSE @]
        /\ stats' = [stats EXCEPT ![a] = Written(@, open[t].stats, u)]
        /\ feedback' = [feedback EXCEPT ![u.message] = Written(@, open[t].feedback, u)]
        /\ Alert(t) /\ UNCHANGED <<reaction, updates, verified, tracked, lost, together, reacts>>
    BY <1>8 DEF Commit, Doing
  <2>2. /\ u.message \in Messages /\ u.voter \in Members /\ a \in Members /\ u.new \in Reaction
        /\ open[t].stats \in Totals /\ open[t].feedback \in Totals
    BY <2>1, Fields
  <2>3. /\ Written(stats[a], open[t].stats, u) \in Totals
        /\ Written(feedback[u.message], open[t].feedback, u) \in Totals
    BY <2>2, WrittenIs DEF TypeInv
  <2> HIDE DEF u, a
  <2>4. votes' \in [Messages -> [Members -> Reaction]]
    BY <2>1, <2>2 DEF TypeInv
  <2>5. stats' \in [Members -> Totals] /\ feedback' \in [Messages -> Totals]
    BY <2>1, <2>2, <2>3 DEF TypeInv
  <2>6. alerted' \subseteq Messages
    BY <2>1, <2>2 DEF TypeInv, Alert, u
  <2> QED
    BY <2>1, <2>4, <2>5, <2>6, Ending DEF TypeInv, QueuesOK
<1>9. CASE UNCHANGED vars
  BY <1>9 DEF vars, TypeInv, QueuesOK, Busy
<1> QED
  BY <1>1, <1>2, <1>3, <1>4, <1>5, <1>6, <1>7, <1>8, <1>9, StepCases

\* The types, in every state.
LEMMA TypeAlways == Spec => []TypeInv
BY TypeInvInit, TypeInvStep, PTL DEF Spec

\* The handlers of reactions, their queues and the three tables keep their
\* types: whatever a handler computes of rows that it has loaded is a row.
THEOREM TypeCorrect == Spec => []TypeOK
BY TypeAlways, TypedIsOK, PTL

-----------------------------------------------------------------------------
(***************************************************************************)
(* Sums over finite sets.  SumFunctionOnSet is defined by recursion over   *)
(* sets; that there is such a function, and only one, is shown with a      *)
(* smallest set for which it were not so.                                  *)
(***************************************************************************)

\* Of any subsets of a finite set one contains no other.
LEMMA SmallestSubset ==
    ASSUME NEW S, IsFiniteSet(S), NEW D \in SUBSET (SUBSET S), D # {}
    PROVE  \E s \in D : \A t \in D : t \subseteq s => t = s
<1>1. IsWellFoundedOn(StrictSubsetOrdering(S), SUBSET S)
  BY FS_StrictSubsetOrderingWellFounded, FS_FiniteSubsetsOfFinite
<1>2. PICK s \in D : \A t \in D : ~ (<<t, s>> \in StrictSubsetOrdering(S))
  BY <1>1, WFMin
<1>3. ASSUME NEW t \in D, t \subseteq s PROVE t = s
  BY <1>2, <1>3 DEF StrictSubsetOrdering
<1> QED
  BY <1>3

\* The element that the sum of a set begins with.
First(s) == CHOOSE x \in s : TRUE

\* g is the sum of f over each of the subsets of S.
Sums(g, f, S) ==
    g = [s \in SUBSET S |-> IF s = {} THEN 0 ELSE f[First(s)] + g[s \ {First(s)}]]

\* A set that is not empty has a first element.
LEMMA FirstIn == ASSUME NEW s, s # {} PROVE First(s) \in s
BY DEF First

\* There is one such function, as over a smallest subset two could not differ first,
LEMMA SumsUnique ==
    ASSUME NEW S, IsFiniteSet(S), NEW f, NEW g, NEW h, Sums(g, f, S), Sums(h, f, S)
    PROVE  g = h
<1> DEFINE D == {s \in SUBSET S : g[s] # h[s]}
<1>1. CASE D = {}
  BY <1>1, Zenon DEF Sums
<1>2. CASE D # {}
  <2>0. D \in SUBSET (SUBSET S)
    OBVIOUS
  <2>1. PICK s \in D : \A t \in D : t \subseteq s => t = s
    <3> HIDE DEF D
    <3> QED
      BY <1>2, <2>0, SmallestSubset
  <2>2. s # {}
    BY <2>1 DEF Sums
  <2>3. First(s) \in s
    BY <2>2, FirstIn
  <2>4. s \ {First(s)} \notin D
    BY <2>1, <2>3
  <2>5. g[s \ {First(s)}] = h[s \ {First(s)}]
    BY <2>1, <2>4
  <2> QED
    BY <2>1, <2>2, <2>5 DEF Sums
<1> QED
  BY <1>1, <1>2

\* it is the same over the subsets of a subset,
LEMMA SumsRestrict ==
    ASSUME NEW S, IsFiniteSet(S), NEW f, NEW g, Sums(g, f, S), NEW T \in SUBSET S,
           NEW h, Sums(h, f, T)
    PROVE  h[T] = g[T]
<1> DEFINE k == [s \in SUBSET T |-> g[s]]
<1>1. Sums(k, f, T)
  <2>2. ASSUME NEW s \in SUBSET T
        PROVE  k[s] = IF s = {} THEN 0 ELSE f[First(s)] + k[s \ {First(s)}]
    <3>1. s \in SUBSET S /\ s \ {First(s)} \in SUBSET T
      OBVIOUS
    <3>2. k[s] = g[s] /\ k[s \ {First(s)}] = g[s \ {First(s)}]
      BY <3>1
    <3> QED
      BY <3>1, <3>2 DEF Sums
  <2> QED
    BY <2>2 DEF Sums
<1>2. IsFiniteSet(T)
  BY FS_Subset
<1>3. h = k
  BY <1>1, <1>2, SumsUnique
<1> QED
  BY <1>3

\* and it exists, as it could not be missing for a smallest subset first.
LEMMA SumsExist ==
    ASSUME NEW S, IsFiniteSet(S), NEW f, \A x \in S : f[x] \in Int
    PROVE  \E g \in [SUBSET S -> Int] : Sums(g, f, S)
<1> DEFINE D == {s \in SUBSET S : ~ \E g \in [SUBSET s -> Int] : Sums(g, f, s)}
<1>1. CASE D = {}
  BY <1>1
<1>2. CASE D # {}
  <2>0. D \in SUBSET (SUBSET S)
    OBVIOUS
  <2>1. PICK s \in D : \A t \in D : t \subseteq s => t = s
    <3> HIDE DEF D
    <3> QED
      BY <1>2, <2>0, SmallestSubset
  <2> DEFINE G(t) == CHOOSE g \in [SUBSET t -> Int] : Sums(g, f, t)
             g    == [t \in SUBSET s |->
                        IF t = s THEN IF s = {} THEN 0
                                      ELSE f[First(s)] + G(s \ {First(s)})[s \ {First(s)}]
                        ELSE G(t)[t]]
  <2>2. ASSUME NEW t \in SUBSET s, t # s PROVE G(t) \in [SUBSET t -> Int] /\ Sums(G(t), f, t)
    <3>1. \E k \in [SUBSET t -> Int] : Sums(k, f, t)
      BY <2>1, <2>2
    <3> QED
      BY <3>1, Zenon
  <2> HIDE DEF G
  <2>3. ASSUME NEW t \in SUBSET s, t # {}
        PROVE  t \ {First(t)} \in SUBSET s /\ t \ {First(t)} # s /\ f[First(t)] \in Int
    BY <2>1, <2>3, FirstIn
  <2>4. ASSUME NEW t \in SUBSET s, t # s PROVE G(t)[t] \in Int
    BY <2>2, <2>4 DEF Sums
  <2>5. g \in [SUBSET s -> Int]
    <3>1. ASSUME s # {} PROVE f[First(s)] + G(s \ {First(s)})[s \ {First(s)}] \in Int
      BY <2>3, <2>4, <3>1
    <3> QED
      BY <2>4, <3>1
  <2>6. ASSUME NEW t \in SUBSET s
        PROVE  g[t] = IF t = {} THEN 0 ELSE f[First(t)] + g[t \ {First(t)}]
    <3>1. CASE t = s
      BY <2>3, <3>1
    <3>2. CASE t # s /\ t = {}
      <4>1. g[t] = G(t)[t]
        BY <3>2
      <4>2. G(t)[t] = 0
        BY <2>2, <3>2 DEF Sums
      <4> QED
        BY <4>1, <4>2, <3>2
    <3>3. CASE t # s /\ t # {}
      <4> DEFINE r == t \ {First(t)}
      <4>1. g[t] = G(t)[t] /\ g[r] = G(r)[r]
        BY <2>3, <3>3
      <4>2. Sums(G(t), f, t) /\ Sums(G(r), f, r)
        BY <2>2, <2>3, <3>3
      <4>3. G(t)[t] = f[First(t)] + G(t)[r]
        BY <3>3, <4>2 DEF Sums
      <4>4. IsFiniteSet(t)
        BY <2>1, FS_Subset
      <4>5. G(r)[r] = G(t)[r]
        BY <4>2, <4>4, SumsRestrict
      <4> QED
        BY <3>3, <4>1, <4>3, <4>5
    <3> QED
      BY <3>1, <3>2, <3>3
  <2>7. Sums(g, f, s)
    <3>1. g = [t \in SUBSET s |-> g[t]]
      BY <2>5
    <3> HIDE DEF g
    <3> QED
      BY <2>6, <3>1 DEF Sums
  <2> QED
    BY <2>1, <2>5, <2>7
<1> QED
  BY <1>1, <1>2

\* It is what SumFunctionOnSet is defined by.
LEMMA SumIs ==
    ASSUME NEW S, IsFiniteSet(S), NEW f, \A x \in S : f[x] \in Int
    PROVE  \E g \in [SUBSET S -> Int] : Sums(g, f, S) /\ SumFunctionOnSet(f, S) = g[S]
<1> DEFINE Is(g) == g = [s \in SUBSET S |-> IF s = {} THEN 0
                                        ELSE f[CHOOSE x \in s : TRUE] + g[s \ {CHOOSE x \in s : TRUE}]]
           c == CHOOSE g : Is(g)
<1>1. SumFunctionOnSet(f, S) = c[S]
  BY Zenon DEF SumFunctionOnSet, FoldFunctionOnSet, MapThenFoldSet
<1>2. PICK g \in [SUBSET S -> Int] : Sums(g, f, S)
  BY SumsExist
<1>3. Is(g)
  BY <1>2, Zenon DEF Sums, First
<1>4. Is(c)
  BY <1>3, Zenon
<1>5. Sums(c, f, S)
  BY <1>4, Zenon DEF Sums, First
<1> HIDE DEF c
<1>6. c = g
  BY <1>2, <1>5, SumsUnique
<1> QED
  BY <1>1, <1>2, <1>6

\* The sum of no number is 0; of others, the first and the sum of the rest.
LEMMA SumStep ==
    ASSUME NEW S, IsFiniteSet(S), NEW f, \A x \in S : f[x] \in Int
    PROVE  /\ SumFunctionOnSet(f, S) \in Int
           /\ S = {} => SumFunctionOnSet(f, S) = 0
           /\ S # {} => /\ First(S) \in S
                        /\ SumFunctionOnSet(f, S) =
                               f[First(S)] + SumFunctionOnSet(f, S \ {First(S)})
<1>1. PICK g \in [SUBSET S -> Int] : Sums(g, f, S) /\ SumFunctionOnSet(f, S) = g[S]
  BY SumIs
<1>2. g[S] = IF S = {} THEN 0 ELSE f[First(S)] + g[S \ {First(S)}]
  BY <1>1 DEF Sums
<1>3. ASSUME S # {} PROVE SumFunctionOnSet(f, S \ {First(S)}) = g[S \ {First(S)}]
  <2> DEFINE T == S \ {First(S)}
  <2>1. IsFiniteSet(T) /\ T \in SUBSET S
    BY FS_Subset
  <2>2. PICK h \in [SUBSET T -> Int] : Sums(h, f, T) /\ SumFunctionOnSet(f, T) = h[T]
    BY <2>1, SumIs
  <2> HIDE DEF T
  <2>3. h[T] = g[T]
    BY <1>1, <2>1, <2>2, SumsRestrict
  <2> QED
    BY <2>2, <2>3 DEF T
<1> QED
  BY <1>1, <1>2, <1>3, FirstIn

\* When one number changes, the sum changes as much, if it is one of them.
LEMMA SumChanges ==
    ASSUME NEW S, IsFiniteSet(S), NEW f, NEW g, NEW m,
           \A x \in S : f[x] \in Int /\ g[x] \in Int,
           \A x \in S \ {m} : g[x] = f[x]
    PROVE  SumFunctionOnSet(g, S)
               = SumFunctionOnSet(f, S) + (IF m \in S THEN g[m] - f[m] ELSE 0)
<1> DEFINE Right(s) == SumFunctionOnSet(g, s)
                           = SumFunctionOnSet(f, s) + (IF m \in s THEN g[m] - f[m] ELSE 0)
           D == {s \in SUBSET S : ~ Right(s)}
<1>1. CASE D = {}
  BY <1>1
<1>2. CASE D # {}
  <2>0. D \in SUBSET (SUBSET S)
    OBVIOUS
  <2>1. PICK s \in D : \A t \in D : t \subseteq s => t = s
    <3> HIDE DEF D
    <3> QED
      BY <1>2, <2>0, SmallestSubset
  <2>2. /\ IsFiniteSet(s) /\ s \in SUBSET S
        /\ \A x \in s : f[x] \in Int /\ g[x] \in Int
    BY <2>1, FS_Subset
  <2>3. s # {}
    <3>1. IsFiniteSet({}) /\ \A x \in {} : f[x] \in Int /\ g[x] \in Int
      BY FS_EmptySet
    <3>2. SumFunctionOnSet(f, {}) = 0 /\ SumFunctionOnSet(g, {}) = 0
      BY <3>1, SumStep
    <3>3. Right({})
      BY <3>2
    <3> QED
      BY <2>1, <3>3
  <2> DEFINE t == s \ {First(s)}
  <2>4. First(s) \in s /\ t \in SUBSET S /\ t # s /\ t \subseteq s /\ IsFiniteSet(t)
    BY <2>2, <2>3, FirstIn, FS_Subset
  <2>5. Right(t)
    BY <2>1, <2>4
  <2>6. /\ SumFunctionOnSet(f, s) = f[First(s)] + SumFunctionOnSet(f, t)
        /\ SumFunctionOnSet(g, s) = g[First(s)] + SumFunctionOnSet(g, t)
        /\ SumFunctionOnSet(f, t) \in Int /\ SumFunctionOnSet(g, t) \in Int
    BY <2>2, <2>3, <2>4, SumStep
  <2>7. Right(s)
    BY <2>2, <2>4, <2>5, <2>6
  <2> QED
    BY <2>1, <2>7
<1> QED
  BY <1>1, <1>2

\* The sum of zeros is zero.
LEMMA SumOfZeros ==
    ASSUME NEW S, IsFiniteSet(S), NEW f, \A x \in S : f[x] = 0
    PROVE  SumFunctionOnSet(f, S) = 0
<1> DEFINE D == {s \in SUBSET S : SumFunctionOnSet(f, s) # 0}
<1>1. CASE D = {}
  BY <1>1
<1>2. CASE D # {}
  <2>0. D \in SUBSET (SUBSET S)
    OBVIOUS
  <2>1. PICK s \in D : \A t \in D : t \subseteq s => t = s
    <3> HIDE DEF D
    <3> QED
      BY <1>2, <2>0, SmallestSubset
  <2>2. IsFiniteSet(s) /\ s \in SUBSET S /\ \A x \in s : f[x] \in Int /\ f[x] = 0
    BY <2>1, FS_Subset
  <2>3. s # {}
    BY <2>1, <2>2, SumStep
  <2> DEFINE t == s \ {First(s)}
  <2>4. First(s) \in s /\ t \in SUBSET S /\ t # s /\ t \subseteq s
    BY <2>2, <2>3, FirstIn
  <2>5. SumFunctionOnSet(f, t) = 0
    BY <2>1, <2>4
  <2>6. SumFunctionOnSet(f, s) = f[First(s)] + SumFunctionOnSet(f, t)
    BY <2>2, <2>3, SumStep
  <2> QED
    BY <2>1, <2>2, <2>4, <2>5, <2>6
<1> QED
  BY <1>1, <1>2

-----------------------------------------------------------------------------
(***************************************************************************)
(* Handlers that have met.                                                 *)
(***************************************************************************)

\* A handler's vote is that of v on m.
Handles(t, m, v) == Busy(t) /\ open[t].update.message = m /\ open[t].update.voter = v

\* Handlers that are under way have been under way together.
Seen == \A s, t \in Tasks :
            s # t /\ Busy(s) /\ Busy(t)
                => <<VoteOf(open[s].update), VoteOf(open[t].update)>> \in together

\* What is lost stays lost, and handlers that have met have met.
LEMMA History == TypeInv /\ [Next]_vars => lost \subseteq lost' /\ together \subseteq together'
<1> SUFFICES ASSUME TypeInv, [Next]_vars PROVE lost \subseteq lost' /\ together \subseteq together'
  OBVIOUS
<1>1. ASSUME NEW t \in Tasks, NEW v \in Members, Begin(t, v)
      PROVE  lost \subseteq lost' /\ together \subseteq together'
  BY <1>1, Beginning
<1>2. ASSUME NEW t \in Tasks, NEW h, Proceeds(t, h)
      PROVE  lost \subseteq lost' /\ together \subseteq together'
  BY <1>2 DEF Proceeds
<1> QED
  BY <1>1, <1>2, StepCases
     DEF React, Track, ChangeVerified, Drop, Ignore, InsertFails, RollBack, Commit, vars

\* Rows that are apart have been.
LEMMA StillApart ==
    ASSUME together \subseteq together', NEW ms, Apart(ms)' PROVE Apart(ms)
BY DEF Apart

\* Messages that are apart have one handler.
LEMMA OneHandler ==
    ASSUME TypeInv, Seen, NEW s \in Tasks, NEW t \in Tasks, Busy(s), Busy(t), NEW ms, Apart(ms),
           open[s].update.message \in ms, open[t].update.message \in ms
    PROVE  s = t
<1>1. SUFFICES ASSUME s # t PROVE FALSE
  OBVIOUS
<1>2. <<VoteOf(open[s].update), VoteOf(open[t].update)>> \in together
  BY <1>1 DEF Seen
<1>3. VoteOf(open[s].update)[1] \in ms /\ VoteOf(open[t].update)[1] \in ms
  BY DEF VoteOf
<1>4. PICK p \in together : p[1][1] \in ms /\ p[2][1] \in ms
  BY <1>2, <1>3
<1> QED
  BY <1>4 DEF Apart

\* So has a vote that is not together with itself.
LEMMA OneOfVote ==
    ASSUME TypeInv, Seen, NEW s \in Tasks, NEW t \in Tasks, NEW m, NEW v,
           Handles(s, m, v), Handles(t, m, v), <<<<m, v>>, <<m, v>>>> \notin together
    PROVE  s = t
BY DEF Seen, Handles, VoteOf

\* Nothing is under way.
LEMMA SeenInit == Init => Seen
BY DEF Init, Seen, Busy

\* Every step keeps it: a handler meets all that are under way when it begins.
LEMMA SeenStep == TypeInv /\ Seen /\ [Next]_vars => Seen'
<1> SUFFICES ASSUME TypeInv, Seen, [Next]_vars PROVE Seen'
  OBVIOUS
<1>0. together \subseteq together'
  BY History
<1>1. ASSUME NEW t \in Tasks, NEW v \in Members, Begin(t, v) PROVE Seen'
  <2>1. PICK h \in Handler :
              /\ open' = [open EXCEPT ![t] = h] /\ h.todo \in Stages /\ ~ Busy(t)
              /\ together' = together \cup Meets(VoteOf(h.update))
    BY <1>1, Beginning
  <2>2. open'[t] = h /\ \A s \in Tasks \ {t} : open'[s] = open[s] /\ (Busy(s)' <=> Busy(s))
    BY <2>1, Becoming
  <2>3. ASSUME NEW s \in Tasks \ {t}, Busy(s)
        PROVE  /\ <<VoteOf(open[s].update), VoteOf(h.update)>> \in together'
               /\ <<VoteOf(h.update), VoteOf(open[s].update)>> \in together'
    BY <2>1, <2>3 DEF Meets
  <2>4. ASSUME NEW r \in Tasks, NEW s \in Tasks, r # s, Busy(r)', Busy(s)'
        PROVE  <<VoteOf(open'[r].update), VoteOf(open'[s].update)>> \in together'
    <3>1. CASE r = t
      BY <2>2, <2>3, <2>4, <3>1
    <3>2. CASE s = t
      BY <2>2, <2>3, <2>4, <3>2
    <3>3. CASE r # t /\ s # t
      <4>1. Busy(r) /\ Busy(s) /\ open'[r] = open[r] /\ open'[s] = open[s]
        BY <2>2, <2>4, <3>3
      <4> QED
        BY <1>0, <2>4, <4>1 DEF Seen
    <3> QED
      BY <3>1, <3>2, <3>3
  <2> QED
    BY <2>4 DEF Seen, VoteOf
<1>2. ASSUME NEW t \in Tasks, NEW h, Proceeds(t, h) PROVE Seen'
  <2>1. /\ Busy(t) /\ h \in Handler /\ open' = [open EXCEPT ![t] = h]
        /\ h.update = open[t].update /\ h.todo = Tail(open[t].todo)
        /\ Head(open[t].todo) # "commit"
    BY <1>2 DEF Proceeds
  <2>2. h.todo \in Stages
    BY <2>1, Fields, StageSteps
  <2>3. open'[t] = h /\ \A s \in Tasks \ {t} : open'[s] = open[s] /\ (Busy(s)' <=> Busy(s))
    BY <2>1, <2>2, Becoming
  <2>4. \A s \in Tasks : open'[s].update = open[s].update /\ (Busy(s)' => Busy(s))
    BY <2>1, <2>3
  <2> QED
    BY <1>0, <2>4 DEF Seen
<1>3. ASSUME NEW t \in Tasks, open' = [open EXCEPT ![t] = <<>>] PROVE Seen'
  BY <1>0, <1>3, Ending DEF Seen
<1>4. ASSUME UNCHANGED open PROVE Seen'
  BY <1>0, <1>4 DEF Seen, Busy
<1>5. \/ UNCHANGED open
      \/ (\E t \in Tasks : open' = [open EXCEPT ![t] = <<>>])
      \/ (\E t \in Tasks, v \in Members : Begin(t, v))
      \/ (\E t \in Tasks : \E h : Proceeds(t, h))
  BY StepCases
     DEF React, Track, ChangeVerified, Drop, Ignore, InsertFails, RollBack, Commit, vars
<1> QED
  BY <1>1, <1>2, <1>3, <1>4, <1>5

-----------------------------------------------------------------------------
(***************************************************************************)
(* Karma is the sum over the member's messages.                            *)
(***************************************************************************)

\* What a handler has loaded of the message is what there is,
LoadedFeedback(t) ==
    LET u == open[t].update
    IN Apart({u.message}) => /\ open[t].feedback.positive = feedback[u.message].positive
                             /\ open[t].feedback.negative = feedback[u.message].negative

\* and of the author, once it has.
LoadedStats(t) ==
    LET u == open[t].update  a == Author[u.message]
    IN Apart(Own(a)) /\ Head(open[t].todo) \notin {"vote", "read"}
           => /\ open[t].stats.positive = stats[a].positive
              /\ open[t].stats.negative = stats[a].negative

Loaded(t) == LoadedFeedback(t) /\ LoadedStats(t)

\* The sums hold, and what will be written is computed from them.
SumInv == Seen /\ KarmaIsSum /\ \A t \in Tasks : Busy(t) => Loaded(t)

\* A message is one of its author's.
LEMMA ApartOwn ==
    ASSUME NEW m \in Messages, Apart(Own(Author[m])) PROVE Apart({m})
BY DEF Apart, Own

\* The sum over some messages, when the total of one message changes.
LEMMA SumOfOwn ==
    ASSUME NEW f \in [Messages -> Int], NEW g \in [Messages -> Int], NEW m,
           NEW own \in SUBSET Messages, \A x \in Messages \ {m} : g[x] = f[x]
    PROVE  /\ SumFunctionOnSet(f, own) \in Int
           /\ SumFunctionOnSet(g, own)
                 = SumFunctionOnSet(f, own) + (IF m \in own THEN g[m] - f[m] ELSE 0)
<1>1. IsFiniteSet(own)
  BY KarmaAssumption, FS_Subset
<1>2. /\ \A x \in own : f[x] \in Int /\ g[x] \in Int
      /\ \A x \in own \ {m} : g[x] = f[x]
  OBVIOUS
<1>3. SumFunctionOnSet(f, own) \in Int
  BY <1>1, <1>2, SumStep
<1>4. SumFunctionOnSet(g, own)
          = SumFunctionOnSet(f, own) + (IF m \in own THEN g[m] - f[m] ELSE 0)
  BY ONLY <1>1, <1>2, SumChanges
<1> QED
  BY <1>3, <1>4

\* The totals of messages, as whole numbers.
LEMMA TotalsAre ==
    ASSUME TypeInv
    PROVE  /\ [m \in Messages |-> feedback[m].positive] \in [Messages -> Int]
           /\ [m \in Messages |-> feedback[m].negative] \in [Messages -> Int]
           /\ \A m \in Messages : feedback[m] \in Totals
           /\ \A v \in Members : /\ stats[v] \in Totals
                                 /\ stats[v].positive \in Int /\ stats[v].negative \in Int
BY DEF TypeInv, Totals

\* All totals are zero.
LEMMA SumInit == Init => SumInv
<1> SUFFICES ASSUME Init PROVE SumInv
  OBVIOUS
<1> DEFINE p == [m \in Messages |-> feedback[m].positive]
           n == [m \in Messages |-> feedback[m].negative]
<1>1. ASSUME NEW v \in Members PROVE stats[v].positive = 0 /\ stats[v].negative = 0
  <2>1. (v \in HasRow) \in BOOLEAN
    OBVIOUS
  <2>2. stats[v] = [Zero EXCEPT !.row = v \in HasRow]
    BY DEF Init
  <2> QED
    BY <2>1, <2>2, ZeroIs, Zenon
<1>2. ASSUME NEW m \in Messages PROVE p[m] = 0 /\ n[m] = 0
  <2>1. (m \in tracked) \in BOOLEAN
    OBVIOUS
  <2>2. feedback[m] = [Zero EXCEPT !.row = m \in tracked]
    BY DEF Init
  <2>3. feedback[m].positive = 0 /\ feedback[m].negative = 0
    BY <2>1, <2>2, ZeroIs, Zenon
  <2> QED
    BY <2>3
<1>3. ASSUME NEW v \in Members, NEW own, own = Own(v)
      PROVE  SumFunctionOnSet(p, own) = 0 /\ SumFunctionOnSet(n, own) = 0
  <2>1. IsFiniteSet(own) /\ own \subseteq Messages
    BY <1>3, KarmaAssumption, FS_Subset DEF Own
  <2>2. \A m \in own : p[m] = 0 /\ n[m] = 0
    BY <1>2, <2>1
  <2> HIDE DEF p, n
  <2> QED
    BY <2>1, <2>2, SumOfZeros
<1>4. KarmaIsSum
  BY <1>1, <1>3 DEF KarmaIsSum
<1>5. \A t \in Tasks : ~ Busy(t)
  BY DEF Init, Busy
<1> QED
  BY <1>4, <1>5, SeenInit DEF SumInv

\* Nothing in the totals changes.
LEMMA SumUnchanged ==
    ASSUME KarmaIsSum, UNCHANGED stats, together \subseteq together',
           \A m \in Messages : /\ feedback'[m].positive = feedback[m].positive
                               /\ feedback'[m].negative = feedback[m].negative
    PROVE  KarmaIsSum'
<1>1. /\ [m \in Messages |-> feedback'[m].positive] = [m \in Messages |-> feedback[m].positive]
      /\ [m \in Messages |-> feedback'[m].negative] = [m \in Messages |-> feedback[m].negative]
  OBVIOUS
<1>2. ASSUME NEW v \in Members, Apart(Own(v))' PROVE Apart(Own(v))
  BY <1>2 DEF Apart, Own
<1> QED
  BY <1>1, <1>2, Zenon DEF KarmaIsSum, Own

\* What the last step of a handler changes in the totals of the message and of its
\* author: where it has loaded the current ones, they are those, plus the change.
LEMMA CommitWrites ==
    ASSUME TypeInv, NEW t \in Tasks, Commit(t), Loaded(t)
    PROVE  LET u == open[t].update  a == Author[u.message]
           IN /\ \A m \in Messages \ {u.message} : feedback'[m] = feedback[m]
              /\ Apart({u.message}) =>
                    /\ feedback'[u.message].positive
                           = feedback[u.message].positive + Change(u, "HELPED")
                    /\ feedback'[u.message].negative
                           = feedback[u.message].negative + Change(u, "NOT_HELPED")
              /\ \A v \in Members \ {a} : stats'[v] = stats[v]
              /\ Apart(Own(a)) =>
                    /\ stats'[a].positive = stats[a].positive + Change(u, "HELPED")
                    /\ stats'[a].negative = stats[a].negative + Change(u, "NOT_HELPED")
<1> DEFINE u == open[t].update
           a == Author[u.message]
<1>1. /\ Busy(t) /\ Head(open[t].todo) = "commit"
      /\ stats' = [stats EXCEPT ![a] = Written(@, open[t].stats, u)]
      /\ feedback' = [feedback EXCEPT ![u.message] = Written(@, open[t].feedback, u)]
  BY DEF Commit, Doing
<1>2. /\ u.message \in Messages /\ a \in Members
      /\ open[t].stats \in Totals /\ open[t].feedback \in Totals
  BY <1>1, Fields
<1>3. /\ Apart({u.message}) => /\ open[t].feedback.positive = feedback[u.message].positive
                               /\ open[t].feedback.negative = feedback[u.message].negative
      /\ Apart(Own(a)) => /\ open[t].stats.positive = stats[a].positive
                          /\ open[t].stats.negative = stats[a].negative
  BY <1>1 DEF Loaded, LoadedFeedback, LoadedStats
<1>4. stats[a] \in Totals /\ feedback[u.message] \in Totals
  BY <1>2, TotalsAre
<1>a. ASSUME NEW c \in Totals, NEW l \in Totals, NEW w,
             l.positive = c.positive, l.negative = c.negative
      PROVE  /\ Written(c, l, w).positive = c.positive + Change(w, "HELPED")
             /\ Written(c, l, w).negative = c.negative + Change(w, "NOT_HELPED")
  BY ONLY <1>a, WrittenIs
<1>5. ASSUME Apart(Own(a))
      PROVE  /\ Written(stats[a], open[t].stats, u).positive
                    = stats[a].positive + Change(u, "HELPED")
             /\ Written(stats[a], open[t].stats, u).negative
                    = stats[a].negative + Change(u, "NOT_HELPED")
  <2>1. PICK c, l, w : c = stats[a] /\ l = open[t].stats /\ w = u
    OBVIOUS
  <2>2. c \in Totals /\ l \in Totals /\ l.positive = c.positive /\ l.negative = c.negative
    BY <1>2, <1>3, <1>4, <1>5, <2>1
  <2>3. /\ Written(c, l, w).positive = c.positive + Change(w, "HELPED")
        /\ Written(c, l, w).negative = c.negative + Change(w, "NOT_HELPED")
    BY <1>a, <2>2, Zenon
  <2> HIDE DEF u, a
  <2> QED
    BY <2>1, <2>3, Zenon
<1>6. ASSUME Apart({u.message})
      PROVE  /\ Written(feedback[u.message], open[t].feedback, u).positive
                    = feedback[u.message].positive + Change(u, "HELPED")
             /\ Written(feedback[u.message], open[t].feedback, u).negative
                    = feedback[u.message].negative + Change(u, "NOT_HELPED")
  <2>1. PICK c, l, w : c = feedback[u.message] /\ l = open[t].feedback /\ w = u
    OBVIOUS
  <2>2. c \in Totals /\ l \in Totals /\ l.positive = c.positive /\ l.negative = c.negative
    BY <1>2, <1>3, <1>4, <1>6, <2>1
  <2>3. /\ Written(c, l, w).positive = c.positive + Change(w, "HELPED")
        /\ Written(c, l, w).negative = c.negative + Change(w, "NOT_HELPED")
    BY <1>a, <2>2, Zenon
  <2> HIDE DEF u, a
  <2> QED
    BY <2>1, <2>3, Zenon
<1> HIDE DEF u, a
<1>7. /\ \A m \in Messages \ {u.message} : feedback'[m] = feedback[m]
      /\ feedback'[u.message] = Written(feedback[u.message], open[t].feedback, u)
      /\ \A v \in Members \ {a} : stats'[v] = stats[v]
      /\ stats'[a] = Written(stats[a], open[t].stats, u)
  BY <1>1, <1>2 DEF TypeInv
<1> QED
  BY <1>5, <1>6, <1>7 DEF u, a

\* A handler commits: the sums grow with the karma.
LEMMA SumCommit ==
    ASSUME TypeInv, TypeInv', KarmaIsSum, NEW t \in Tasks, Commit(t), Loaded(t)
    PROVE  KarmaIsSum'
<1> DEFINE u == open[t].update
           m0 == u.message
           a == Author[m0]
           dp == Change(u, "HELPED")
           dn == Change(u, "NOT_HELPED")
<1>1. /\ \A m \in Messages \ {m0} : feedback'[m] = feedback[m]
      /\ Apart({m0}) => /\ feedback'[m0].positive = feedback[m0].positive + dp
                        /\ feedback'[m0].negative = feedback[m0].negative + dn
      /\ \A v \in Members \ {a} : stats'[v] = stats[v]
      /\ Apart(Own(a)) => /\ stats'[a].positive = stats[a].positive + dp
                          /\ stats'[a].negative = stats[a].negative + dn
  BY CommitWrites
<1>2. m0 \in Messages /\ a \in Members /\ dp \in Int /\ dn \in Int
  BY Fields, ChangeIs DEF Commit, Doing
<1>3. /\ [m \in Messages |-> feedback[m].positive] \in [Messages -> Int]
      /\ [m \in Messages |-> feedback[m].negative] \in [Messages -> Int]
      /\ [m \in Messages |-> feedback'[m].positive] \in [Messages -> Int]
      /\ [m \in Messages |-> feedback'[m].negative] \in [Messages -> Int]
  BY TotalsAre DEF TypeInv, Totals
<1>p. PICK p \in [Messages -> Int] : p = [m \in Messages |-> feedback[m].positive]
  BY <1>3
<1>n. PICK n \in [Messages -> Int] : n = [m \in Messages |-> feedback[m].negative]
  BY <1>3
<1>p1. PICK p1 \in [Messages -> Int] : p1 = [m \in Messages |-> feedback'[m].positive]
  BY <1>3
<1>n1. PICK n1 \in [Messages -> Int] : n1 = [m \in Messages |-> feedback'[m].negative]
  BY <1>3
<1>4. Apart(Own(a)) => Apart({m0})
  BY <1>2, ApartOwn
<1>5. UNCHANGED together
  BY DEF Commit
<1> HIDE DEF m0, a, dp, dn
<1>6. /\ \A m \in Messages \ {m0} : p1[m] = p[m] /\ n1[m] = n[m]
      /\ Apart({m0}) => p1[m0] - p[m0] = dp /\ n1[m0] - n[m0] = dn
  BY <1>1, <1>2, <1>p, <1>n, <1>p1, <1>n1
<1>7. ASSUME NEW v \in Members, NEW own, own = Own(v), Apart(own)
      PROVE  /\ stats'[v].positive = SumFunctionOnSet(p1, own)
             /\ stats'[v].negative = SumFunctionOnSet(n1, own)
  <2>1. /\ stats[v].positive = SumFunctionOnSet(p, own)
        /\ stats[v].negative = SumFunctionOnSet(n, own)
    BY <1>7, <1>p, <1>n, Zenon DEF KarmaIsSum
  <2>2. own \in SUBSET Messages /\ (m0 \in own <=> v = a)
    BY <1>2, <1>7 DEF a, Own
  <2>3. /\ SumFunctionOnSet(p, own) \in Int
        /\ SumFunctionOnSet(p1, own)
              = SumFunctionOnSet(p, own) + (IF m0 \in own THEN p1[m0] - p[m0] ELSE 0)
    <3>1. \A m \in Messages \ {m0} : p1[m] = p[m]
      BY <1>6
    <3> QED
      BY <2>2, <3>1, SumOfOwn
  <2>4. /\ SumFunctionOnSet(n, own) \in Int
        /\ SumFunctionOnSet(n1, own)
              = SumFunctionOnSet(n, own) + (IF m0 \in own THEN n1[m0] - n[m0] ELSE 0)
    <3>1. \A m \in Messages \ {m0} : n1[m] = n[m]
      BY <1>6
    <3> QED
      BY <2>2, <3>1, SumOfOwn
  <2>5. CASE v = a
    <3>1. Apart(Own(a)) /\ Apart({m0})
      BY <1>4, <1>7, <2>5
    <3> QED
      BY <1>1, <1>2, <1>6, <2>1, <2>2, <2>3, <2>4, <2>5, <3>1
  <2>6. CASE v # a
    BY <1>1, <2>1, <2>2, <2>3, <2>4, <2>6
  <2> QED
    BY <2>5, <2>6
<1>8. ASSUME NEW v \in Members, Apart(Own(v))' PROVE Apart(Own(v))
  BY <1>5, <1>8 DEF Apart, Own
<1> QED
  BY <1>7, <1>8, <1>p1, <1>n1, Zenon DEF KarmaIsSum, Own

\* What a handler has loaded stays what there is while the rows do.
LEMMA StillLoaded ==
    ASSUME NEW s \in Tasks, Loaded(s), together \subseteq together',
           open'[s].update = open[s].update, open'[s].feedback = open[s].feedback,
           open'[s].stats = open[s].stats, open'[s].todo = open[s].todo,
           LET m == open[s].update.message
           IN /\ Apart({m})' => /\ feedback'[m].positive = feedback[m].positive
                                /\ feedback'[m].negative = feedback[m].negative
              /\ Apart(Own(Author[m]))' => stats'[Author[m]] = stats[Author[m]]
    PROVE  Loaded(s)'
<1> DEFINE m == open[s].update.message
           a == Author[m]
<1>1. ASSUME Apart({m})' PROVE Apart({m})
  BY <1>1 DEF Apart
<1>2. ASSUME Apart(Own(a))' PROVE Apart(Own(a))
  BY <1>2 DEF Apart, Own
<1>3. LoadedFeedback(s)'
  BY <1>1 DEF Loaded, LoadedFeedback
<1>4. LoadedStats(s)'
  BY <1>2 DEF Loaded, LoadedStats
<1> QED
  BY <1>3, <1>4 DEF Loaded

\* Every step keeps the sums.
LEMMA SumStepKept == TypeInv /\ TypeInv' /\ SumInv /\ [Next]_vars => SumInv'
<1> SUFFICES ASSUME TypeInv, TypeInv', SumInv, [Next]_vars PROVE SumInv'
  OBVIOUS
<1> USE DEF tables
<1>0. /\ KarmaIsSum /\ Seen /\ Seen' /\ together \subseteq together'
      /\ \A s \in Tasks : Busy(s) => Loaded(s)
  BY SeenStep, History DEF SumInv
<1>1. ASSUME UNCHANGED <<stats, feedback, open>> PROVE SumInv'
  <2>1. KarmaIsSum'
    BY <1>0, <1>1, SumUnchanged
  <2>2. ASSUME NEW s \in Tasks, Busy(s)' PROVE Loaded(s)'
    <3>1. Busy(s) /\ Loaded(s)
      BY <1>0, <1>1, <2>2 DEF Busy
    <3> QED
      BY <1>0, <1>1, <3>1, StillLoaded
  <2> QED
    BY <1>0, <2>1, <2>2 DEF SumInv
<1>2. ASSUME NEW m0 \in Messages, Track(m0) PROVE SumInv'
  <2>1. UNCHANGED <<stats, open>> /\ feedback' = [feedback EXCEPT ![m0].row = TRUE]
    BY <1>2 DEF Track
  <2>2. ASSUME NEW m \in Messages
        PROVE  /\ feedback'[m].positive = feedback[m].positive
               /\ feedback'[m].negative = feedback[m].negative
    <3>1. feedback'[m] = feedback[m] \/ feedback'[m] = [feedback[m] EXCEPT !.row = TRUE]
      BY <2>1 DEF TypeInv
    <3> QED
      BY <3>1, TotalsAre DEF Totals
  <2>3. KarmaIsSum'
    BY <1>0, <2>1, <2>2, SumUnchanged
  <2>4. ASSUME NEW t \in Tasks, Busy(t)' PROVE Loaded(t)'
    <3>1. Busy(t)
      BY <2>1, <2>4 DEF Busy
    <3>2. open[t].update.message \in Messages /\ Loaded(t)
      BY <1>0, <3>1, Fields
    <3>3. LET m == open[t].update.message
          IN /\ feedback'[m].positive = feedback[m].positive
             /\ feedback'[m].negative = feedback[m].negative
      BY <2>2, <3>2
    <3> QED
      BY <1>0, <2>1, <3>2, <3>3, StillLoaded
  <2> QED
    BY <1>0, <2>3, <2>4 DEF SumInv
<1>3. ASSUME NEW t \in Tasks, NEW v \in Members, Begin(t, v) PROVE SumInv'
  <2>1. PICK h \in Handler :
              /\ open' = [open EXCEPT ![t] = h] /\ h.todo \in Stages /\ Head(h.todo) = "vote"
              /\ h.feedback = feedback[h.update.message] /\ UNCHANGED <<stats, feedback>>
    BY <1>3, Beginning
  <2>2. open'[t] = h /\ \A s \in Tasks \ {t} : open'[s] = open[s] /\ (Busy(s)' <=> Busy(s))
    BY <2>1, Becoming
  <2>3. Loaded(t)'
    BY <2>1, <2>2 DEF Loaded, LoadedFeedback, LoadedStats
  <2>4. KarmaIsSum'
    BY <1>0, <2>1, SumUnchanged
  <2>5. ASSUME NEW s \in Tasks \ {t}, Busy(s)' PROVE Loaded(s)'
    BY <1>0, <2>1, <2>2, <2>5, StillLoaded
  <2> QED
    BY <1>0, <2>3, <2>4, <2>5 DEF SumInv
<1>4. ASSUME NEW t \in Tasks, NEW h, Proceeds(t, h) PROVE SumInv'
  <2>1. /\ Busy(t) /\ h \in Handler /\ open' = [open EXCEPT ![t] = h]
        /\ h.update = open[t].update /\ h.feedback = open[t].feedback
        /\ Head(open[t].todo) # "commit" /\ h.todo = Tail(open[t].todo)
        /\ h.stats = IF Head(open[t].todo) = "read" THEN stats[Author[open[t].update.message]]
                     ELSE open[t].stats
        /\ UNCHANGED <<stats, feedback, together>>
    BY <1>4 DEF Proceeds
  <2>2. open[t].todo \in Stages /\ h.todo \in Stages
    BY <2>1, Fields, StageSteps
  <2>3. open'[t] = h /\ \A s \in Tasks \ {t} : open'[s] = open[s] /\ (Busy(s)' <=> Busy(s))
    BY <2>1, <2>2, Becoming
  <2>4. Loaded(t)
    BY <1>0, <2>1
  <2>5. Head(h.todo) \notin {"vote", "read"}
            => Head(open[t].todo) = "read" \/ Head(open[t].todo) \notin {"vote", "read"}
    BY <2>1, <2>2, StageSteps
  <2>6. Loaded(t)'
    <3>1. LoadedFeedback(t)'
      BY <2>1, <2>3, <2>4 DEF Loaded, LoadedFeedback, Apart
    <3>2. LoadedStats(t)'
      BY <2>1, <2>3, <2>4, <2>5 DEF Loaded, LoadedStats, Apart, Own
    <3> QED
      BY <3>1, <3>2 DEF Loaded
  <2>7. KarmaIsSum'
    BY <1>0, <2>1, SumUnchanged
  <2>8. ASSUME NEW s \in Tasks \ {t}, Busy(s)' PROVE Loaded(s)'
    BY <1>0, <2>1, <2>3, <2>8, StillLoaded
  <2> QED
    BY <1>0, <2>6, <2>7, <2>8 DEF SumInv
<1>5. ASSUME NEW t \in Tasks, InsertFails(t) \/ RollBack(t) PROVE SumInv'
  <2>1. open' = [open EXCEPT ![t] = <<>>] /\ UNCHANGED <<stats, feedback>>
    BY <1>5 DEF InsertFails, RollBack
  <2>2. ~ Busy(t)' /\ \A s \in Tasks \ {t} : open'[s] = open[s] /\ (Busy(s)' <=> Busy(s))
    BY <2>1, Ending
  <2>3. KarmaIsSum'
    BY <1>0, <2>1, SumUnchanged
  <2>4. ASSUME NEW s \in Tasks, Busy(s)' PROVE Loaded(s)'
    BY <1>0, <2>1, <2>2, <2>4, StillLoaded
  <2> QED
    BY <1>0, <2>3, <2>4 DEF SumInv
<1>6. ASSUME NEW t \in Tasks, Commit(t) PROVE SumInv'
  <2>1. Busy(t) /\ open' = [open EXCEPT ![t] = <<>>] /\ UNCHANGED together
    BY <1>6 DEF Commit, Doing
  <2>2. ~ Busy(t)' /\ \A s \in Tasks \ {t} : open'[s] = open[s] /\ (Busy(s)' <=> Busy(s))
    BY <2>1, Ending
  <2>3. KarmaIsSum'
    BY <1>0, <1>6, <2>1, SumCommit
  <2>4. ASSUME NEW s \in Tasks, Busy(s)' PROVE Loaded(s)'
    <3>1. s # t /\ Busy(s) /\ open'[s] = open[s]
      BY <2>2, <2>4
    <3>2. PICK m, m0 : m = open[s].update.message /\ m0 = open[t].update.message
      OBVIOUS
    <3>3. /\ m \in Messages /\ m0 \in Messages
          /\ Author[m] \in Members /\ Author[m0] \in Members
      BY <2>1, <3>1, <3>2, Fields
    <3>4. ASSUME Apart({m})' PROVE feedback'[m] = feedback[m]
      <4>1. Apart({m})
        BY <1>0, <3>4, StillApart
      <4>2. m # m0
        BY <1>0, <2>1, <3>1, <3>2, <4>1, OneHandler
      <4> QED
        BY <1>0, <1>6, <2>1, <3>2, <3>3, <4>2, CommitWrites
    <3>5. ASSUME Apart(Own(Author[m]))' PROVE stats'[Author[m]] = stats[Author[m]]
      <4>1. Apart(Own(Author[m]))
        BY <2>1, <3>5 DEF Apart, Own
      <4>2. Author[m] # Author[m0]
        <5>1. SUFFICES ASSUME Author[m] = Author[m0] PROVE FALSE
          OBVIOUS
        <5>2. m \in Own(Author[m]) /\ m0 \in Own(Author[m])
          BY <3>3, <5>1 DEF Own
        <5> QED
          BY <1>0, <2>1, <3>1, <3>2, <4>1, <5>2, OneHandler
      <4> QED
        BY <1>0, <1>6, <2>1, <3>2, <3>3, <4>2, CommitWrites
    <3> QED
      BY <1>0, <3>1, <3>2, <3>4, <3>5, StillLoaded
  <2> QED
    BY <1>0, <2>3, <2>4 DEF SumInv
<1>7. UNCHANGED <<stats, feedback, open>>
         \/ (\E m \in Messages : Track(m))
         \/ (\E t \in Tasks, v \in Members : Begin(t, v))
         \/ (\E t \in Tasks : \E h : Proceeds(t, h))
         \/ (\E t \in Tasks : InsertFails(t) \/ RollBack(t))
         \/ (\E t \in Tasks : Commit(t))
  BY StepCases DEF React, ChangeVerified, Drop, Ignore, vars
<1> QED
  BY <1>1, <1>2, <1>3, <1>4, <1>5, <1>6, <1>7

\* A member's karma is the sum over the member's messages as long as no two
\* handlers for those messages overlap, whatever handlers for other members'
\* messages do and whatever is dropped, ignored or rolled back
\* (KarmaStatisticsRepository, MessageFeedbackRepository).
THEOREM KarmaIsSumHolds == Spec => []KarmaIsSum
<1>1. Init => TypeInv /\ SumInv
  BY TypeInvInit, SumInit
<1>2. TypeInv /\ SumInv /\ [Next]_vars => (TypeInv /\ SumInv)'
  BY TypeInvStep, SumStepKept
<1>3. SumInv => KarmaIsSum
  BY DEF SumInv
<1> QED
  BY <1>1, <1>2, <1>3, PTL DEF Spec

-----------------------------------------------------------------------------
(***************************************************************************)
(* A member's updates about a message are links from the vote to the       *)
(* reaction, unless one of them was lost or two were handled at once.      *)
(***************************************************************************)

\* Places in a chain: an update about m, its beginning and its end.
Place(q, m, i) == i = 0 \/ i = Len(q) + 1 \/ q[i].message = m

\* The updates in q about m lead from vote r to reaction s, each from where the one
\* before it led, and each to something else.
Chain(q, m, r, s) ==
    /\ \A i \in 1..Len(q) : q[i].message = m => q[i].old # q[i].new
    /\ \A i, j \in 0..Len(q) + 1 :
          /\ i < j /\ Place(q, m, i) /\ Place(q, m, j)
          /\ \A k \in (i + 1)..(j - 1) : ~ Place(q, m, k)
          => (IF j = Len(q) + 1 THEN s ELSE q[j].old) = (IF i = 0 THEN r ELSE q[i].new)

\* With no updates, the vote is the reaction.
LEMMA ChainEmpty == ASSUME NEW m, NEW r PROVE Chain(<<>>, m, r, r)
<1>1. Len(<<>>) = 0
  OBVIOUS
<1> QED
  BY <1>1 DEF Chain

\* One more update.
LEMMA ChainAppend ==
    ASSUME NEW q \in Seq(Update), NEW u \in Update, NEW m, NEW r, NEW s, Chain(q, m, r, s),
           u.message = m => u.old = s /\ u.old # u.new
    PROVE  Chain(Append(q, u), m, r, IF u.message = m THEN u.new ELSE s)
<1> DEFINE N == Len(q)
           Q == Append(q, u)
           e == IF u.message = m THEN u.new ELSE s
<1>1. /\ N \in Nat /\ Len(Q) = N + 1 /\ Q[N + 1] = u
      /\ \A i \in 1..N : Q[i] = q[i]
  OBVIOUS
<1> HIDE DEF N, Q
<1>2. ASSUME NEW i \in 1..Len(Q), Q[i].message = m PROVE Q[i].old # Q[i].new
  <2>1. i \in 1..N \/ i = N + 1
    BY <1>1
  <2> QED
    BY <1>1, <1>2, <2>1 DEF Chain, N
<1>3. \A i \in 0..N : Place(Q, m, i) <=> Place(q, m, i)
  BY <1>1 DEF Place, N
<1>4. Place(Q, m, N + 1) <=> u.message = m
  BY <1>1 DEF Place
<1>5. ASSUME NEW i \in 0..Len(Q) + 1, NEW j \in 0..Len(Q) + 1, i < j,
             Place(Q, m, i), Place(Q, m, j),
             \A k \in (i + 1)..(j - 1) : ~ Place(Q, m, k)
      PROVE  (IF j = Len(Q) + 1 THEN e ELSE Q[j].old) = (IF i = 0 THEN r ELSE Q[i].new)
  <2>0. /\ i \in 0..(N + 2) /\ j \in 0..(N + 2) /\ Len(Q) + 1 = N + 2 /\ Len(q) = N
    BY <1>1 DEF N
  <2>1. CASE j \in 1..N
    <3>1. Place(q, m, i) /\ Place(q, m, j) /\ \A k \in (i + 1)..(j - 1) : ~ Place(q, m, k)
      BY <1>1, <1>3, <1>5, <2>0, <2>1
    <3>2. i \in 0..Len(q) + 1 /\ j \in 0..Len(q) + 1 /\ i < j /\ j # Len(q) + 1
      BY <1>1, <1>5, <2>0, <2>1
    <3>3. q[j].old = IF i = 0 THEN r ELSE q[i].new
      BY ONLY <3>1, <3>2, Chain(q, m, r, s) DEF Chain
    <3> QED
      BY <1>1, <1>5, <2>0, <2>1, <3>3
  <2>2. ASSUME i \in 0..N, \A k \in (i + 1)..N : ~ Place(q, m, k)
        PROVE  s = IF i = 0 THEN r ELSE Q[i].new
    <3>1. Place(q, m, i) /\ Place(q, m, N + 1)
      BY <1>3, <1>5, <2>0, <2>2 DEF Place
    <3>2. s = IF i = 0 THEN r ELSE q[i].new
      BY <1>1, <2>0, <2>2, <3>1 DEF Chain
    <3> QED
      BY <1>1, <2>0, <2>2, <3>2
  <2>3. CASE j = N + 1
    <3>1. u.message = m /\ i \in 0..N /\ \A k \in (i + 1)..N : ~ Place(q, m, k)
      BY <1>1, <1>3, <1>4, <1>5, <2>0, <2>3
    <3> QED
      BY <1>1, <2>0, <2>2, <2>3, <3>1
  <2>4. CASE j = N + 2 /\ u.message = m
    <3>1. i = N + 1
      BY <1>1, <1>4, <1>5, <2>0, <2>4
    <3> QED
      BY <1>1, <2>0, <2>4, <3>1
  <2>5. CASE j = N + 2 /\ u.message # m
    <3>1. i # N + 1
      BY <1>4, <1>5, <2>5
    <3>2. i \in 0..N /\ \A k \in (i + 1)..N : ~ Place(q, m, k)
      BY <1>1, <1>3, <1>5, <2>0, <2>5, <3>1
    <3> QED
      BY <2>0, <2>2, <2>5, <3>2
  <2> QED
    BY <1>1, <1>5, <2>0, <2>1, <2>3, <2>4, <2>5
<1> QED
  BY <1>2, <1>5 DEF Chain, Q

\* One update less.
LEMMA ChainTail ==
    ASSUME NEW q \in Seq(Update), q # <<>>, NEW m, NEW r, NEW s, Chain(q, m, r, s)
    PROVE  /\ Head(q).message = m => Head(q).old = r /\ Head(q).old # Head(q).new
           /\ Chain(Tail(q), m, IF Head(q).message = m THEN Head(q).new ELSE r, s)
<1> DEFINE N == Len(q)
           T == Tail(q)
           b == IF Head(q).message = m THEN Head(q).new ELSE r
<1>1. /\ N \in Nat /\ N >= 1 /\ Len(T) = N - 1 /\ Head(q) = q[1]
      /\ \A i \in 1..(N - 1) : T[i] = q[i + 1]
  OBVIOUS
<1> HIDE DEF N, T
<1>2. ASSUME NEW i \in 1..Len(T), T[i].message = m PROVE T[i].old # T[i].new
  <2>1. i + 1 \in 1..N /\ T[i] = q[i + 1]
    BY <1>1
  <2> QED
    BY <1>2, <2>1 DEF Chain, N
<1>3. \A i \in 1..N : Place(T, m, i) <=> Place(q, m, i + 1)
  BY <1>1 DEF Place, N
<1>4. Place(q, m, 1) <=> Head(q).message = m
  BY <1>1 DEF Place, N
<1>5. ASSUME Head(q).message = m PROVE Head(q).old = r /\ Head(q).old # Head(q).new
  <2>1. Place(q, m, 0) /\ Place(q, m, 1) /\ 0 \in 0..Len(q) + 1 /\ 1 \in 0..Len(q) + 1
        /\ 1 \in 1..Len(q) /\ 1 # Len(q) + 1
    BY <1>1, <1>4, <1>5 DEF Place, N
  <2>2. q[1].old = r
    BY <2>1 DEF Chain
  <2> QED
    BY <1>1, <1>5, <2>1, <2>2 DEF Chain
<1>6. ASSUME NEW i \in 0..Len(T) + 1, NEW j \in 0..Len(T) + 1, i < j,
             Place(T, m, i), Place(T, m, j),
             \A k \in (i + 1)..(j - 1) : ~ Place(T, m, k)
      PROVE  (IF j = Len(T) + 1 THEN s ELSE T[j].old) = (IF i = 0 THEN b ELSE T[i].new)
  <2>0. /\ i \in 0..N /\ j \in 1..N /\ Len(T) + 1 = N /\ Len(q) = N
        /\ j + 1 \in 0..Len(q) + 1
    BY <1>1, <1>6 DEF N
  <2>1. Place(q, m, j + 1)
    BY <1>3, <1>6, <2>0
  <2>2. \A k \in (i + 2)..j : ~ Place(q, m, k)
    <3> SUFFICES ASSUME NEW k \in (i + 2)..j PROVE ~ Place(q, m, k)
      OBVIOUS
    <3>1. k - 1 \in (i + 1)..(j - 1) /\ k - 1 \in 1..N /\ (k - 1) + 1 = k
      BY <2>0
    <3> QED
      BY <1>3, <1>6, <3>1
  <2>3. (IF j + 1 = Len(q) + 1 THEN s ELSE q[j + 1].old) = (IF j = Len(T) + 1 THEN s ELSE T[j].old)
    BY <1>1, <2>0
  <2>4. ASSUME i # 0 \/ Head(q).message = m
        PROVE  (IF j + 1 = Len(q) + 1 THEN s ELSE q[j + 1].old) = q[i + 1].new
    <3>1. Place(q, m, i + 1) /\ i + 1 \in 0..Len(q) + 1 /\ i + 1 < j + 1 /\ i + 1 # 0
      BY <1>3, <1>4, <1>6, <2>0, <2>4
    <3>2. \A k \in ((i + 1) + 1)..((j + 1) - 1) : ~ Place(q, m, k)
      BY <2>0, <2>2
    <3> QED
      BY <2>0, <2>1, <3>1, <3>2 DEF Chain
  <2>5. CASE i # 0
    <3>1. q[i + 1] = T[i]
      BY <1>1, <1>6, <2>0, <2>5
    <3> QED
      BY <2>3, <2>4, <2>5, <3>1
  <2>6. CASE i = 0 /\ Head(q).message = m
    BY <1>1, <2>3, <2>4, <2>6
  <2>7. CASE i = 0 /\ Head(q).message # m
    <3>1. \A k \in (0 + 1)..((j + 1) - 1) : ~ Place(q, m, k)
      BY <1>4, <2>0, <2>2, <2>7
    <3>2. Place(q, m, 0) /\ 0 \in 0..Len(q) + 1 /\ 0 < j + 1
      BY <2>0 DEF Place
    <3>3. (IF j + 1 = Len(q) + 1 THEN s ELSE q[j + 1].old) = r
      BY <2>0, <2>1, <3>1, <3>2 DEF Chain
    <3> QED
      BY <2>3, <2>7, <3>3
  <2> QED
    BY <2>5, <2>6, <2>7
<1> QED
  BY <1>2, <1>5, <1>6 DEF Chain, T

\* With no update about m, the vote is the reaction.
LEMMA ChainSettled ==
    ASSUME NEW q \in Seq(Update), NEW m, NEW r, NEW s, Chain(q, m, r, s),
           \A i \in 1..Len(q) : q[i].message # m
    PROVE  r = s
<1> DEFINE N == Len(q)
<1>1. N \in Nat
  OBVIOUS
<1>2. Place(q, m, 0) /\ Place(q, m, N + 1)
  BY DEF Place
<1>3. \A k \in (0 + 1)..((N + 1) - 1) : ~ Place(q, m, k)
  BY <1>1 DEF Place
<1> QED
  BY <1>1, <1>2, <1>3 DEF Chain

-----------------------------------------------------------------------------
(***************************************************************************)
(* Votes mirror reactions, and totals count votes.                         *)
(***************************************************************************)

\* No update of the vote has been lost, and no two were handled at once.
Clean(m, v) == <<m, v>> \notin lost /\ <<<<m, v>>, <<m, v>>>> \notin together

\* What a handler changes: the vote it found into another one of the same member.
Sound(t) ==
    LET u == open[t].update
    IN /\ u.old # u.new /\ votes[u.message][u.voter] = u.old
       /\ Head(open[t].todo) # "vote" => open[t].touches = TRUE

\* What waits begins where the vote is, or will be.
Linked(m, v) ==
    /\ (\A t \in Tasks : ~ Handles(t, m, v))
          => Chain(updates[v], m, votes[m][v], reaction[m][v])
    /\ \A t \in Tasks :
          Handles(t, m, v) => Chain(updates[v], m, open[t].update.new, reaction[m][v])

\* The totals count the votes, and the admins know of too many negative ones.
Counted(m) ==
    /\ feedback[m].positive = Cardinality(Voters(m, "HELPED"))
    /\ feedback[m].negative = Cardinality(Voters(m, "NOT_HELPED"))
    /\ feedback[m].negative > Threshold => m \in alerted

\* Handlers change what they should, votes lead to reactions, and totals count them.
ChainInv ==
    /\ \A t \in Tasks : \A m \in Messages, v \in Members :
          Handles(t, m, v) => v # Author[m] /\ (Clean(m, v) => Sound(t))
    /\ \A m \in Messages, v \in Members : v # Author[m] /\ Clean(m, v) => Linked(m, v)
    /\ \A m \in Messages : Intact(m) => Counted(m)

\* The members whose vote in f it is.
Holders(f, vote) == {w \in Members : f[w] = vote}

\* How many members have cast a vote, when one changes from it or to it.
LEMMA CountChanges ==
    ASSUME NEW f \in [Members -> Reaction], NEW v \in Members, NEW r, NEW g,
           g[v] = r, \A w \in Members \ {v} : g[w] = f[w], NEW vote
    PROVE  /\ Cardinality(Holders(f, vote)) \in Nat
           /\ Cardinality(Holders(g, vote))
                 = Cardinality(Holders(f, vote))
                      + ((IF r = vote THEN 1 ELSE 0) - (IF f[v] = vote THEN 1 ELSE 0))
<1> DEFINE F == Holders(f, vote)
           G == Holders(g, vote)
<1>1. IsFiniteSet(F)
  BY KarmaAssumption, FS_Subset DEF Holders
<1>2. Cardinality(F) \in Nat
  BY <1>1, FS_CardinalityType
<1>3. CASE (r = vote) <=> (f[v] = vote)
  <2>1. G = F
    BY <1>3 DEF Holders
  <2> QED
    BY <1>2, <1>3, <2>1
<1>4. CASE r = vote /\ f[v] # vote
  <2>1. G = F \cup {v} /\ v \notin F
    BY <1>4 DEF Holders
  <2> HIDE DEF F, G
  <2>2. Cardinality(G) = Cardinality(F) + 1
    BY <1>1, <2>1, FS_AddElement
  <2> QED
    BY <1>2, <1>4, <2>2 DEF F, G
<1>5. CASE r # vote /\ f[v] = vote
  <2>1. G = F \ {v} /\ v \in F
    BY <1>5 DEF Holders
  <2> HIDE DEF F, G
  <2>2. Cardinality(G) = Cardinality(F) - 1
    BY <1>1, <2>1, FS_RemoveElement
  <2> QED
    BY <1>2, <1>5, <2>2 DEF F, G
<1> QED
  BY <1>3, <1>4, <1>5
\* Nobody has voted, and nothing waits.
LEMMA ChainInit == Init => ChainInv
<1> SUFFICES ASSUME Init PROVE ChainInv
  OBVIOUS
<1>1. \A t \in Tasks : ~ Busy(t)
  BY DEF Init, Busy
<1>2. ASSUME NEW m \in Messages, NEW v \in Members PROVE Linked(m, v)
  <2>1. updates[v] = <<>> /\ votes[m][v] = reaction[m][v]
    BY DEF Init
  <2> QED
    BY <1>1, <2>1, ChainEmpty DEF Linked, Handles
<1>3. ASSUME NEW m \in Messages PROVE Counted(m)
  <2>1. (m \in tracked) \in BOOLEAN
    OBVIOUS
  <2>2. feedback[m] = [Zero EXCEPT !.row = m \in tracked]
    BY DEF Init
  <2>3. feedback[m].positive = 0 /\ feedback[m].negative = 0
    BY <2>1, <2>2, ZeroIs, Zenon
  <2>4. \A v \in Members : votes[m][v] = "none"
    BY DEF Init
  <2>5. Voters(m, "HELPED") = {} /\ Voters(m, "NOT_HELPED") = {}
    BY <2>4 DEF Voters
  <2>6. Cardinality({}) = 0
    BY FS_EmptySet
  <2> QED
    BY <2>3, <2>5, <2>6, KarmaAssumption DEF Counted
<1> QED
  BY <1>1, <1>2, <1>3 DEF ChainInv, Handles

\* A handler commits: the vote becomes what the update says, and the totals of the
\* message change as the count of its votes does.
LEMMA CountedCommit ==
    ASSUME TypeInv, NEW t \in Tasks, Commit(t), Loaded(t), Sound(t),
           NEW u, u = open[t].update, Apart({u.message}), Counted(u.message)
    PROVE  Counted(u.message)'
<1>1. PICK m0, v0, r : m0 = u.message /\ v0 = u.voter /\ r = u.new
  OBVIOUS
<1>2. /\ Busy(t) /\ Head(open[t].todo) = "commit" /\ Alert(t)
      /\ votes' = [votes EXCEPT ![m0][v0] = IF open[t].touches THEN r ELSE @]
  BY <1>1 DEF Commit, Doing
<1>3. m0 \in Messages /\ v0 \in Members /\ r \in Reaction
  BY <1>1, <1>2, Fields
<1>4. open[t].touches = TRUE /\ votes[m0][v0] = u.old
  BY <1>1, <1>2 DEF Sound
<1>5. votes' = [votes EXCEPT ![m0][v0] = r]
  BY <1>2, <1>4
<1>6. /\ feedback'[m0].positive = feedback[m0].positive + Change(u, "HELPED")
      /\ feedback'[m0].negative = feedback[m0].negative + Change(u, "NOT_HELPED")
  BY <1>1, CommitWrites
<1>7. alerted' = IF Change(u, "NOT_HELPED") = 1 /\ feedback[m0].negative + 1 = Threshold + 1
                 THEN alerted \cup {m0} ELSE alerted
  BY <1>1, <1>2 DEF Alert, CrossesThreshold, Loaded, LoadedFeedback
<1>8. PICK f \in [Members -> Reaction] : f = votes[m0]
  BY <1>3 DEF TypeInv
<1>9. PICK g : g = votes'[m0]
  OBVIOUS
<1>10. g[v0] = r /\ \A w \in Members \ {v0} : g[w] = f[w]
  BY <1>3, <1>5, <1>8, <1>9 DEF TypeInv
<1>11. ASSUME NEW vote
       PROVE  /\ Cardinality(Voters(m0, vote)) \in Nat
              /\ Cardinality(Voters(m0, vote)') = Cardinality(Voters(m0, vote)) + Change(u, vote)
  <2>1. /\ Cardinality(Holders(f, vote)) \in Nat
        /\ Cardinality(Holders(g, vote))
              = Cardinality(Holders(f, vote))
                   + ((IF r = vote THEN 1 ELSE 0) - (IF f[v0] = vote THEN 1 ELSE 0))
    BY <1>3, <1>10, CountChanges
  <2>2. Voters(m0, vote) = Holders(f, vote) /\ Voters(m0, vote)' = Holders(g, vote)
    BY <1>8, <1>9 DEF Voters, Holders
  <2>3. Change(u, vote) = (IF r = vote THEN 1 ELSE 0) - (IF f[v0] = vote THEN 1 ELSE 0)
    BY <1>1, <1>4, <1>8 DEF Change
  <2> QED
    BY <2>1, <2>2, <2>3
<1>12. Counted(m0)
  BY <1>1
<1>13. /\ feedback'[m0].positive = Cardinality(Voters(m0, "HELPED")')
       /\ feedback'[m0].negative = Cardinality(Voters(m0, "NOT_HELPED")')
  BY <1>6, <1>11, <1>12 DEF Counted
<1>14. ASSUME feedback'[m0].negative > Threshold PROVE m0 \in alerted'
  <2>1. /\ feedback[m0].negative \in Int /\ Change(u, "NOT_HELPED") \in {-1, 0, 1}
        /\ Threshold \in Int
    BY <1>11, <1>12, ChangeIs, KarmaAssumption DEF Counted
  <2>2. CASE feedback[m0].negative > Threshold
    BY <1>7, <1>12, <2>2 DEF Counted
  <2>3. CASE ~ (feedback[m0].negative > Threshold)
    BY <1>6, <1>7, <1>14, <2>1, <2>3
  <2> QED
    BY <2>2, <2>3
<1>15. Counted(m0)'
  BY <1>13, <1>14 DEF Counted
<1> QED
  BY <1>1, <1>15

\* What was lost, or met, stays so.
LEMMA StillClean ==
    ASSUME lost \subseteq lost', together \subseteq together'
    PROVE  /\ \A m, v : Clean(m, v)' => Clean(m, v)
           /\ \A m : Intact(m)' => Intact(m) /\ Apart({m})
BY DEF Clean, Intact, Apart

\* The votes of an intact message are clean.
LEMMA IntactClean ==
    ASSUME NEW m \in Messages, NEW v \in Members, v # Author[m], Intact(m)
    PROVE  Clean(m, v)
BY DEF Intact, Apart, Clean

\* Links that are not touched.
LEMMA StillLinked ==
    ASSUME NEW m, NEW v, Linked(m, v), updates'[v] = updates[v],
           votes'[m][v] = votes[m][v], reaction'[m][v] = reaction[m][v],
           \A s \in Tasks : /\ Handles(s, m, v)' <=> Handles(s, m, v)
                            /\ Handles(s, m, v) => open'[s].update.new = open[s].update.new
    PROVE  Linked(m, v)'
BY DEF Linked

\* A handler that is not touched.
LEMMA StillSound ==
    ASSUME NEW s, Sound(s), open'[s] = open[s],
           LET u == open[s].update IN votes'[u.message][u.voter] = votes[u.message][u.voter]
    PROVE  Sound(s)'
BY DEF Sound

\* Totals that are not touched.
LEMMA StillCounted ==
    ASSUME NEW m, Counted(m), votes'[m] = votes[m], alerted \subseteq alerted',
           feedback'[m].positive = feedback[m].positive,
           feedback'[m].negative = feedback[m].negative
    PROVE  Counted(m)'
<1>1. Voters(m, "HELPED")' = Voters(m, "HELPED")
      /\ Voters(m, "NOT_HELPED")' = Voters(m, "NOT_HELPED")
  BY DEF Voters
<1> QED
  BY <1>1 DEF Counted

\* Handlers and votes that no step touches, and what waits.
LEMMA ChainKept ==
    ASSUME TypeInv, ChainInv, lost \subseteq lost', together \subseteq together',
           UNCHANGED <<votes, open>>
    PROVE  \A t \in Tasks : \A m \in Messages, v \in Members :
              Handles(t, m, v)' => v # Author[m] /\ (Clean(m, v)' => Sound(t)')
<1> SUFFICES ASSUME NEW t \in Tasks, NEW m \in Messages, NEW v \in Members, Handles(t, m, v)'
             PROVE  v # Author[m] /\ (Clean(m, v)' => Sound(t)')
  OBVIOUS
<1>1. Handles(t, m, v)
  BY DEF Handles, Busy
<1>2. v # Author[m] /\ (Clean(m, v) => Sound(t))
  BY <1>1 DEF ChainInv
<1>3. ASSUME Clean(m, v)' PROVE Sound(t)'
  <2>1. Sound(t)
    BY <1>2, <1>3, StillClean
  <2> QED
    BY <2>1, StillSound
<1> QED
  BY <1>2, <1>3

\* Every step keeps the links and the counts.
LEMMA ChainStep == TypeInv /\ SumInv /\ ChainInv /\ [Next]_vars => ChainInv'
<1> SUFFICES ASSUME TypeInv, SumInv, ChainInv, [Next]_vars PROVE ChainInv'
  OBVIOUS
<1> USE DEF tables
<1>0. /\ QueuesOK /\ Seen /\ lost \subseteq lost' /\ together \subseteq together'
      /\ \A m \in Messages, v \in Members : Clean(m, v)' => Clean(m, v)
      /\ \A m \in Messages : Intact(m)' => Intact(m) /\ Apart({m})
      /\ \A m \in Messages, v \in Members : v # Author[m] /\ Clean(m, v) => Linked(m, v)
      /\ \A m \in Messages : Intact(m) => Counted(m)
  BY History, StillClean DEF ChainInv, TypeInv, SumInv
<1>a. ASSUME UNCHANGED <<votes, feedback, open>>, alerted \subseteq alerted'
      PROVE  /\ \A t \in Tasks : \A m \in Messages, v \in Members :
                    Handles(t, m, v)' => v # Author[m] /\ (Clean(m, v)' => Sound(t)')
             /\ \A m \in Messages : Intact(m)' => Counted(m)'
  <2>1. ASSUME NEW m \in Messages, Intact(m)' PROVE Counted(m)'
    BY <1>0, <1>a, <2>1, StillCounted
  <2>2. UNCHANGED <<votes, open>>
    BY <1>a
  <2> QED
    BY <1>0, <2>1, <2>2, ChainKept
<1>1. ASSUME NEW m0 \in Messages, NEW v0 \in Members, NEW new \in Reaction, React(m0, v0, new)
      PROVE  ChainInv'
  <2>1. PICK u \in Update :
           /\ u.message = m0 /\ u.voter = v0 /\ u.old = reaction[m0][v0] /\ u.new = new
           /\ updates' = [updates EXCEPT ![v0] = Append(@, u)]
    BY <1>1, Reacting
  <2>2. /\ reaction[m0][v0] # new
        /\ \A m \in Messages, v \in Members :
             reaction'[m][v] = IF m = m0 /\ v = v0 THEN new ELSE reaction[m][v]
        /\ UNCHANGED <<verified, tracked, tables, open, lost, together>>
    BY <1>1 DEF React, TypeInv
  <2>3. /\ updates[v0] \in Seq(Update) /\ updates'[v0] = Append(updates[v0], u)
        /\ \A v \in Members \ {v0} : updates'[v] = updates[v]
    BY <1>0, <2>1 DEF QueuesOK
  <2>4. ASSUME NEW m \in Messages, NEW v \in Members, NEW r, Chain(updates[v], m, r, reaction[m][v])
        PROVE  Chain(updates'[v], m, r, reaction'[m][v])
    <3>1. CASE v = v0
      <4>1. u.message = m => u.old = reaction[m][v] /\ u.old # u.new
        BY <2>1, <2>2, <3>1
      <4>2. Chain(Append(updates[v], u), m, r, IF u.message = m THEN u.new ELSE reaction[m][v])
        BY <2>3, <2>4, <3>1, <4>1, ChainAppend
      <4>3. (IF u.message = m THEN u.new ELSE reaction[m][v]) = reaction'[m][v]
        BY <2>1, <2>2, <3>1
      <4>4. updates'[v] = Append(updates[v], u)
        BY <2>3, <3>1
      <4> QED
        BY <4>2, <4>3, <4>4
    <3>2. CASE v # v0
      <4>1. updates'[v] = updates[v] /\ reaction'[m][v] = reaction[m][v]
        BY <2>2, <2>3, <3>2
      <4> QED
        BY <2>4, <4>1
    <3> QED
      BY <3>1, <3>2
  <2>5. ASSUME NEW m \in Messages, NEW v \in Members, Linked(m, v) PROVE Linked(m, v)'
    BY <2>2, <2>4, <2>5 DEF Linked, Handles, Busy
  <2>6. UNCHANGED <<votes, feedback, open>> /\ alerted \subseteq alerted'
    BY <2>2
  <2> QED
    BY <1>0, <1>a, <2>5, <2>6 DEF ChainInv
<1>2. ASSUME NEW m0 \in Messages, Track(m0) PROVE ChainInv'
  <2>1. /\ UNCHANGED <<reaction, updates, votes, alerted, open>>
        /\ feedback' = [feedback EXCEPT ![m0].row = TRUE]
    BY <1>2 DEF Track
  <2>2. ASSUME NEW m \in Messages
        PROVE  /\ feedback'[m].positive = feedback[m].positive
               /\ feedback'[m].negative = feedback[m].negative
    <3>1. feedback'[m] = feedback[m] \/ feedback'[m] = [feedback[m] EXCEPT !.row = TRUE]
      BY <2>1 DEF TypeInv
    <3> QED
      BY <3>1, TotalsAre DEF Totals
  <2>3. ASSUME NEW m \in Messages, Intact(m)' PROVE Counted(m)'
    BY <1>0, <2>1, <2>2, <2>3, StillCounted
  <2>4. ASSUME NEW m \in Messages, NEW v \in Members, Linked(m, v) PROVE Linked(m, v)'
    BY <2>1, <2>4 DEF Linked, Handles, Busy
  <2>5. \A t \in Tasks : \A m \in Messages, v \in Members :
            Handles(t, m, v)' => v # Author[m] /\ (Clean(m, v)' => Sound(t)')
    BY <1>0, <2>1, ChainKept
  <2> QED
    BY <1>0, <2>3, <2>4, <2>5 DEF ChainInv
<1>3. ASSUME NEW v0 \in Members, Drop(v0) \/ Ignore(v0) PROVE ChainInv'
  <2>1. /\ updates[v0] # <<>> /\ lost' = lost \cup {VoteOf(Head(updates[v0]))}
        /\ updates' = [updates EXCEPT ![v0] = Tail(@)]
        /\ UNCHANGED <<reaction, votes, feedback, alerted, open>>
    BY <1>3 DEF Drop, Ignore
  <2>2. /\ updates[v0] \in Seq(Update) /\ updates'[v0] = Tail(updates[v0])
        /\ \A v \in Members \ {v0} : updates'[v] = updates[v]
        /\ Head(updates[v0]).voter = v0
    BY <1>0, <2>1, QueueTail DEF QueuesOK
  <2>3. ASSUME NEW m \in Messages, NEW v \in Members, Clean(m, v)', NEW r,
               Chain(updates[v], m, r, reaction[m][v])
        PROVE  Chain(updates'[v], m, r, reaction'[m][v])
    <3>1. CASE v = v0
      <4>1. Head(updates[v]).message # m /\ updates'[v] = Tail(updates[v])
        BY <2>1, <2>2, <2>3, <3>1 DEF Clean, VoteOf
      <4>2. Chain(Tail(updates[v]), m, IF Head(updates[v]).message = m
                                       THEN Head(updates[v]).new ELSE r, reaction[m][v])
        BY <2>1, <2>2, <2>3, <3>1, ChainTail
      <4> QED
        BY <2>1, <4>1, <4>2
    <3>2. CASE v # v0
      BY <2>1, <2>2, <2>3, <3>2
    <3> QED
      BY <3>1, <3>2
  <2>4. ASSUME NEW m \in Messages, NEW v \in Members, Clean(m, v)', Linked(m, v)
        PROVE  Linked(m, v)'
    BY <2>1, <2>3, <2>4 DEF Linked, Handles, Busy
  <2>5. UNCHANGED <<votes, feedback, open>> /\ alerted \subseteq alerted'
    BY <2>1
  <2> QED
    BY <1>0, <1>a, <2>4, <2>5 DEF ChainInv
<1>4. ASSUME NEW t \in Tasks, NEW v0 \in Members, Begin(t, v0) PROVE ChainInv'
  <2>1. PICK h \in Handler :
              /\ ~ Busy(t) /\ open' = [open EXCEPT ![t] = h]
              /\ h.todo \in Stages /\ Head(h.todo) = "vote"
              /\ h.update = Head(updates[v0]) /\ updates[v0] # <<>> /\ Counts(Head(updates[v0]))
              /\ updates' = [updates EXCEPT ![v0] = Tail(@)]
              /\ UNCHANGED <<reaction, verified, tracked, tables, lost, reacts>>
    BY <1>4, Beginning
  <2>2. PICK u : u = Head(updates[v0])
    OBVIOUS
  <2>3. /\ updates[v0] \in Seq(Update) /\ updates'[v0] = Tail(updates[v0])
        /\ \A v \in Members \ {v0} : updates'[v] = updates[v]
    BY <1>0, <2>1 DEF QueuesOK
  <2>4. u \in Update /\ u.voter = v0 /\ u.message \in Messages /\ v0 # Author[u.message]
    <3>1. u \in Update /\ u.voter = v0
      BY <1>0, <2>1, <2>2, QueueTail
    <3> QED
      BY <2>1, <2>2, <3>1 DEF Counts, Update
  <2>5. /\ open'[t] = h /\ Busy(t)' /\ h.update = u
        /\ \A s \in Tasks \ {t} : open'[s] = open[s] /\ (Busy(s)' <=> Busy(s))
    BY <2>1, <2>2, Becoming
  <2>6. /\ \A m \in Messages, v \in Members :
              Handles(t, m, v)' <=> (m = u.message /\ v = v0)
        /\ \A m \in Messages, v \in Members : ~ Handles(t, m, v)
        /\ \A s \in Tasks \ {t} : \A m \in Messages, v \in Members :
              Handles(s, m, v)' <=> Handles(s, m, v)
    BY <2>1, <2>4, <2>5 DEF Handles
  <2>7. ASSUME Clean(u.message, v0)'
        PROVE  /\ \A s \in Tasks : ~ Handles(s, u.message, v0)
               /\ u.old = votes[u.message][v0] /\ u.old # u.new
               /\ Chain(updates'[v0], u.message, u.new, reaction[u.message][v0])
    <3>1. ASSUME NEW s \in Tasks, Handles(s, u.message, v0) PROVE FALSE
      <4>1. s # t
        BY <2>4, <2>6, <3>1
      <4>2. Handles(s, u.message, v0)' /\ Handles(t, u.message, v0)'
        BY <2>4, <2>6, <3>1, <4>1
      <4>3. Seen'
        BY <1>0, SeenStep
      <4>4. <<VoteOf(open'[s].update), VoteOf(open'[t].update)>> \in together'
        BY <4>1, <4>2, <4>3 DEF Seen, Handles, VoteOf
      <4>5. VoteOf(open'[s].update) = <<u.message, v0>> /\ VoteOf(open'[t].update) = <<u.message, v0>>
        BY <4>2 DEF VoteOf, Handles
      <4> QED
        BY <2>7, <4>4, <4>5 DEF Clean
    <3>2. Linked(u.message, v0)
      BY <1>0, <2>4, <2>7
    <3>3. Chain(updates[v0], u.message, votes[u.message][v0], reaction[u.message][v0])
      BY <3>1, <3>2 DEF Linked
    <3>4. /\ u.old = votes[u.message][v0] /\ u.old # u.new
          /\ Chain(Tail(updates[v0]), u.message, u.new, reaction[u.message][v0])
      BY <2>1, <2>2, <2>3, <3>3, ChainTail
    <3> QED
      BY <2>3, <3>1, <3>4
  <2>8. ASSUME NEW s \in Tasks, NEW m \in Messages, NEW v \in Members, Handles(s, m, v)'
        PROVE  v # Author[m] /\ (Clean(m, v)' => Sound(s)')
    <3>1. CASE s = t
      <4>1. m = u.message /\ v = v0
        BY <2>6, <2>8, <3>1
      <4>2. ASSUME Clean(m, v)' PROVE Sound(t)'
        <5>1. u.old = votes'[m][v] /\ u.old # u.new
          BY <2>1, <2>7, <4>1, <4>2
        <5> QED
          BY <2>1, <2>4, <2>5, <4>1, <5>1 DEF Sound
      <4> QED
        BY <2>4, <3>1, <4>1, <4>2
    <3>2. CASE s # t
      <4>1. Handles(s, m, v) /\ open'[s] = open[s] /\ UNCHANGED votes
        BY <2>1, <2>5, <2>6, <2>8, <3>2
      <4>2. v # Author[m] /\ (Clean(m, v) => Sound(s))
        BY <4>1 DEF ChainInv
      <4> QED
        BY <1>0, <4>1, <4>2, StillSound
    <3> QED
      BY <3>1, <3>2
  <2>9. ASSUME NEW m \in Messages, NEW v \in Members, v # Author[m], Clean(m, v)'
        PROVE  Linked(m, v)'
    <3>0. Linked(m, v) /\ UNCHANGED <<reaction, votes>>
      BY <1>0, <2>1, <2>9
    <3>1. CASE m = u.message /\ v = v0
      <4>1. /\ Chain(updates'[v], m, u.new, reaction'[m][v])
            /\ \A s \in Tasks : ~ Handles(s, m, v)
        BY <2>7, <2>9, <3>0, <3>1
      <4>2. \A s \in Tasks \ {t} : ~ Handles(s, m, v)'
        BY <2>6, <4>1
      <4>3. Handles(t, m, v)' /\ open'[t].update.new = u.new
        BY <2>5, <2>6, <3>1
      <4> QED
        BY <4>1, <4>2, <4>3 DEF Linked
    <3>2. CASE m # u.message /\ v = v0
      <4>1. ASSUME NEW r, Chain(updates[v], m, r, reaction[m][v])
            PROVE  Chain(updates'[v], m, r, reaction'[m][v])
        <5>1. Chain(Tail(updates[v]), m, r, reaction[m][v])
          BY <2>1, <2>2, <2>3, <3>2, <4>1, ChainTail
        <5> QED
          BY <2>3, <3>0, <3>2, <5>1
      <4>2. \A s \in Tasks : /\ Handles(s, m, v)' <=> Handles(s, m, v)
                             /\ Handles(s, m, v) => open'[s] = open[s]
        BY <2>5, <2>6, <3>2
      <4> QED
        BY <3>0, <4>1, <4>2 DEF Linked
    <3>3. CASE v # v0
      <4>1. \A s \in Tasks : /\ Handles(s, m, v)' <=> Handles(s, m, v)
                             /\ Handles(s, m, v) => open'[s].update.new = open[s].update.new
        BY <2>5, <2>6, <3>3
      <4>2. updates'[v] = updates[v]
        BY <2>3, <3>3
      <4> QED
        BY <3>0, <4>1, <4>2, StillLinked
    <3> QED
      BY <3>1, <3>2, <3>3
  <2>10. ASSUME NEW m \in Messages, Intact(m)' PROVE Counted(m)'
    BY <1>0, <2>1, <2>10, StillCounted
  <2> QED
    BY <2>8, <2>9, <2>10 DEF ChainInv
<1>5. ASSUME NEW t \in Tasks, NEW h, Proceeds(t, h) PROVE ChainInv'
  <2>1. /\ Busy(t) /\ h \in Handler /\ open' = [open EXCEPT ![t] = h]
        /\ h.update = open[t].update
        /\ Head(open[t].todo) # "commit" /\ h.todo = Tail(open[t].todo)
        /\ UNCHANGED <<reaction, updates, votes, feedback, alerted, lost, together>>
    BY <1>5 DEF Proceeds
  <2>2. open[t].todo \in Stages /\ h.todo \in Stages
    BY <2>1, Fields, StageSteps
  <2>3. /\ open'[t] = h /\ Busy(t)'
        /\ \A s \in Tasks \ {t} : open'[s] = open[s] /\ (Busy(s)' <=> Busy(s))
    BY <2>1, <2>2, Becoming
  <2>4. \A s \in Tasks : \A m \in Messages, v \in Members :
            /\ Handles(s, m, v)' <=> Handles(s, m, v)
            /\ open'[s].update = open[s].update
    BY <2>1, <2>3 DEF Handles
  <2>5. ASSUME Sound(t) PROVE Sound(t)'
    <3>1. CASE Head(open[t].todo) = "vote"
      <4>1. h.touches = HitsRow(open[t].update)
        BY <1>5, <3>1 DEF Proceeds
      <4>2. HitsRow(open[t].update)
        BY <2>5 DEF Sound, HitsRow
      <4>3. HitsRow(open[t].update) \in BOOLEAN
        BY Zenon DEF HitsRow
      <4>4. h.touches = TRUE
        BY <4>1, <4>2, <4>3, Zenon
      <4> QED
        BY <2>1, <2>3, <2>5, <4>4 DEF Sound
    <3>2. CASE Head(open[t].todo) # "vote"
      <4>1. h.touches = open[t].touches
        BY <1>5, <3>2 DEF Proceeds
      <4> QED
        BY <2>1, <2>3, <2>5, <3>2, <4>1 DEF Sound
    <3> QED
      BY <3>1, <3>2
  <2>6. ASSUME NEW s \in Tasks, NEW m \in Messages, NEW v \in Members, Handles(s, m, v)'
        PROVE  v # Author[m] /\ (Clean(m, v)' => Sound(s)')
    <3>1. v # Author[m] /\ (Clean(m, v) => Sound(s))
      BY <2>4, <2>6 DEF ChainInv
    <3>2. ASSUME Sound(s) PROVE Sound(s)'
      <4>1. CASE s = t
        BY <2>5, <3>2, <4>1
      <4>2. CASE s # t
        BY <2>1, <2>3, <3>2, <4>2, StillSound
      <4> QED
        BY <4>1, <4>2
    <3> QED
      BY <1>0, <3>1, <3>2
  <2>7. ASSUME NEW m \in Messages, NEW v \in Members, Linked(m, v) PROVE Linked(m, v)'
    BY <2>1, <2>4, <2>7, StillLinked
  <2>8. ASSUME NEW m \in Messages, Intact(m)' PROVE Counted(m)'
    BY <1>0, <2>1, <2>8, StillCounted
  <2> QED
    BY <1>0, <2>6, <2>7, <2>8 DEF ChainInv
<1>6. ASSUME NEW t \in Tasks, InsertFails(t) \/ RollBack(t) PROVE ChainInv'
  <2>1. /\ Busy(t) /\ open' = [open EXCEPT ![t] = <<>>]
        /\ lost' = lost \cup {VoteOf(open[t].update)}
        /\ UNCHANGED <<reaction, updates, votes, feedback>> /\ alerted \subseteq alerted'
    BY <1>6 DEF InsertFails, RollBack, Doing, Alert
  <2>2. ~ Busy(t)' /\ \A s \in Tasks \ {t} : open'[s] = open[s] /\ (Busy(s)' <=> Busy(s))
    BY <2>1, Ending
  <2>3. \A s \in Tasks : \A m \in Messages, v \in Members :
            Handles(s, m, v)' => Handles(s, m, v) /\ open'[s] = open[s]
    BY <2>2 DEF Handles
  <2>4. ASSUME NEW s \in Tasks, NEW m \in Messages, NEW v \in Members, Handles(s, m, v)'
        PROVE  v # Author[m] /\ (Clean(m, v)' => Sound(s)')
    <3>1. v # Author[m] /\ (Clean(m, v) => Sound(s)) /\ open'[s] = open[s]
      BY <2>3, <2>4 DEF ChainInv
    <3> QED
      BY <1>0, <2>1, <3>1, StillSound
  <2>5. ASSUME NEW m \in Messages, NEW v \in Members, v # Author[m], Clean(m, v)'
        PROVE  Linked(m, v)'
    <3>1. ~ Handles(t, m, v)
      BY <2>1, <2>5 DEF Clean, Handles, VoteOf
    <3>2. \A s \in Tasks : /\ Handles(s, m, v)' <=> Handles(s, m, v)
                           /\ Handles(s, m, v) => open'[s].update.new = open[s].update.new
      BY <2>2, <2>3, <3>1 DEF Handles
    <3>3. Linked(m, v)
      BY <1>0, <2>5
    <3> QED
      BY <2>1, <3>2, <3>3, StillLinked
  <2>6. ASSUME NEW m \in Messages, Intact(m)' PROVE Counted(m)'
    BY <1>0, <2>1, <2>6, StillCounted
  <2> QED
    BY <2>4, <2>5, <2>6 DEF ChainInv
<1>7. ASSUME NEW t \in Tasks, Commit(t) PROVE ChainInv'
  <2>1. PICK u, m0, v0 : u = open[t].update /\ m0 = u.message /\ v0 = u.voter
    OBVIOUS
  <2>2. /\ Busy(t) /\ Head(open[t].todo) = "commit" /\ open' = [open EXCEPT ![t] = <<>>]
        /\ votes' = [votes EXCEPT ![m0][v0] = IF open[t].touches THEN u.new ELSE @]
        /\ UNCHANGED <<reaction, updates, lost, together>> /\ alerted \subseteq alerted'
    BY <1>7, <2>1 DEF Commit, Doing, Alert
  <2>3. ~ Busy(t)' /\ \A s \in Tasks \ {t} : open'[s] = open[s] /\ (Busy(s)' <=> Busy(s))
    BY <2>2, Ending
  <2>4. /\ m0 \in Messages /\ v0 \in Members /\ Handles(t, m0, v0) /\ Loaded(t)
        /\ v0 # Author[m0] /\ (Clean(m0, v0) => Sound(t))
    <3>1. m0 \in Messages /\ v0 \in Members /\ Handles(t, m0, v0) /\ Loaded(t)
      BY <2>1, <2>2, Fields DEF Handles, SumInv
    <3> QED
      BY <3>1 DEF ChainInv
  <2>5. \A m \in Messages, v \in Members : m # m0 \/ v # v0 => votes'[m][v] = votes[m][v]
    BY <2>2, <2>4 DEF TypeInv
  <2>6. ASSUME Clean(m0, v0)
        PROVE  votes'[m0][v0] = u.new /\ \A s \in Tasks \ {t} : ~ Handles(s, m0, v0)
    <3>1. open[t].touches = TRUE
      BY <2>2, <2>4, <2>6 DEF Sound
    <3>2. votes'[m0][v0] = u.new
      BY <2>2, <2>4, <3>1 DEF TypeInv
    <3>3. \A s \in Tasks \ {t} : ~ Handles(s, m0, v0)
      BY <1>0, <2>4, <2>6, OneOfVote DEF Clean
    <3> QED
      BY <3>2, <3>3
  <2>7. \A s \in Tasks : \A m \in Messages, v \in Members :
            Handles(s, m, v)' => s # t /\ Handles(s, m, v) /\ open'[s] = open[s]
    BY <2>3 DEF Handles
  <2>8. ASSUME NEW s \in Tasks, NEW m \in Messages, NEW v \in Members, Handles(s, m, v)'
        PROVE  v # Author[m] /\ (Clean(m, v)' => Sound(s)')
    <3>1. v # Author[m] /\ (Clean(m, v) => Sound(s)) /\ open'[s] = open[s] /\ s # t
          /\ Handles(s, m, v)
      BY <2>7, <2>8 DEF ChainInv
    <3>2. ASSUME Clean(m, v)' PROVE Sound(s)'
      <4>1. Clean(m, v) /\ Sound(s)
        BY <1>0, <3>1, <3>2
      <4>2. m # m0 \/ v # v0
        BY <2>6, <3>1, <4>1
      <4>3. votes'[m][v] = votes[m][v]
        BY <2>5, <4>2
      <4> QED
        BY <3>1, <4>1, <4>3, StillSound DEF Handles
    <3> QED
      BY <3>1, <3>2
  <2>9. ASSUME NEW m \in Messages, NEW v \in Members, v # Author[m], Clean(m, v)'
        PROVE  Linked(m, v)'
    <3>0. Linked(m, v) /\ Clean(m, v)
      BY <1>0, <2>9
    <3>1. CASE m = m0 /\ v = v0
      <4>1. Chain(updates[v], m, u.new, reaction[m][v])
        BY <2>1, <2>4, <3>0, <3>1 DEF Linked
      <4>2. \A s \in Tasks : ~ Handles(s, m, v)'
        BY <2>6, <2>7, <3>0, <3>1
      <4>3. votes'[m][v] = u.new
        BY <2>6, <3>0, <3>1
      <4> QED
        BY <2>2, <4>1, <4>2, <4>3 DEF Linked
    <3>2. CASE m # m0 \/ v # v0
      <4>1. ~ Handles(t, m, v)
        BY <2>1, <3>2 DEF Handles
      <4>2. \A s \in Tasks : /\ Handles(s, m, v)' <=> Handles(s, m, v)
                             /\ Handles(s, m, v) => open'[s].update.new = open[s].update.new
        BY <2>3, <2>7, <4>1 DEF Handles
      <4>3. votes'[m][v] = votes[m][v]
        BY <2>5, <3>2
      <4> QED
        BY <2>2, <3>0, <4>2, <4>3, StillLinked
    <3> QED
      BY <3>1, <3>2
  <2>10. ASSUME NEW m \in Messages, Intact(m)' PROVE Counted(m)'
    <3>0. Intact(m) /\ Apart({m}) /\ Counted(m)
      BY <1>0, <2>10
    <3>1. CASE m = m0
      <4>1. Sound(t)
        BY <2>4, <3>0, <3>1, IntactClean
      <4> QED
        BY <1>7, <2>1, <2>4, <3>0, <3>1, <4>1, CountedCommit
    <3>2. CASE m # m0
      <4>1. feedback'[m] = feedback[m]
        BY <1>7, <2>1, <2>4, <3>2, CommitWrites
      <4>2. votes'[m] = votes[m]
        BY <2>2, <2>4, <3>2 DEF TypeInv
      <4> QED
        BY <2>2, <3>0, <4>1, <4>2, StillCounted
    <3> QED
      BY <3>1, <3>2
  <2> QED
    BY <2>8, <2>9, <2>10 DEF ChainInv
<1>8. ASSUME UNCHANGED <<reaction, updates, votes, feedback, alerted, open>> PROVE ChainInv'
  <2>1. UNCHANGED <<votes, feedback, open>> /\ alerted \subseteq alerted'
    BY <1>8
  <2>2. ASSUME NEW m \in Messages, NEW v \in Members, Linked(m, v) PROVE Linked(m, v)'
    BY <1>8, <2>2 DEF Linked, Handles, Busy
  <2> QED
    BY <1>0, <1>a, <2>1, <2>2 DEF ChainInv
<1> QED
  BY <1>1, <1>2, <1>3, <1>4, <1>5, <1>6, <1>7, <1>8, StepCases DEF ChangeVerified, vars

\* The types, the sums and the links, in every state.
LEMMA ChainAlways == Spec => [](TypeInv /\ SumInv /\ ChainInv)
<1>1. Init => TypeInv /\ SumInv /\ ChainInv
  BY TypeInvInit, SumInit, ChainInit
<1>2. TypeInv /\ SumInv /\ ChainInv /\ [Next]_vars => (TypeInv /\ SumInv /\ ChainInv)'
  BY TypeInvStep, SumStepKept, ChainStep
<1> QED
  BY <1>1, <1>2, PTL DEF Spec

\* A vote of which no update was lost, and of which no two were handled at once, is
\* the reaction as soon as nothing about it waits, however the handlers of other
\* votes overlap and whatever is lost of those (karma_vote.py:11-12).
THEOREM VotesMirrorHolds == Spec => []VotesMirror
<1>1. TypeInv /\ ChainInv => VotesMirror
  <2> SUFFICES ASSUME TypeInv, ChainInv, NEW m \in Messages, NEW v \in Members \ {Author[m]},
                      <<m, v>> \notin lost, <<<<m, v>>, <<m, v>>>> \notin together,
                      ~ Unsettled(m, v)
               PROVE  votes[m][v] = reaction[m][v]
    BY DEF VotesMirror
  <2>1. Linked(m, v)
    BY DEF ChainInv, Clean
  <2>2. /\ \A i \in 1..Len(updates[v]) : updates[v][i].message # m
        /\ \A t \in Tasks : ~ Handles(t, m, v)
    BY DEF Unsettled, Handles, VoteOf
  <2>3. updates[v] \in Seq(Update)
    BY DEF TypeInv, QueuesOK
  <2>4. Chain(updates[v], m, votes[m][v], reaction[m][v])
    BY <2>1, <2>2 DEF Linked
  <2> QED
    BY <2>2, <2>3, <2>4, ChainSettled
<1> QED
  BY <1>1, ChainAlways, PTL

\* A message's totals count its votes at all times, unless an update of one of its
\* votes was lost or two were handled at once: through every change of mind, while
\* updates wait, and however handlers for other messages overlap, those of the same
\* author's included (apply_reaction_change, MessageFeedbackRepository).
THEOREM TotalsMirrorHolds == Spec => []TotalsMirror
<1>1. ChainInv => TotalsMirror
  BY DEF ChainInv, Counted, TotalsMirror
<1> QED
  BY <1>1, ChainAlways, PTL

\* With the exceptions of TotalsMirrorHolds, the admins have been alerted about every
\* message with more negative votes than the threshold, though the alert is for one
\* value of the total only: it moves by one at most (apply_reaction_change).
THEOREM AlertedAboveHolds == Spec => []AlertedAbove
<1>1. ChainInv => AlertedAbove
  BY DEF ChainInv, Counted, AlertedAbove
<1> QED
  BY <1>1, ChainAlways, PTL

=============================================================================
