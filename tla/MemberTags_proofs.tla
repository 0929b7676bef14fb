------------------------- MODULE MemberTags_proofs -------------------------
(***************************************************************************)
(* What no step of the handlers breaks, for any number of them at work on  *)
(* any members.  Community_proofs puts these lemmas together with those of *)
(* the other modules.                                                      *)
(***************************************************************************)
EXTENDS MemberTags, TLAPS

(***************************************************************************)
(* The inductive invariant, over a handler's record r and the roles ro,    *)
(* karma ka and tags ta on record and shown.  What a handler has loaded of *)
(* a member whom nothing else had to do with is still so, and the tag it   *)
(* has set of such a member is still the one it set.                       *)
(***************************************************************************)

\* How far a handler of each kind can be, and the member it works on.
OnCourse(r) ==
    /\ r.kind = "idle" => r.at = "end" /\ r.shown = {}
    /\ r.kind = "reaction" => r.at \in {"write", "call", "end"}
    /\ r.at = "write" => r.kind = "reaction" /\ r.shown = {}
    /\ r.kind \in {"role", "join"} => r.at \in {"call", "end"}
    /\ r.kind = "sync" => r.at \in {"next", "call"}
    /\ r.kind = "sync" => \A u \in r.rest : r.roles[u] # NoRole
    /\ r.at = "call" => r.roles[r.of] # NoRole
    /\ r.alone \subseteq Concerns(r)

Current(r, ro, ka, ta) == \A u \in r.alone :
    /\ r.kind \in {"join", "sync"} => r.roles[u] = ro[u]
    /\ r.kind = "reaction" /\ r.at # "write" => r.roles[u] = ro[u]
    /\ r.kind \in {"role", "join"} => r.points = ka[u]
    /\ r.kind = "sync" /\ r.at = "call" /\ r.of = u => r.points = ka[u]
    /\ u \in r.shown =>
        ta[u] = <<r.roles[u], IF r.kind = "sync" THEN ka[u] ELSE r.points>>

\* Two handlers: what one does alone the other has nothing to do with, unless both
\* are reactions; and of two reactions to one author, one still waits to write.
Apart(r, s) ==
    /\ ~ Orderly(r, s) => r.alone \cap Concerns(s) = {} /\ s.alone \cap Concerns(r) = {}
    /\ Orderly(r, s) /\ r.of = s.of => r.at = "write" \/ s.at = "write"

HandlersFit == \A h \in Handlers :
    /\ OnCourse(handler[h]) /\ Current(handler[h], role, karma, tag)
    /\ \A g \in Handlers \ {h} : Apart(handler[h], handler[g])

TagsInv == TagsTypeOK /\ HandlersFit

-----------------------------------------------------------------------------
(***************************************************************************)
(* Single handlers.                                                        *)
(***************************************************************************)

\* The members whose tag each kind of handler may set.
LEMMA ConcernsOf ==
    ASSUME NEW r
    PROVE  /\ r.kind = "idle" => Concerns(r) = {}
           /\ r.kind = "sync" => Concerns(r) = {m \in Members : r.roles[m] # NoRole}
           /\ r.kind \in {"reaction", "role", "join"} => Concerns(r) = {r.of}
BY DEF Concerns

\* A record with the fields of a handler.
LEMMA IsHandler ==
    ASSUME NEW kind \in {"idle", "reaction", "role", "join", "sync"},
           NEW at \in {"write", "call", "next", "end"}, NEW of \in Members,
           NEW roles \in [Members -> Roles \cup {NoRole}], NEW points \in Int,
           NEW rest \in SUBSET Members, NEW again \in BOOLEAN,
           NEW shown \in SUBSET Members, NEW alone \in SUBSET Members
    PROVE  [kind |-> kind, at |-> at, of |-> of, roles |-> roles, points |-> points,
            rest |-> rest, again |-> again, shown |-> shown, alone |-> alone] \in Handler
BY Zenon DEF Handler

\* What Idle consists of.
LEMMA IdleIs ==
    /\ Idle \in Handler
    /\ Idle.kind = "idle" /\ Idle.at = "end" /\ Idle.shown = {} /\ Idle.alone = {}
    /\ Idle.of \in Members /\ Idle.rest = {} /\ Idle.points = 0
    /\ Idle.roles = [m \in Members |-> NoRole]
<1> DEFINE one == CHOOSE m \in Members : TRUE
<1>1. one \in Members
  BY TagsAssumption
<1>2. /\ [m \in Members |-> NoRole] \in [Members -> Roles \cup {NoRole}]
      /\ 0 \in Int /\ {} \in SUBSET Members
      /\ "idle" \in {"idle", "reaction", "role", "join", "sync"}
      /\ "end" \in {"write", "call", "next", "end"}
  OBVIOUS
<1>3. FALSE \in BOOLEAN
  BY Zenon
<1>4. Idle = [kind |-> "idle", at |-> "end", of |-> one, roles |-> [m \in Members |-> NoRole],
              points |-> 0, rest |-> {}, again |-> FALSE, shown |-> {}, alone |-> {}]
  BY DEF Idle
<1> HIDE DEF one
<1>5. Idle \in Handler
  BY <1>1, <1>2, <1>3, <1>4, IsHandler, Zenon
<1>6. /\ Idle.kind = "idle" /\ Idle.at = "end" /\ Idle.shown = {} /\ Idle.alone = {}
      /\ Idle.of \in Members /\ Idle.rest = {} /\ Idle.points = 0
      /\ Idle.roles = [m \in Members |-> NoRole]
  BY <1>1, <1>4
<1> QED
  BY <1>5, <1>6

\* A handler that is not at work has nothing to do with the others.
LEMMA IdleFits ==
    ASSUME NEW ro, NEW ka, NEW ta
    PROVE  /\ OnCourse(Idle) /\ Current(Idle, ro, ka, ta)
           /\ \A s : Apart(Idle, s) /\ Apart(s, Idle)
BY IdleIs, ConcernsOf DEF OnCourse, Current, Apart, Orderly

\* Apart says the same of two handlers either way.
LEMMA ApartBothWays == ASSUME NEW r, NEW s, Apart(r, s) PROVE Apart(s, r)
BY DEF Apart, Orderly

\* What a handler rests on is what is on record and shown of those it is alone with.
LEMMA CurrentAgrees ==
    ASSUME NEW r, NEW ro, NEW ka, NEW ta, NEW ro2, NEW ta2, Current(r, ro, ka, ta),
           \A v \in r.alone : ro2[v] = ro[v] /\ ta2[v] = ta[v]
    PROVE  Current(r, ro2, ka, ta2)
BY DEF Current

\* Something else happens to members a handler may be at work on (Disturb).
LEMMA DisturbIs ==
    ASSUME NEW r \in Handler, NEW ms
    PROVE  /\ Disturb(r, ms) \in Handler
           /\ Disturb(r, ms).kind = r.kind /\ Disturb(r, ms).at = r.at
           /\ Disturb(r, ms).of = r.of /\ Disturb(r, ms).roles = r.roles
           /\ Disturb(r, ms).points = r.points /\ Disturb(r, ms).rest = r.rest
           /\ Disturb(r, ms).shown = r.shown
           /\ Disturb(r, ms).alone = r.alone \ ms
           /\ Concerns(Disturb(r, ms)) = Concerns(r)
<1>1. /\ Disturb(r, ms).kind = r.kind /\ Disturb(r, ms).at = r.at
      /\ Disturb(r, ms).of = r.of /\ Disturb(r, ms).roles = r.roles
      /\ Disturb(r, ms).points = r.points /\ Disturb(r, ms).rest = r.rest
      /\ Disturb(r, ms).shown = r.shown
      /\ Disturb(r, ms).alone = r.alone \ ms
  BY DEF Disturb, Handler
<1>2. Disturb(r, ms) \in Handler
  BY DEF Disturb, Handler
<1>3. Concerns(Disturb(r, ms)) = Concerns(r)
  BY <1>1 DEF Concerns
<1> QED
  BY <1>1, <1>2, <1>3

\* A handler that does less alone fits in as before.
LEMMA DisturbedFits ==
    ASSUME NEW r \in Handler, NEW ms, OnCourse(r)
    PROVE  /\ OnCourse(Disturb(r, ms))
           /\ \A ro, ka, ta : Current(r, ro, ka, ta) => Current(Disturb(r, ms), ro, ka, ta)
           /\ \A s : Apart(r, s) => Apart(Disturb(r, ms), s)
<1>1. OnCourse(Disturb(r, ms))
  BY DisturbIs DEF OnCourse
<1>2. ASSUME NEW ro, NEW ka, NEW ta, Current(r, ro, ka, ta)
      PROVE  Current(Disturb(r, ms), ro, ka, ta)
  BY <1>2, DisturbIs DEF Current
<1>3. ASSUME NEW s, Apart(r, s) PROVE Apart(Disturb(r, ms), s)
  BY <1>3, DisturbIs DEF Apart, Orderly
<1> QED
  BY <1>1, <1>2, <1>3

-----------------------------------------------------------------------------
(***************************************************************************)
(* One handler begins, or goes on.                                         *)
(***************************************************************************)

\* One handler goes on, and what it changes the others do not rest on.
LEMMA AdvanceFits ==
    ASSUME TagsInv, NEW h \in Handlers, NEW r \in Handler, Advance(h, r),
           OnCourse(r), Current(r, role', karma', tag'),
           \A g \in Handlers \ {h} :
               Current(handler[g], role', karma', tag') /\ Apart(handler[g], r)
    PROVE  handler' \in [Handlers -> Handler] /\ HandlersFit'
<1>1. /\ handler' \in [Handlers -> Handler] /\ handler'[h] = r
      /\ \A g \in Handlers \ {h} : handler'[g] = handler[g]
  BY DEF TagsInv, TagsTypeOK, Advance
<1>2. ASSUME NEW f \in Handlers
      PROVE  OnCourse(handler'[f]) /\ Current(handler'[f], role', karma', tag')
  BY <1>1, <1>2 DEF TagsInv, HandlersFit
<1>3. ASSUME NEW f \in Handlers, NEW g \in Handlers \ {f}
      PROVE  Apart(handler'[f], handler'[g])
  <2>1. CASE f = h
    BY <1>1, <2>1, ApartBothWays
  <2>2. CASE f # h /\ g = h
    BY <1>1, <2>2
  <2>3. CASE f # h /\ g # h
    BY <1>1, <2>3 DEF TagsInv, HandlersFit
  <2> QED
    BY <2>1, <2>2, <2>3
<1> QED
  BY <1>1, <1>2, <1>3 DEF HandlersFit

\* A handler begins with what it has loaded of everybody it concerns (Begin).
LEMMA BeginFits ==
    ASSUME TagsInv, NEW h \in Handlers, NEW r \in Handler, Begin(h, r),
           UNCHANGED <<role, karma, tag>>,
           OnCourse(r), r.shown = {}, r.kind = "reaction" => r.at = "write",
           r.kind = "sync" => r.at = "next",
           \A u \in Concerns(r) :
               /\ r.kind \in {"join", "sync"} => r.roles[u] = role[u]
               /\ r.kind \in {"role", "join"} => r.points = karma[u]
    PROVE  handler' \in [Handlers -> Handler] /\ HandlersFit'
<1> DEFINE others == {g \in Handlers \ {h} : ~ Orderly(handler[g], r)}
           busy   == UNION {Concerns(handler[g]) : g \in others}
           alone  == Concerns(r) \ busy
           q      == [r EXCEPT !.alone = alone]
<1>1. /\ handler \in [Handlers -> Handler]
      /\ \A g \in Handlers : OnCourse(handler[g]) /\ Current(handler[g], role, karma, tag)
      /\ \A f \in Handlers : \A g \in Handlers \ {f} : Apart(handler[f], handler[g])
  BY DEF TagsInv, TagsTypeOK, HandlersFit
<1>2. Concerns(r) \in SUBSET Members
  BY DEF Concerns, Handler
<1>3. /\ q.kind = r.kind /\ q.at = r.at /\ q.of = r.of /\ q.roles = r.roles
      /\ q.points = r.points /\ q.rest = r.rest /\ q.shown = r.shown /\ q.alone = alone
  BY DEF Handler
<1>4. alone \in SUBSET Members /\ alone \subseteq Concerns(r)
  BY <1>2
<1>5. q \in Handler
  <2> HIDE DEF alone
  <2> QED
    BY <1>4 DEF Handler
<1>6. Concerns(q) = Concerns(r)
  BY <1>3 DEF Concerns
<1>7. \A g \in others : alone \cap Concerns(handler[g]) = {}
  OBVIOUS
<1>8. /\ handler'[h] = q
      /\ \A g \in others : handler'[g] = Disturb(handler[g], Concerns(r))
      /\ \A g \in Handlers \ {h} : g \notin others => handler'[g] = handler[g]
      /\ handler' = [g \in Handlers |-> IF g = h THEN q
                                        ELSE IF g \in others THEN Disturb(handler[g], Concerns(r))
                                        ELSE handler[g]]
  BY DEF Begin
<1>9. OnCourse(q) /\ Current(q, role, karma, tag)
  <2> HIDE DEF q, alone
  <2>1. OnCourse(q)
    BY <1>3, <1>4, <1>6 DEF OnCourse
  <2>2. Current(q, role, karma, tag)
    BY <1>3, <1>4, <1>6 DEF Current
  <2> QED
    BY <2>1, <2>2
<1> HIDE DEF q, alone, busy
<1>10. ASSUME NEW g \in Handlers \ {h}
       PROVE  /\ handler'[g] \in Handler
              /\ OnCourse(handler'[g]) /\ Current(handler'[g], role, karma, tag)
              /\ Apart(handler'[g], q)
              /\ \A s : Apart(handler[g], s) => Apart(handler'[g], s)
  <2>1. CASE g \in others
    <3>1. handler'[g] = Disturb(handler[g], Concerns(r))
      BY <1>8, <2>1
    <3>2. Apart(Disturb(handler[g], Concerns(r)), q)
      BY <1>1, <1>3, <1>6, <1>7, <2>1, DisturbIs DEF Apart, Orderly
    <3> QED
      BY <1>1, <3>1, <3>2, DisturbIs, DisturbedFits
  <2>2. CASE g \notin others
    <3>1. handler'[g] = handler[g] /\ Orderly(handler[g], r)
      BY <1>8, <2>2
    <3>2. Apart(handler[g], q)
      BY <1>3, <3>1 DEF Apart, Orderly
    <3> QED
      BY <1>1, <3>1, <3>2
  <2> QED
    BY <2>1, <2>2
<1>11. handler' \in [Handlers -> Handler]
  BY <1>5, <1>8, <1>10
<1>12. ASSUME NEW f \in Handlers, NEW g \in Handlers \ {f}
       PROVE  Apart(handler'[f], handler'[g])
  <2>1. CASE f = h
    BY <1>8, <1>10, <2>1, ApartBothWays
  <2>2. CASE f # h /\ g = h
    BY <1>8, <1>10, <2>2
  <2>3. CASE f # h /\ g # h
    <3>1. Apart(handler[f], handler[g])
      BY <1>1
    <3>2. Apart(handler'[f], handler[g])
      BY <1>10, <2>3, <3>1
    <3>3. Apart(handler'[g], handler'[f])
      BY <1>10, <2>3, <3>2, ApartBothWays
    <3> QED
      BY <3>3, ApartBothWays
  <2> QED
    BY <2>1, <2>2, <2>3
<1> QED
  BY <1>8, <1>9, <1>10, <1>11, <1>12 DEF HandlersFit

\* A reaction to a message of u (BeginReaction).
LEMMA ReactionBegins ==
    ASSUME TagsInv, RecordsTypeOK, UNCHANGED role, NEW h \in Handlers, NEW u \in Members, NEW d \in Int,
           BeginReaction(h, u, d)
    PROVE  TagsInv'
<1> DEFINE r == [Idle EXCEPT !.kind = "reaction", !.at = "write", !.of = u, !.points = karma[u] + d]
<1>1. /\ r.kind = "reaction" /\ r.at = "write"
      /\ r.rest \subseteq Members /\ r.shown = {} /\ r.alone = {}
  BY IdleIs DEF Handler, RecordsTypeOK
<1>2. r \in Handler
  <2>1. karma[u] + d \in Int
    BY DEF TagsInv, TagsTypeOK
  <2> QED
    BY <2>1, IdleIs DEF Handler
<1>3. Begin(h, r) /\ UNCHANGED <<role, karma, tag>>
  BY DEF BeginReaction
<1> HIDE DEF r
<1>4. OnCourse(r)
  BY <1>1 DEF OnCourse
<1>5. handler' \in [Handlers -> Handler] /\ HandlersFit'
  BY <1>1, <1>2, <1>3, <1>4, ConcernsOf, BeginFits
<1>6. inChat' \subseteq Members /\ joined' \subseteq Members
  BY DEF BeginReaction, TagsInv, TagsTypeOK
<1> QED
  BY <1>3, <1>5, <1>6 DEF TagsInv, TagsTypeOK

\* A change of role (BeginRoleChange).
LEMMA RoleChangeBegins ==
    ASSUME TagsInv, RecordsTypeOK, UNCHANGED role, NEW h \in Handlers, NEW u \in Members, NEW new \in Roles,
           BeginRoleChange(h, u, new)
    PROVE  TagsInv'
<1>0. PICK stage \in {"call", "end"} : stage = IF connected THEN "call" ELSE "end"
  OBVIOUS
<1>7. PICK kind \in {"join", "role"} : kind = IF new = role[u] THEN "join" ELSE "role"
  OBVIOUS
<1> DEFINE roles == [role EXCEPT ![u] = new]
           r     == [Idle EXCEPT !.kind = kind, !.of = u, !.points = karma[u],
                                 !.roles = roles,
                                 !.at = stage]
<1>1. /\ r.kind = kind /\ r.at \in {"call", "end"} /\ r.of = u /\ r.points = karma[u]
      /\ r.roles[r.of] # NoRole /\ (r.kind = "join" => r.roles = role)
      /\ r.rest \subseteq Members /\ r.shown = {} /\ r.alone = {}
  <2>1. roles[u] = new /\ new # NoRole /\ (kind = "join" => roles = role)
    BY <1>7, RecordsAssumption DEF RecordsTypeOK
  <2> HIDE DEF roles
  <2> QED
    BY <2>1, IdleIs DEF Handler
<1>2. r \in Handler
  <2>1. roles \in [Members -> Roles \cup {NoRole}] /\ karma[u] \in Int
    BY DEF RecordsTypeOK, TagsInv, TagsTypeOK
  <2> HIDE DEF roles
  <2> QED
    BY <2>1, IdleIs DEF Handler
<1>3. Begin(h, r) /\ UNCHANGED <<role, karma, tag>>
  BY <1>0, <1>7, Zenon DEF BeginRoleChange
<1> HIDE DEF r
<1>4. OnCourse(r)
  BY <1>1 DEF OnCourse
<1>5. handler' \in [Handlers -> Handler] /\ HandlersFit'
  BY <1>1, <1>2, <1>3, <1>4, ConcernsOf, BeginFits
<1>6. inChat' \subseteq Members /\ joined' \subseteq Members
  BY DEF BeginRoleChange, TagsInv, TagsTypeOK
<1> QED
  BY <1>3, <1>5, <1>6 DEF TagsInv, TagsTypeOK

\* A member who joined (BeginJoin), or nothing if there is no tag to set.
LEMMA JoinBegins ==
    ASSUME TagsInv, RecordsTypeOK, UNCHANGED role, NEW h \in Handlers, NEW u \in Members,
           BeginJoin(h, u)
    PROVE  TagsInv'
<1> DEFINE r == [Idle EXCEPT !.kind = "join", !.at = "call", !.of = u, !.roles = role,
                             !.points = karma[u]]
<1>1. /\ r.kind = "join" /\ r.at = "call" /\ r.of = u /\ r.points = karma[u] /\ r.roles = role
      /\ r.rest \subseteq Members /\ r.shown = {} /\ r.alone = {}
  BY IdleIs DEF Handler, RecordsTypeOK
<1>2. r \in Handler
  <2>1. karma[u] \in Int
    BY DEF TagsInv, TagsTypeOK
  <2> QED
    BY <2>1, IdleIs DEF Handler, RecordsTypeOK
<1>3. /\ UNCHANGED <<role, karma, tag, inChat>> /\ joined' \subseteq Members
      /\ \/ Begin(h, r) /\ role[u] # NoRole
         \/ UNCHANGED handler
  BY DEF BeginJoin, TagsInv, TagsTypeOK
<1> HIDE DEF r
<1>4. CASE Begin(h, r) /\ role[u] # NoRole
  <2>1. OnCourse(r)
    BY <1>1, <1>4 DEF OnCourse
  <2>2. handler' \in [Handlers -> Handler] /\ HandlersFit'
    BY <1>1, <1>2, <1>3, <1>4, <2>1, ConcernsOf, BeginFits
  <2> QED
    BY <1>3, <2>2 DEF TagsInv, TagsTypeOK
<1>5. CASE UNCHANGED handler
  BY <1>3, <1>5 DEF TagsInv, TagsTypeOK, HandlersFit
<1> QED
  BY <1>3, <1>4, <1>5

\* /sync_tags (BeginSync).
LEMMA SyncBegins ==
    ASSUME TagsInv, RecordsTypeOK, UNCHANGED role, NEW h \in Handlers, BeginSync(h)
    PROVE  TagsInv'
<1> DEFINE rest == {u \in Members : role[u] # NoRole}
           r    == [Idle EXCEPT !.kind = "sync", !.at = "next", !.roles = role, !.rest = rest]
<1>1. /\ r.kind = "sync" /\ r.at = "next" /\ r.roles = role /\ r.rest = rest
      /\ r.shown = {} /\ r.alone = {}
  BY IdleIs DEF Handler, RecordsTypeOK
<1>2. r \in Handler
  BY IdleIs DEF Handler, RecordsTypeOK
<1>3. Begin(h, r) /\ UNCHANGED <<role, karma, tag>>
  BY DEF BeginSync
<1> HIDE DEF r
<1>4. OnCourse(r)
  BY <1>1 DEF OnCourse
<1>5. handler' \in [Handlers -> Handler] /\ HandlersFit'
  BY <1>1, <1>2, <1>3, <1>4, ConcernsOf, BeginFits
<1>6. inChat' \subseteq Members /\ joined' \subseteq Members
  BY DEF BeginSync, TagsInv, TagsTypeOK
<1> QED
  BY <1>3, <1>5, <1>6 DEF TagsInv, TagsTypeOK

\* A handler that keeps its kind, its member and what it does alone fits with the
\* others, unless it is a reaction that comes to write.
LEMMA StaysApart ==
    ASSUME TagsInv, NEW h \in Handlers, NEW r, NEW g \in Handlers \ {h},
           r.kind = handler[h].kind, r.alone = handler[h].alone,
           Concerns(r) = Concerns(handler[h]),
           r.kind = "reaction" => r.of = handler[h].of,
           r.kind = "reaction" /\ handler[h].at = "write" => r.at = "write"
    PROVE  Apart(handler[g], r)
BY DEF TagsInv, HandlersFit, Apart, Orderly

\* The update of the statistics (WriteKarma).
LEMMA KarmaWritten ==
    ASSUME TagsInv, RecordsTypeOK, UNCHANGED role, NEW h \in Handlers, WriteKarma(h)
    PROVE  TagsInv'
<1>1. PICK stage \in {"call", "end"} :
          stage = IF role[handler[h].of] = NoRole THEN "end" ELSE "call"
  OBVIOUS
<1> DEFINE r == [handler[h] EXCEPT !.roles = role, !.at = stage]
<1>2. handler[h] \in Handler /\ OnCourse(handler[h]) /\ Current(handler[h], role, karma, tag)
  BY DEF TagsInv, TagsTypeOK, HandlersFit
<1>3. handler[h].kind = "reaction" /\ handler[h].shown = {}
  BY <1>2 DEF WriteKarma, OnCourse
<1>4. /\ r.kind = handler[h].kind /\ r.at = stage /\ r.of = handler[h].of /\ r.roles = role
      /\ r.alone = handler[h].alone /\ r.shown = {}
  BY <1>2, <1>3 DEF Handler
<1>5. r \in Handler
  BY <1>2 DEF Handler, RecordsTypeOK
<1>6. Advance(h, r) /\ StatsFree(h) /\ UNCHANGED <<karma, inChat, tag, joined, role>>
  BY <1>1, Zenon DEF WriteKarma
<1> HIDE DEF r
<1>7. Concerns(r) = Concerns(handler[h])
  BY <1>3, <1>4, ConcernsOf
<1>8. OnCourse(r) /\ Current(r, role, karma, tag)
  BY <1>1, <1>2, <1>3, <1>4, <1>7 DEF OnCourse, Current
<1>9. ASSUME NEW g \in Handlers \ {h} PROVE Apart(handler[g], r)
  <2>1. Apart(handler[g], handler[h]) /\ handler[g] \in Handler /\ OnCourse(handler[g])
    BY DEF TagsInv, TagsTypeOK, HandlersFit
  <2>2. handler[g].kind = "reaction" /\ handler[g].of = handler[h].of => handler[g].at = "write"
    BY <1>6, <2>1 DEF StatsFree, OnCourse
  <2> QED
    BY <1>3, <1>4, <1>7, <2>1, <2>2 DEF Apart, Orderly
<1>10. handler' \in [Handlers -> Handler] /\ HandlersFit'
  <2>1. \A g \in Handlers : Current(handler[g], role', karma', tag')
    BY <1>6 DEF TagsInv, HandlersFit
  <2> QED
    BY <1>5, <1>6, <1>8, <1>9, <2>1, AdvanceFits
<1> QED
  BY <1>6, <1>10 DEF TagsInv, TagsTypeOK

\* A step of a handler that changes nothing but how far it is, and with it the member
\* a sync is at.
LEMMA GoesOn ==
    ASSUME TagsInv, UNCHANGED <<role, karma, inChat, tag, joined>>, NEW h \in Handlers,
           NEW r \in Handler, Advance(h, r),
           r.kind = handler[h].kind, r.alone = handler[h].alone, r.roles = handler[h].roles,
           r.shown = handler[h].shown,
           r.kind # "sync" => r.of = handler[h].of /\ r.points = handler[h].points,
           handler[h].at # "write",
           OnCourse(r),
           r.kind = "sync" /\ r.at = "call" /\ r.of \in r.alone => r.points = karma[r.of]
    PROVE  TagsInv'
<1>1. handler[h] \in Handler /\ OnCourse(handler[h]) /\ Current(handler[h], role, karma, tag)
  BY DEF TagsInv, TagsTypeOK, HandlersFit
<1>2. Concerns(r) = Concerns(handler[h])
  <2>1. CASE r.kind = "sync"
    <3>1. Concerns(r) = {m \in Members : r.roles[m] # NoRole}
      BY <2>1, ConcernsOf
    <3>2. Concerns(handler[h]) = {m \in Members : handler[h].roles[m] # NoRole}
      BY <2>1, ConcernsOf
    <3> QED
      BY <3>1, <3>2
  <2>2. CASE r.kind # "sync"
    BY <2>2 DEF Concerns
  <2> QED
    BY <2>1, <2>2
<1>3. Current(r, role, karma, tag)
  BY <1>1 DEF Current
<1>4. \A g \in Handlers \ {h} : Apart(handler[g], r)
  BY <1>2, StaysApart
<1>5. \A g \in Handlers : Current(handler[g], role', karma', tag')
  BY DEF TagsInv, HandlersFit
<1>6. handler' \in [Handlers -> Handler] /\ HandlersFit'
  BY <1>3, <1>4, <1>5, AdvanceFits
<1> QED
  BY <1>6 DEF TagsInv, TagsTypeOK

\* The next of a sync (SyncNext).
LEMMA SyncGoesOn ==
    ASSUME TagsInv, UNCHANGED role, NEW h \in Handlers, SyncNext(h) PROVE TagsInv'
<1>1. handler[h] \in Handler /\ OnCourse(handler[h])
  BY DEF TagsInv, TagsTypeOK, HandlersFit
<1>2. PICK u \in handler[h].rest :
          Advance(h, [handler[h] EXCEPT !.of = u, !.rest = @ \ {u}, !.at = "call",
                                        !.again = FALSE, !.points = karma[u]])
  BY Zenon DEF SyncNext
<1>3. u \in Members /\ karma[u] \in Int
  BY <1>1, <1>2 DEF Handler, TagsInv, TagsTypeOK
<1> DEFINE r == [handler[h] EXCEPT !.of = u, !.rest = @ \ {u}, !.at = "call",
                                   !.again = FALSE, !.points = karma[u]]
<1>4. /\ r.kind = handler[h].kind /\ r.alone = handler[h].alone /\ r.roles = handler[h].roles
      /\ r.shown = handler[h].shown /\ r.at = "call" /\ r.of = u /\ r.points = karma[u]
      /\ r.rest = handler[h].rest \ {u}
  BY <1>1 DEF Handler
<1>5. r \in Handler
  <2> DEFINE rest == handler[h].rest \ {u}
  <2>1. rest \subseteq Members
    BY <1>1 DEF Handler
  <2>2. FALSE \in BOOLEAN
    BY Zenon
  <2>3. [handler[h] EXCEPT !.of = u, !.rest = rest, !.at = "call", !.points = karma[u]] \in Handler
    <3> HIDE DEF rest
    <3> QED
      BY <1>1, <1>3, <2>1 DEF Handler
  <2>4. r = [[handler[h] EXCEPT !.of = u, !.rest = rest, !.at = "call", !.points = karma[u]]
             EXCEPT !.again = FALSE]
    BY <1>1 DEF Handler
  <2> HIDE DEF r, rest
  <2> QED
    BY <2>2, <2>3, <2>4 DEF Handler
<1>6. /\ Advance(h, r) /\ UNCHANGED <<role, karma, inChat, tag, joined>>
      /\ handler[h].at = "next"
  BY <1>2, Zenon DEF SyncNext
<1> HIDE DEF r
<1>7. OnCourse(r) /\ r.kind = "sync"
  <2>1. r.kind = "sync"
    BY <1>1, <1>4, <1>6 DEF OnCourse, Handler
  <2>2. Concerns(r) = Concerns(handler[h])
    <3>1. Concerns(r) = {m \in Members : r.roles[m] # NoRole}
      BY <2>1, ConcernsOf
    <3>2. Concerns(handler[h]) = {m \in Members : handler[h].roles[m] # NoRole}
      BY <1>4, <2>1, ConcernsOf
    <3> QED
      BY <1>4, <3>1, <3>2
  <2> QED
    BY <1>1, <1>2, <1>4, <2>1, <2>2 DEF OnCourse
<1> QED
  BY <1>4, <1>5, <1>6, <1>7, GoesOn

\* A call that is tried again, or given up (TagAgain, TagRefused).
LEMMA CallFails ==
    ASSUME TagsInv, UNCHANGED role, NEW h \in Handlers, TagAgain(h) \/ TagRefused(h)
    PROVE  TagsInv'
<1>1. /\ handler[h] \in Handler /\ OnCourse(handler[h])
      /\ Current(handler[h], role, karma, tag)
  BY DEF TagsInv, TagsTypeOK, HandlersFit
<1>2. handler[h].at = "call" /\ UNCHANGED <<role, karma, inChat, tag, joined>>
  BY DEF TagAgain, TagRefused
<1>3. CASE TagAgain(h)
  <2> DEFINE r == [handler[h] EXCEPT !.again = TRUE]
  <2>1. /\ r.kind = handler[h].kind /\ r.alone = handler[h].alone /\ r.roles = handler[h].roles
        /\ r.shown = handler[h].shown /\ r.at = "call" /\ r.of = handler[h].of
        /\ r.points = handler[h].points /\ r.rest = handler[h].rest
    BY <1>1, <1>2 DEF Handler
  <2>2. TRUE \in BOOLEAN
    BY Zenon
  <2>3. r \in Handler
    BY <1>1, <2>2 DEF Handler
  <2>4. Advance(h, r)
    BY <1>3, Zenon DEF TagAgain
  <2> HIDE DEF r
  <2>5. Concerns(r) = Concerns(handler[h])
    BY <2>1 DEF Concerns
  <2>6. OnCourse(r)
    BY <1>1, <1>2, <2>1, <2>5 DEF OnCourse
  <2> QED
    BY <1>1, <1>2, <2>1, <2>3, <2>4, <2>6, GoesOn DEF Current
<1>4. CASE TagRefused(h)
  <2>1. PICK stage \in {"next", "end"} : stage = AfterCall(h)
    BY DEF AfterCall
  <2> DEFINE r == [handler[h] EXCEPT !.at = stage]
  <2>2. /\ r.kind = handler[h].kind /\ r.alone = handler[h].alone /\ r.roles = handler[h].roles
        /\ r.shown = handler[h].shown /\ r.at = stage /\ r.of = handler[h].of
        /\ r.points = handler[h].points /\ r.rest = handler[h].rest
    BY <1>1 DEF Handler
  <2>3. r \in Handler
    BY <1>1 DEF Handler
  <2>4. Advance(h, r)
    BY <1>4, <2>1, Zenon DEF TagRefused
  <2> HIDE DEF r
  <2>5. Concerns(r) = Concerns(handler[h])
    BY <2>2 DEF Concerns
  <2>6. OnCourse(r)
    BY <1>1, <1>2, <2>1, <2>2, <2>5 DEF OnCourse, AfterCall
  <2> QED
    BY <1>2, <2>1, <2>2, <2>3, <2>4, <2>6, GoesOn
<1> QED
  BY <1>3, <1>4

-----------------------------------------------------------------------------
(***************************************************************************)
(* Tags are set, handlers end.                                             *)
(***************************************************************************)

\* Setting a tag as handler h has it (Tagged) leaves every tag that another handler
\* has set alone.
LEMMA TaggedFits ==
    ASSUME TagsInv, NEW h \in Handlers, handler[h].at = "call"
    PROVE  /\ Tagged(handler[h]) \in [Members -> (Roles \X Int) \cup {NoTag}]
           /\ \A g \in Handlers \ {h} : Current(handler[g], role, karma, Tagged(handler[h]))
           /\ \A u \in Members \ {handler[h].of} : Tagged(handler[h])[u] = tag[u]
           /\ handler[h].of \in inChat =>
                 Tagged(handler[h])[handler[h].of]
                     = <<handler[h].roles[handler[h].of], handler[h].points>>
<1> DEFINE ta == Tagged(handler[h])
           of == handler[h].of
<1>1. /\ handler[h] \in Handler /\ OnCourse(handler[h])
      /\ tag \in [Members -> (Roles \X Int) \cup {NoTag}]
      /\ of \in Members /\ handler[h].points \in Int
      /\ handler[h].roles \in [Members -> Roles \cup {NoRole}]
  BY DEF TagsInv, TagsTypeOK, HandlersFit, Handler
<1>2. handler[h].roles[of] \in Roles
  BY <1>1 DEF OnCourse
<1>3. /\ ta \in [Members -> (Roles \X Int) \cup {NoTag}]
      /\ \A u \in Members \ {of} : ta[u] = tag[u]
      /\ of \in inChat => ta[of] = <<handler[h].roles[of], handler[h].points>>
  BY <1>1, <1>2 DEF Tagged
<1>4. of \in Concerns(handler[h])
  BY <1>1, ConcernsOf DEF OnCourse, Handler
<1>5. ASSUME NEW g \in Handlers \ {h} PROVE Current(handler[g], role, karma, ta)
  <2>1. /\ handler[g] \in Handler /\ OnCourse(handler[g])
        /\ Current(handler[g], role, karma, tag) /\ Apart(handler[g], handler[h])
    BY DEF TagsInv, TagsTypeOK, HandlersFit
  <2>2. of \notin handler[g].alone \cap handler[g].shown
    <3>1. CASE Orderly(handler[g], handler[h])
      BY <2>1, <3>1, ConcernsOf DEF Apart, Orderly, OnCourse
    <3>2. CASE ~ Orderly(handler[g], handler[h])
      BY <1>4, <2>1, <3>2 DEF Apart
    <3> QED
      BY <3>1, <3>2
  <2>3. \A u \in handler[g].alone \cap handler[g].shown : ta[u] = tag[u]
    BY <1>3, <2>1, <2>2 DEF Handler
  <2> HIDE DEF ta
  <2> QED
    BY <2>1, <2>3 DEF Current
<1> QED
  BY <1>3, <1>5

\* Telegram accepts the tag (TagApplied).
LEMMA CallSucceeds ==
    ASSUME TagsInv, UNCHANGED role, NEW h \in Handlers, TagApplied(h)
    PROVE  TagsInv'
<1>1. /\ handler[h] \in Handler /\ OnCourse(handler[h])
      /\ Current(handler[h], role, karma, tag)
  BY DEF TagsInv, TagsTypeOK, HandlersFit
<1>2. /\ handler[h].at = "call" /\ handler[h].of \in inChat /\ tag' = Tagged(handler[h])
      /\ UNCHANGED <<role, karma, inChat, joined>>
  BY DEF TagApplied
<1>3. PICK stage \in {"next", "end"} : stage = AfterCall(h)
  BY DEF AfterCall
<1> DEFINE shown == handler[h].shown \cup {handler[h].of}
           r     == [handler[h] EXCEPT !.at = stage, !.shown = shown]
<1>4. /\ r.kind = handler[h].kind /\ r.alone = handler[h].alone /\ r.roles = handler[h].roles
      /\ r.shown = shown /\ r.at = stage /\ r.of = handler[h].of
      /\ r.points = handler[h].points /\ r.rest = handler[h].rest
  BY <1>1 DEF Handler
<1>5. r \in Handler
  <2>1. shown \in SUBSET Members
    BY <1>1 DEF Handler
  <2> HIDE DEF shown
  <2> QED
    BY <1>1, <2>1 DEF Handler
<1>6. Advance(h, r)
  BY <1>3, Zenon DEF TagApplied
<1> HIDE DEF r
<1>7. Concerns(r) = Concerns(handler[h])
  BY <1>4 DEF Concerns
<1>8. OnCourse(r)
  BY <1>1, <1>2, <1>3, <1>4, <1>7 DEF OnCourse, AfterCall
<1>9. Current(r, role', karma', tag')
  <2>1. /\ \A u \in Members \ {handler[h].of} : tag'[u] = tag[u]
        /\ tag'[handler[h].of] = <<handler[h].roles[handler[h].of], handler[h].points>>
    BY <1>2, TaggedFits
  <2>2. r.alone \subseteq Members
    BY <1>1, <1>4 DEF Handler
  <2> QED
    BY <1>1, <1>2, <1>4, <2>1, <2>2 DEF Current
<1>10. handler' \in [Handlers -> Handler] /\ HandlersFit'
  <2>1. \A g \in Handlers \ {h} : Current(handler[g], role', karma', tag')
    BY <1>2, TaggedFits
  <2>2. \A g \in Handlers \ {h} : Apart(handler[g], r)
    BY <1>2, <1>4, <1>7, StaysApart
  <2> QED
    BY <1>5, <1>6, <1>8, <1>9, <2>1, <2>2, AdvanceFits
<1>11. tag' \in [Members -> (Roles \X Int) \cup {NoTag}]
  BY <1>2, TaggedFits
<1> QED
  BY <1>2, <1>10, <1>11 DEF TagsInv, TagsTypeOK

\* A handler commits (End): the others have done nothing alone that concerns its
\* member, or are reactions to the same author and do not rest on the karma.
LEMMA EndFits ==
    ASSUME TagsInv, RecordsTypeOK, NEW h \in Handlers, End(h)
    PROVE  TagsInv'
<1>1. /\ handler[h] \in Handler /\ OnCourse(handler[h])
      /\ UNCHANGED <<inChat, tag, joined>> /\ Advance(h, Idle)
  BY DEF End, TagsInv, TagsTypeOK, HandlersFit
<1>2. handler[h].of \in Members /\ handler[h].points \in Int
  BY <1>1 DEF Handler
<1>3. /\ karma' \in [Members -> Int]
      /\ \A u \in Members : u # handler[h].of => karma'[u] = karma[u] /\ role'[u] = role[u]
      /\ handler[h].kind # "reaction" => karma' = karma
      /\ handler[h].kind # "role" => role' = role
  BY <1>2 DEF End, TagsInv, TagsTypeOK, RecordsTypeOK
<1>4. ASSUME NEW g \in Handlers \ {h} PROVE Current(handler[g], role', karma', tag')
  <2>1. /\ handler[g] \in Handler /\ OnCourse(handler[g])
        /\ Current(handler[g], role, karma, tag) /\ Apart(handler[g], handler[h])
    BY DEF TagsInv, TagsTypeOK, HandlersFit
  <2>2. handler[g].alone \subseteq Members
    BY <2>1 DEF Handler
  <2>3. CASE handler[g].kind = "reaction" /\ handler[h].kind = "reaction"
    BY <1>1, <1>3, <2>1, <2>3 DEF Current
  <2>4. CASE handler[h].kind \in {"reaction", "role"} /\ ~ Orderly(handler[g], handler[h])
    <3>1. handler[h].of \notin handler[g].alone
      BY <2>1, <2>4, ConcernsOf DEF Apart
    <3> QED
      BY <1>1, <1>3, <2>1, <2>2, <3>1 DEF Current
  <2>5. CASE handler[h].kind \notin {"reaction", "role"}
    BY <1>1, <1>3, <2>1, <2>5
  <2> QED
    BY <2>3, <2>4, <2>5 DEF Orderly
<1>5. handler' \in [Handlers -> Handler] /\ HandlersFit'
  <2>1. Idle \in Handler /\ OnCourse(Idle) /\ Current(Idle, role', karma', tag')
    BY IdleIs, IdleFits
  <2>2. \A g \in Handlers \ {h} : Apart(handler[g], Idle)
    BY IdleFits
  <2> QED
    BY <1>1, <1>4, <2>1, <2>2, AdvanceFits
<1> QED
  BY <1>1, <1>3, <1>5 DEF TagsInv, TagsTypeOK

\* A handler is aborted, its call in flight carried out or not (Abort).
LEMMA AbortFits ==
    ASSUME TagsInv, UNCHANGED role, NEW h \in Handlers, Abort(h)
    PROVE  TagsInv'
<1>1. /\ Advance(h, Idle) /\ UNCHANGED <<karma, inChat, joined>>
      /\ tag' = tag \/ (handler[h].at = "call" /\ tag' = Tagged(handler[h]))
  BY DEF Abort
<1>2. tag' \in [Members -> (Roles \X Int) \cup {NoTag}]
  BY <1>1, TaggedFits DEF TagsInv, TagsTypeOK
<1>3. \A g \in Handlers \ {h} : Current(handler[g], role', karma', tag')
  <2>1. CASE tag' = tag
    BY <1>1, <2>1 DEF TagsInv, HandlersFit
  <2>2. CASE handler[h].at = "call" /\ tag' = Tagged(handler[h])
    BY <1>1, <2>2, TaggedFits
  <2> QED
    BY <1>1, <2>1, <2>2
<1>4. handler' \in [Handlers -> Handler] /\ HandlersFit'
  <2>1. Idle \in Handler /\ OnCourse(Idle) /\ Current(Idle, role', karma', tag')
    BY IdleIs, IdleFits
  <2>2. \A g \in Handlers \ {h} : Apart(handler[g], Idle)
    BY IdleFits
  <2> QED
    BY <1>1, <1>3, <2>1, <2>2, AdvanceFits
<1> QED
  BY <1>1, <1>2, <1>4 DEF TagsInv, TagsTypeOK

\* The process stops (StopHandlers).
LEMMA StopFits ==
    ASSUME TagsInv, UNCHANGED role, StopHandlers PROVE TagsInv'
<1>1. handler' \in [Handlers -> Handler] /\ \A h \in Handlers : handler'[h] = Idle
  BY IdleIs DEF StopHandlers
<1>2. tag' \in [Members -> (Roles \X Int) \cup {NoTag}]
  <2>1. ASSUME NEW u \in Members PROVE tag'[u] \in (Roles \X Int) \cup {NoTag}
    <3>1. tag'[u] \in MayShow(u) /\ tag[u] \in (Roles \X Int) \cup {NoTag}
      BY DEF StopHandlers, TagsInv, TagsTypeOK
    <3>2. ASSUME NEW h \in Handlers, handler[h].at = "call"
          PROVE  Tagged(handler[h])[u] \in (Roles \X Int) \cup {NoTag}
      BY <3>2, TaggedFits
    <3> QED
      BY <3>1, <3>2 DEF MayShow
  <2> QED
    BY <2>1 DEF StopHandlers
<1>3. HandlersFit'
  BY <1>1, IdleFits DEF HandlersFit
<1> QED
  BY <1>1, <1>2, <1>3 DEF StopHandlers, TagsInv, TagsTypeOK

-----------------------------------------------------------------------------
(***************************************************************************)
(* What else happens.                                                      *)
(***************************************************************************)

\* Something happens to u that no handler did: none is alone with u any more.
LEMMA DisturbFits ==
    ASSUME TagsInv, NEW u \in Members, UNCHANGED karma,
           handler' = [h \in Handlers |-> Disturb(handler[h], {u})],
           \A v \in Members \ {u} : role'[v] = role[v] /\ tag'[v] = tag[v]
    PROVE  handler' \in [Handlers -> Handler] /\ HandlersFit'
<1>1. ASSUME NEW h \in Handlers
      PROVE  /\ handler'[h] = Disturb(handler[h], {u})
             /\ handler[h] \in Handler /\ OnCourse(handler[h])
             /\ Current(handler[h], role, karma, tag)
             /\ handler'[h] \in Handler /\ OnCourse(handler'[h])
             /\ \A s : Apart(handler[h], s) => Apart(handler'[h], s)
  BY DisturbIs, DisturbedFits DEF TagsInv, TagsTypeOK, HandlersFit
<1>2. ASSUME NEW h \in Handlers PROVE Current(handler'[h], role', karma', tag')
  <2>1. /\ Current(handler'[h], role, karma', tag)
        /\ u \notin handler'[h].alone /\ handler'[h].alone \subseteq Members
    BY <1>1, DisturbIs, DisturbedFits DEF Handler
  <2>2. \A v \in handler'[h].alone : role'[v] = role[v] /\ tag'[v] = tag[v]
    BY <2>1
  <2> QED
    BY <2>1, <2>2, CurrentAgrees, Zenon
<1>3. ASSUME NEW h \in Handlers, NEW g \in Handlers \ {h} PROVE Apart(handler'[h], handler'[g])
  <2>1. Apart(handler[h], handler[g])
    BY DEF TagsInv, HandlersFit
  <2>2. Apart(handler[g], handler'[h])
    BY <1>1, <2>1, ApartBothWays
  <2> QED
    BY <1>1, <2>2, ApartBothWays
<1>4. handler' \in [Handlers -> Handler]
  BY <1>1
<1> QED
  BY <1>1, <1>2, <1>3, <1>4 DEF HandlersFit

\* Members come and go (Join, LeaveChat), or apply anew (ApplyAs).
LEMMA EventFits ==
    ASSUME TagsInv, RecordsTypeOK, NEW u \in Members,
           \/ (Join(u) \/ LeaveChat(u)) /\ UNCHANGED role
           \/ \E r \in Roles : ApplyAs(u, r)
    PROVE  TagsInv'
<1>1. /\ handler' = [h \in Handlers |-> Disturb(handler[h], {u})] /\ UNCHANGED karma
      /\ inChat' \subseteq Members /\ joined' \subseteq Members
  BY DEF Join, LeaveChat, ApplyAs, TagsInv, TagsTypeOK
<1>2. /\ tag' \in [Members -> (Roles \X Int) \cup {NoTag}]
      /\ \A v \in Members \ {u} : role'[v] = role[v] /\ tag'[v] = tag[v]
  BY DEF Join, LeaveChat, ApplyAs, TagsInv, TagsTypeOK, RecordsTypeOK
<1> QED
  BY <1>1, <1>2, DisturbFits DEF TagsInv, TagsTypeOK

\* An update about a member is dropped (DropJoin).
LEMMA DropFits ==
    ASSUME TagsInv, UNCHANGED role, NEW u \in Members, DropJoin(u) PROVE TagsInv'
BY DEF DropJoin, TagsInv, TagsTypeOK, HandlersFit

\* A step of the other modules.
LEMMA IdleKeepsTags ==
    ASSUME TagsInv, UNCHANGED role, UNCHANGED tagVars PROVE TagsInv'
BY DEF tagVars, TagsInv, TagsTypeOK, HandlersFit

\* Nothing is under way at first (TagsInit).
LEMMA TagsInvInit == TagsInit => TagsInv
<1> SUFFICES ASSUME TagsInit PROVE TagsInv
  OBVIOUS
<1>1. handler \in [Handlers -> Handler] /\ \A h \in Handlers : handler[h] = Idle
  BY IdleIs DEF TagsInit
<1>2. HandlersFit
  BY <1>1, IdleFits DEF HandlersFit
<1> QED
  BY <1>1, <1>2 DEF TagsInit, TagsInv, TagsTypeOK

\* A handler that commits leaves the tags on record of everybody it tagged and did
\* so alone (TagOnRecord).
LEMMA EndShowsRecord ==
    ASSUME TagsInv, RecordsTypeOK, NEW h \in Handlers, End(h),
           NEW u \in handler[h].shown \cap handler[h].alone
    PROVE  tag'[u] = <<role'[u], karma'[u]>>
<1>1. /\ handler[h] \in Handler /\ OnCourse(handler[h])
      /\ Current(handler[h], role, karma, tag)
  BY DEF TagsInv, TagsTypeOK, HandlersFit
<1>2. tag' = tag /\ handler[h].at \in {"next", "end"} /\ u \in Members
  BY <1>1 DEF End, Finished, Handler
<1>3. tag[u] = <<handler[h].roles[u], IF handler[h].kind = "sync" THEN karma[u]
                                                                ELSE handler[h].points>>
  BY <1>1 DEF Current
<1>4. role'[u] = handler[h].roles[u]
  <2>1. CASE handler[h].kind = "role"
    BY <1>1, <1>2, <2>1, ConcernsOf DEF OnCourse, End, RecordsTypeOK
  <2>2. CASE handler[h].kind # "role"
    BY <1>1, <1>2, <2>2 DEF Current, OnCourse, End, Handler
  <2> QED
    BY <2>1, <2>2
<1>5. karma'[u] = IF handler[h].kind = "sync" THEN karma[u] ELSE handler[h].points
  <2>1. CASE handler[h].kind = "reaction"
    BY <1>1, <1>2, <2>1, ConcernsOf DEF OnCourse, End, TagsInv, TagsTypeOK
  <2>2. CASE handler[h].kind # "reaction"
    BY <1>1, <1>2, <2>2 DEF Current, OnCourse, End, Handler
  <2> QED
    BY <2>1, <2>2
<1> QED
  BY <1>2, <1>3, <1>4, <1>5
=============================================================================
