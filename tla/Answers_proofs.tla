---------------------------- MODULE Answers_proofs ----------------------------
(***************************************************************************)
(* The reservations' answers agree on the ARK of a client item, and every  *)
(* ARK in an answer was live for the request at some moment since it was   *)
(* sent.  The invariant says where a name stands, and for which item, from *)
(* the moment a session reads or writes it.  A request is refused only     *)
(* after as many foreign names as it has attempts: a registered name the   *)
(* counter has not passed is foreign, and each collision counts one.       *)
(* At the end, the refinement: the clients of Reservation see ArkRegistry. *)
(***************************************************************************)
EXTENDS Reservation_proofs, FiniteSetTheorems

----------------------------------------------------------------------------
\* A name is registered for item i, or was taken away from it.
Stands(db, n, i) == \E row \in db : row.name = n /\ row.item \in {i, None}

\* No client item has two live ARKs.
OneActive(db) ==
    \A x, y \in db : x.live /\ y.live /\ x.item = y.item /\ x.item # None => x = y

Wants(r, i) == \E k \in DOMAIN wanted[r] : wanted[r][k] = i

NamesOf(rows) == {row.name : row \in rows}

\* What a transaction has written is live and is for an item of the request.
OwnRows(r, own) == \A row \in own : row.live /\ Wants(r, row.item)

\* What session s of r has collected: names that stand for their item in db,
\* and that were seen live.
Collected(r, s, db, seen) ==
    /\ \A row \in s.known : Stands(db, row.name, row.item) /\ row.name \in seen
    /\ \A k \in DOMAIN s.results : s.results[k] # Failed =>
          Stands(db, s.results[k], wanted[r][k]) /\ s.results[k] \in seen

Seen(r) == witnessed[r] \cup NamesOf(session[r].own)

AnswerStands(r) ==
    \A k \in Given(r) : /\ Stands(records, answer[r][k], wanted[r][k])
                        /\ answer[r][k] \in witnessed[r]

\* The inductive invariant behind AnswersAgree and AnswersWereLive.
AInv ==
    \A r \in Request :
        /\ OneActive(Visible(r))
        /\ OwnRows(r, session[r].own)
        /\ Live(r) => Collected(r, session[r], Visible(r), Seen(r))
        /\ AnswerStands(r)

----------------------------------------------------------------------------
\* A request that goes on remembers what was live, and sees what is live now.
LEMMA WitnessGrows ==
  ASSUME NEW r \in Request, Witness, session'[r].phase # "idle"
  PROVE  /\ witnessed[r] \subseteq witnessed'[r]
         /\ session[r].phase \notin Over => LiveFor(r, records') \subseteq witnessed'[r]
  BY DEF Witness

\* A set of rows in which every name of another still stands.
Keeps(db, new) ==
    \A x \in db : \E y \in new : y.name = x.name /\ y.item \in {x.item, None}

LEMMA StandsKept ==
  ASSUME NEW db, NEW new, Keeps(db, new), NEW n, NEW i, Stands(db, n, i)
  PROVE  Stands(new, n, i)
  BY DEF Stands, Keeps

\* A step in which the session of q, its answer and the names it sees stay.
LEMMA OtherKeeps ==
  ASSUME AInv, NEW q \in Request, Witness,
         session'[q] = session[q], answer'[q] = answer[q],
         Keeps(records, records'),
         OneActive(Visible(q))'
  PROVE  (/\ OneActive(Visible(q))
          /\ OwnRows(q, session[q].own)
          /\ Live(q) => Collected(q, session[q], Visible(q), Seen(q))
          /\ AnswerStands(q))'
  <1>1. Keeps(Visible(q), Visible(q)')
    BY DEF Keeps, Visible
  <1>2. OwnRows(q, session[q].own)'
    BY DEF AInv, OwnRows, Wants
  <1>3. ASSUME Live(q) PROVE Collected(q, session[q], Visible(q), Seen(q))'
    <2>1. Seen(q) \subseteq Seen(q)'
      BY <1>3, WitnessGrows DEF Seen, Live
    <2>2. Collected(q, session[q], Visible(q), Seen(q))
      BY <1>3 DEF AInv
    <2> QED
      BY <1>1, <2>1, <2>2, StandsKept DEF Collected
  <1>4. AnswerStands(q)'
    <2>1. ASSUME NEW k \in Given(q) PROVE Stands(records', answer[q][k], wanted[q][k])
      BY StandsKept DEF AInv, AnswerStands
    <2>2. ASSUME NEW k \in Given(q) PROVE answer[q][k] \in witnessed'[q]
      BY WitnessGrows DEF AInv, AnswerStands, Given
    <2> QED
      BY <2>1, <2>2 DEF AnswerStands, Given
  <1> QED
    BY <1>2, <1>3, <1>4 DEF Live

\* A step of the transaction of r that commits no row and is not its answer.
LEMMA SessionAnswers ==
  ASSUME RInv, AInv, NEW r \in Request, NEW s, Witness,
         session' = [session EXCEPT ![r] = s],
         UNCHANGED <<records, answer>>,
         session[r].phase \notin Over, s.phase # "answered",
         OneActive(records \cup s.own),
         OwnRows(r, s.own),
         s.phase \in {"open", "collided"} =>
             Collected(r, s, records \cup s.own,
                       witnessed[r] \cup LiveFor(r, records) \cup NamesOf(s.own))
  PROVE  AInv'
  <1>1. \A q \in Request : session'[q] = IF q = r THEN s ELSE session[q]
    BY DEF RInv, TypeOK
  <1>2. ASSUME NEW q \in Request, q # r
        PROVE  (/\ OneActive(Visible(q))
                /\ OwnRows(q, session[q].own)
                /\ Live(q) => Collected(q, session[q], Visible(q), Seen(q))
                /\ AnswerStands(q))'
    <2>1. OneActive(Visible(q))'
      <3>1. Visible(q)' = Visible(q)
        BY <1>1, <1>2 DEF Visible
      <3>2. OneActive(Visible(q))
        BY DEF AInv
      <3> QED
        BY <3>1, <3>2 DEF OneActive
    <2>2. Keeps(records, records')
      BY DEF Keeps
    <2> QED
      BY <1>1, <1>2, <2>1, <2>2, OtherKeeps
  <1>3. Visible(r)' = records \cup s.own
    BY <1>1 DEF Visible
  <1>4. OneActive(Visible(r))' /\ OwnRows(r, session[r].own)'
    BY <1>1, <1>3 DEF OneActive, OwnRows, Wants
  <1>5. ASSUME Live(r)' PROVE Collected(r, session[r], Visible(r), Seen(r))'
    <2>1. s.phase \in {"open", "collided"}
      BY <1>1, <1>5 DEF Live
    <2>2. witnessed[r] \cup LiveFor(r, records) \cup NamesOf(s.own) \subseteq Seen(r)'
      BY <1>1, <2>1, WitnessGrows DEF Seen
    <2> QED
      BY <1>1, <1>3, <2>1, <2>2 DEF Collected
  <1>6. AnswerStands(r)'
    BY <1>1 DEF AnswerStands, Given
  <1> QED
    BY <1>2, <1>4, <1>5, <1>6 DEF AInv

\* A step of another actor that changes committed rows and loses no name.
LEMMA RecordAnswers ==
  ASSUME AInv, Witness, UNCHANGED <<session, answer>>,
         Keeps(records, records'),
         \A x \in records' : x.item # None => x \in records \/ ~x.live
  PROVE  AInv'
  <1>1. ASSUME NEW q \in Request PROVE OneActive(Visible(q))'
    <2>1. OneActive(Visible(q))
      BY DEF AInv
    <2> QED
      BY <2>1 DEF OneActive, Visible
  <1> QED
    BY <1>1, OtherKeeps DEF AInv

LEMMA EnvironmentAnswers ==
  ASSUME RInv, AInv, Witness,
         \/ \E n \in Foreign : Import(n)
         \/ \E row \in records : Tombstone(row) \/ Takeover(row)
  PROVE  AInv'
  <1>1. CASE \E n \in Foreign : Import(n)
    <2>1. UNCHANGED <<session, answer>>
      BY <1>1 DEF Import
    <2>2. Keeps(records, records')
      BY <1>1 DEF Import, Keeps
    <2>3. \A x \in records' : x.item # None => x \in records
      BY <1>1 DEF Import
    <2> QED
      BY <2>1, <2>2, <2>3, RecordAnswers
  <1>2. ASSUME NEW row \in records, Tombstone(row) \/ Takeover(row)
        PROVE  AInv'
    <2>1. row \in Row
      BY DEF RInv, TypeOK
    <2>2. PICK new : /\ Change(row, new) /\ new.name = row.name
                     /\ \/ new.item = row.item /\ ~new.live
                        \/ new.item = None
      <3>1. CASE Tombstone(row)
        <4>1. /\ [row EXCEPT !.live = FALSE].name = row.name
              /\ [row EXCEPT !.live = FALSE].item = row.item
              /\ ~[row EXCEPT !.live = FALSE].live
          BY <2>1 DEF Row
        <4> QED
          BY <3>1, <4>1 DEF Tombstone
      <3>2. CASE Takeover(row)
        <4>1. /\ [row EXCEPT !.item = None, !.live = TRUE].name = row.name
              /\ [row EXCEPT !.item = None, !.live = TRUE].item = None
          BY <2>1 DEF Row
        <4> QED
          BY <3>2, <4>1 DEF Takeover
      <3> QED
        BY <1>2, <3>1, <3>2
    <2>3. UNCHANGED <<session, answer>> /\ records' = (records \ {row}) \cup {new}
      BY <2>2 DEF Change
    <2>4. Keeps(records, records')
      BY <2>2, <2>3 DEF Keeps
    <2>5. \A x \in records' : x.item # None => x \in records \/ ~x.live
      BY <2>2, <2>3
    <2> QED
      BY <2>3, <2>4, <2>5, RecordAnswers
  <1> QED
    BY <1>1, <1>2

----------------------------------------------------------------------------
LEMMA BeginAnswers ==
  ASSUME RInv, AInv, NEW r \in Request, Begin(r), Witness
  PROVE  AInv'
  <1> DEFINE s == [Idle EXCEPT !.phase = "open", !.known = Prefetch(r)]
  <1>1. s.own = {} /\ s.phase = "open" /\ s.known = Prefetch(r) /\ s.results = <<>>
    BY DEF Idle
  <1>2. /\ session' = [session EXCEPT ![r] = s]
        /\ UNCHANGED <<records, answer>> /\ session[r].phase = "idle"
    BY DEF Begin
  <1> HIDE DEF s
  <1>3. OneActive(records \cup s.own)
    <2>1. OneActive(Visible(r))
      BY DEF AInv
    <2> QED
      BY <1>1, <2>1 DEF OneActive, Visible
  <1>4. ASSUME NEW row \in Prefetch(r)
        PROVE  row \in records /\ row.name \in LiveFor(r, records)
    BY DEF Prefetch, Active, LiveFor
  <1>5. Collected(r, s, records \cup s.own,
                  witnessed[r] \cup LiveFor(r, records) \cup NamesOf(s.own))
    BY <1>1, <1>4 DEF Collected, Stands
  <1>6. OwnRows(r, s.own)
    BY <1>1 DEF OwnRows
  <1> QED
    BY <1>1, <1>2, <1>3, <1>5, <1>6, SessionAnswers DEF Over

\* A session that goes on: what it adds to its map and to its results stands
\* and has been seen live.
LEMMA MoreCollected ==
  ASSUME RInv, AInv, NEW r \in Request, Live(r), NEW s,
         session[r].own \subseteq s.own,
         NEW seen, witnessed[r] \cup NamesOf(s.own) \subseteq seen,
         \A row \in s.known : \/ row \in session[r].known
                              \/ row \in records \cup s.own /\ row.name \in seen,
         \A k \in DOMAIN s.results :
            \/ k \in DOMAIN session[r].results /\ s.results[k] = session[r].results[k]
            \/ s.results[k] = Failed
            \/ /\ Stands(records \cup s.own, s.results[k], wanted[r][k])
               /\ s.results[k] \in seen
  PROVE  Collected(r, s, records \cup s.own, seen)
  <1>1. Collected(r, session[r], Visible(r), Seen(r))
    BY DEF AInv
  <1>2. Keeps(Visible(r), records \cup s.own)
    BY DEF Keeps, Visible
  <1>3. Seen(r) \subseteq seen
    BY DEF Seen, NamesOf
  <1>4. \A row \in s.known : Stands(records \cup s.own, row.name, row.item) /\ row.name \in seen
    <2>1. ASSUME NEW row \in session[r].known
          PROVE  Stands(records \cup s.own, row.name, row.item) /\ row.name \in seen
      BY <1>1, <1>2, <1>3, StandsKept DEF Collected
    <2>2. ASSUME NEW row \in records \cup s.own
          PROVE  Stands(records \cup s.own, row.name, row.item)
      BY DEF Stands
    <2> QED
      BY <2>1, <2>2
  <1>5. ASSUME NEW k \in DOMAIN session[r].results, session[r].results[k] # Failed
        PROVE  /\ Stands(records \cup s.own, session[r].results[k], wanted[r][k])
               /\ session[r].results[k] \in seen
    BY <1>1, <1>2, <1>3, <1>5, StandsKept DEF Collected
  <1> QED
    BY <1>4, <1>5 DEF Collected

\* The session keeps its rows and its map, and every result is an old one, a
\* failure or the name of a row in the map.
LEMMA SameAnswers ==
  ASSUME RInv, AInv, NEW r \in Request, NEW s, Witness,
         session' = [session EXCEPT ![r] = s],
         UNCHANGED <<records, answer>>,
         session[r].phase \in InProgress, s.phase # "answered",
         s.own = session[r].own \/ s.own = {},
         s.phase \in {"open", "collided"} =>
            /\ Live(r) /\ s.own = session[r].own /\ s.known = session[r].known
            /\ \A k \in DOMAIN s.results :
                  \/ k \in DOMAIN session[r].results /\ s.results[k] = session[r].results[k]
                  \/ s.results[k] = Failed
                  \/ \E row \in s.known : row.name = s.results[k] /\ row.item = wanted[r][k]
  PROVE  AInv'
  <1> DEFINE seen == witnessed[r] \cup LiveFor(r, records) \cup NamesOf(s.own)
  <1>1. OneActive(records \cup s.own) /\ OwnRows(r, s.own)
    <2>1. OneActive(records \cup session[r].own) /\ OwnRows(r, session[r].own)
      BY DEF AInv, Visible
    <2>2. OneActive(records) /\ OwnRows(r, {})
      BY <2>1 DEF OneActive, OwnRows
    <2> QED
      BY <2>1, <2>2
  <1>2. ASSUME s.phase \in {"open", "collided"}
        PROVE  Collected(r, s, records \cup s.own, seen)
    <2>1. Collected(r, session[r], records \cup s.own, witnessed[r] \cup NamesOf(s.own))
      BY <1>2 DEF AInv, Visible, Seen
    <2>2. \A row \in s.known : /\ Stands(records \cup s.own, row.name, row.item)
                               /\ row.name \in witnessed[r] \cup NamesOf(s.own)
      BY <1>2, <2>1 DEF Collected
    <2>3. \A k \in DOMAIN s.results :
            \/ k \in DOMAIN session[r].results /\ s.results[k] = session[r].results[k]
            \/ s.results[k] = Failed
            \/ /\ Stands(records \cup s.own, s.results[k], wanted[r][k])
               /\ s.results[k] \in seen
      BY <1>2, <2>2
    <2> QED
      BY <1>2, <2>3, MoreCollected
  <1>3. session[r].phase \notin Over
    BY DEF InProgress, Over
  <1> HIDE DEF seen
  <1> QED
    BY <1>1, <1>2, <1>3, SessionAnswers DEF seen

LEMMA AnswerKnownAnswers ==
  ASSUME RInv, AInv, NEW r \in Request, AnswerKnown(r), Witness
  PROVE  AInv'
  <1>1. PICK row \in Known(r) : session' = [session EXCEPT ![r] = Answered(@, row.name)]
    BY DEF AnswerKnown
  <1> DEFINE t == Answered(session[r], row.name)
  <1>2. row \in session[r].known /\ row.name \in Nat /\ row.item = Current(r)
    BY SessionFacts DEF Known, Row
  <1>3. t \in Session /\ t.phase = session[r].phase /\ t.known = session[r].known
        /\ t.own = session[r].own
        /\ \A k \in DOMAIN t.results :
              \/ k \in DOMAIN session[r].results /\ t.results[k] = session[r].results[k]
              \/ k = Len(session[r].results) + 1 /\ t.results[k] = row.name
    BY <1>2, SessionFacts, AnsweredFacts
  <1>4. session' = [session EXCEPT ![r] = t]
    BY <1>1, SessionFacts DEF RInv, TypeOK
  <1>5. session[r].phase \in {"open", "broken"} /\ UNCHANGED <<records, answer>>
    BY DEF AnswerKnown
  <1> HIDE DEF t
  <1>6. \A k \in DOMAIN t.results :
            \/ k \in DOMAIN session[r].results /\ t.results[k] = session[r].results[k]
            \/ row.name = t.results[k] /\ row.item = wanted[r][k]
    BY <1>2, <1>3 DEF Current
  <1> QED
    BY <1>2, <1>3, <1>4, <1>5, <1>6, SameAnswers, ZenonT(60) DEF Live, InProgress

\* The new row is the only live one of its item, and is seen by its request.
LEMMA ReserveAnswers ==
  ASSUME RInv, AInv, NEW r \in Request, Reserve(r), Witness
  PROVE  AInv'
  <1> DEFINE n == NextValue(r)
             row == [name |-> n, item |-> Current(r), live |-> TRUE]
             a == Answered(session[r], row.name)
             t == Inserted(session[r], row)
             seen == witnessed[r] \cup LiveFor(r, records) \cup NamesOf(t.own)
  <1>1. /\ n \in Nat /\ Wants(r, Current(r))
        /\ session[r].phase = "open" /\ UNCHANGED <<records, answer>>
        /\ Active(Visible(r), Current(r)) = {}
    BY SessionFacts, CurrentType DEF Reserve, Allocating, Collides, Wants, Current, RInv
  <1>2. row \in Row /\ row.name = n /\ row.item = Current(r) /\ row.live
    BY <1>1, CurrentType DEF Row, Reserve, Allocating, RInv
  <1>3. a \in Session /\ a.phase = session[r].phase /\ a.known = session[r].known
        /\ a.own = session[r].own
        /\ \A k \in DOMAIN a.results :
              \/ k \in DOMAIN session[r].results /\ a.results[k] = session[r].results[k]
              \/ k = Len(session[r].results) + 1 /\ a.results[k] = n
    BY <1>1, <1>2, SessionFacts, AnsweredFacts
  <1>4. /\ t.phase = a.phase /\ t.own = a.own \cup {row} /\ t.results = a.results
        /\ t.known \subseteq a.known \cup {row}
    <2> HIDE DEF row, n
    <2> QED
      BY <1>2, SessionFacts, InsertedFacts
  <1>5. session' = [session EXCEPT ![r] = t]
    BY SessionFacts DEF Reserve, RInv, TypeOK
  <1> HIDE DEF t, a, row, n
  <1>6. OneActive(records \cup t.own)
    <2>1. OneActive(Visible(r)) /\ records \cup t.own = Visible(r) \cup {row}
      BY <1>3, <1>4 DEF AInv, Visible
    <2>2. \A x \in Visible(r) : x.live /\ x.item # None => x.item # row.item
      BY <1>1, <1>2 DEF Active
    <2> QED
      BY <2>1, <2>2 DEF OneActive
  <1>7. OwnRows(r, t.own)
    BY <1>1, <1>2, <1>3, <1>4 DEF AInv, OwnRows
  <1>8. Live(r)
    BY <1>1 DEF Live
  <1>9. n \in NamesOf(t.own) /\ Stands(records \cup t.own, n, Current(r))
    BY <1>2, <1>3, <1>4 DEF NamesOf, Stands
  <1>10. \A k \in DOMAIN t.results :
            \/ k \in DOMAIN session[r].results /\ t.results[k] = session[r].results[k]
            \/ /\ Stands(records \cup t.own, t.results[k], wanted[r][k])
               /\ t.results[k] \in seen
    BY <1>3, <1>4, <1>9 DEF Current
  <1>11. \A x \in t.known : \/ x \in session[r].known
                            \/ x \in records \cup t.own /\ x.name \in seen
    BY <1>2, <1>3, <1>4, <1>9
  <1>12. session[r].own \subseteq t.own
    BY <1>3, <1>4
  <1>13. Collected(r, t, records \cup t.own, seen)
    BY <1>8, <1>10, <1>11, <1>12, MoreCollected
  <1> HIDE DEF seen
  <1> QED
    BY <1>1, <1>3, <1>4, <1>5, <1>6, <1>7, <1>13, SessionAnswers DEF seen, Over

LEMMA CollidesAnswers ==
  ASSUME RInv, AInv, NEW r \in Request, BatchCollides(r) \/ SingleCollides(r), Witness
  PROVE  AInv'
  <1>1. /\ UNCHANGED <<records, answer>> /\ session[r].phase = "open"
        /\ session[r] \in Session
    BY SessionFacts DEF BatchCollides, SingleCollides, Allocating
  <1>2. PICK t : /\ session' = [session EXCEPT ![r] = t]
                 /\ t.own = session[r].own \/ t.own = {}
                 /\ t.phase # "answered"
                 /\ t.phase \in {"open", "collided"} =>
                      /\ t.own = session[r].own /\ t.known = session[r].known
                      /\ t.results = session[r].results
    <2>1. CASE BatchCollides(r)
      <3> DEFINE t == [session[r] EXCEPT !.phase = "collided", !.next = NextValue(r) + 1]
      <3>1. /\ t.phase = "collided" /\ t.own = session[r].own
            /\ t.known = session[r].known /\ t.results = session[r].results
        BY <1>1 DEF Session
      <3>2. session' = [session EXCEPT ![r] = t]
        BY <2>1 DEF BatchCollides
      <3> HIDE DEF t
      <3> QED
        BY <3>1, <3>2
    <2>2. CASE SingleCollides(r) /\ session[r].attempt + 1 < MaxRetries
      <3> DEFINE t == [session[r] EXCEPT !.attempt = session[r].attempt + 1]
      <3>1. /\ t.phase = "open" /\ t.own = session[r].own
            /\ t.known = session[r].known /\ t.results = session[r].results
        BY <1>1 DEF Session
      <3>2. session' = [session EXCEPT ![r] = t]
        BY <2>2 DEF SingleCollides
      <3> HIDE DEF t
      <3> QED
        BY <3>1, <3>2
    <2>3. CASE SingleCollides(r) /\ ~(session[r].attempt + 1 < MaxRetries)
      <3> DEFINE t == [Idle EXCEPT !.phase = "refused"]
      <3>1. t.phase = "refused" /\ t.own = {}
        BY DEF Idle
      <3>2. session' = [session EXCEPT ![r] = t]
        BY <2>3 DEF SingleCollides
      <3> HIDE DEF t
      <3> QED
        BY <3>1, <3>2
    <2> QED
      BY <2>1, <2>2, <2>3
  <1> QED
    BY <1>1, <1>2, SameAnswers DEF Live, InProgress

\* The transaction of r is rolled back, or had been.
LEMMA RollbackAnswers ==
  ASSUME RInv, AInv, NEW r \in Request, Abort(r) \/ Break(r) \/ FailItem(r), Witness
  PROVE  AInv'
  <1> DEFINE a == Answered(session[r], Failed)
  <1>1. UNCHANGED <<records, answer>> /\ session[r].phase \in InProgress
    BY DEF Abort, Break, FailItem, InProgress
  <1>2. a \in Session /\ a.phase = session[r].phase /\ a.own = session[r].own
    BY SessionFacts, AnsweredFacts
  <1>3. CASE Abort(r)
    <2>1. Idle.phase = "idle" /\ Idle.own = {} /\ session' = [session EXCEPT ![r] = Idle]
      BY <1>3 DEF Idle, Abort
    <2> QED
      BY <1>1, <2>1, SameAnswers
  <1>4. CASE FailItem(r)
    <2>1. session' = [session EXCEPT ![r] = a] /\ a.phase = "broken"
      BY <1>2, <1>4 DEF FailItem
    <2> HIDE DEF a
    <2> QED
      BY <1>1, <1>2, <2>1, SameAnswers
  <1>5. CASE Break(r)
    <2> DEFINE t == [a EXCEPT !.phase = "broken", !.own = {}]
    <2>1. session' = [session EXCEPT ![r] = t]
      BY <1>5 DEF Break
    <2> HIDE DEF a
    <2>2. t.phase = "broken" /\ t.own = {}
      BY <1>2 DEF Session
    <2> HIDE DEF t
    <2> QED
      BY <1>1, <2>1, <2>2, SameAnswers
  <1> QED
    BY <1>3, <1>4, <1>5

\* The row that is found was committed, and live, or is the request's own.
LEMMA RereadAnswers ==
  ASSUME RInv, AInv, NEW r \in Request, Reread(r), Witness
  PROVE  AInv'
  <1>1. /\ session[r].phase = "collided" /\ Live(r) /\ ~Finished(r)
        /\ UNCHANGED <<records, answer>> /\ "open" \in Phase
    BY DEF Reread, Live, RInv, Within, Phase, InProgress
  <1>2. ASSUME NEW row \in Active(Visible(r), Current(r)),
               session' = [session EXCEPT ![r] = Found(@, row)]
        PROVE  AInv'
    <2> DEFINE a == Answered(session[r], row.name)
               t == Found(session[r], row)
               seen == witnessed[r] \cup LiveFor(r, records) \cup NamesOf(t.own)
    <2>1. row \in Visible(r) /\ row \in Row /\ row.name \in Nat
          /\ row.item = Current(r) /\ row.live
      BY SessionFacts DEF Active, Row
    <2>2. a \in Session /\ a.known = session[r].known /\ a.own = session[r].own
          /\ \A k \in DOMAIN a.results :
              \/ k \in DOMAIN session[r].results /\ a.results[k] = session[r].results[k]
              \/ k = Len(session[r].results) + 1 /\ a.results[k] = row.name
      BY <2>1, SessionFacts, AnsweredFacts
    <2>3. /\ t.phase = "open" /\ t.own = a.own
          /\ t.results = a.results /\ t.known = a.known \cup {row}
      BY <2>1, SessionFacts, FoundFacts
    <2>4. session' = [session EXCEPT ![r] = t]
      BY <1>2
    <2> HIDE DEF a, t
    <2>5. row \in records \cup t.own /\ row.name \in seen
      <3>1. Wants(r, Current(r))
        BY <1>1, CurrentType DEF Wants, Current, RInv
      <3>2. CASE row \in records
        BY <2>1, <3>1, <3>2 DEF LiveFor, Wants
      <3>3. CASE row \in session[r].own
        BY <2>2, <2>3, <3>3 DEF NamesOf
      <3> QED
        BY <2>1, <2>2, <2>3, <3>2, <3>3 DEF Visible
    <2>6. \A k \in DOMAIN t.results :
            \/ k \in DOMAIN session[r].results /\ t.results[k] = session[r].results[k]
            \/ /\ Stands(records \cup t.own, t.results[k], wanted[r][k])
               /\ t.results[k] \in seen
      BY <2>1, <2>2, <2>3, <2>5 DEF Stands, Current
    <2>7. \A x \in t.known : \/ x \in session[r].known
                             \/ x \in records \cup t.own /\ x.name \in seen
      BY <2>2, <2>3, <2>5
    <2>8. Collected(r, t, records \cup t.own, seen)
      BY <1>1, <2>2, <2>3, <2>6, <2>7, MoreCollected
    <2>9. OneActive(records \cup t.own) /\ OwnRows(r, t.own)
      BY <2>2, <2>3 DEF AInv, Visible
    <2> HIDE DEF seen
    <2> QED
      BY <1>1, <2>3, <2>4, <2>8, <2>9, SessionAnswers DEF seen, Over
  <1>3. ASSUME session[r].attempt + 1 < MaxRetries,
               session' = [session EXCEPT ![r] =
                     [@ EXCEPT !.phase = "open", !.attempt = session[r].attempt + 1]]
        PROVE  AInv'
    <2> DEFINE t == [session[r] EXCEPT !.phase = "open",
                                       !.attempt = session[r].attempt + 1]
    <2>1. /\ t.phase = "open" /\ t.own = session[r].own
          /\ t.known = session[r].known /\ t.results = session[r].results
      BY SessionFacts DEF Session
    <2>2. session' = [session EXCEPT ![r] = t]
      BY <1>3
    <2> HIDE DEF t
    <2> QED
      BY <1>1, <2>1, <2>2, SameAnswers DEF InProgress
  <1>4. ASSUME session' = [session EXCEPT ![r] =
                     [Answered(@, Failed) EXCEPT !.phase = "open"]]
        PROVE  AInv'
    <2> DEFINE a == Answered(session[r], Failed)
               t == [a EXCEPT !.phase = "open"]
    <2>1. a \in Session /\ a.known = session[r].known /\ a.own = session[r].own
          /\ \A k \in DOMAIN a.results :
              \/ k \in DOMAIN session[r].results /\ a.results[k] = session[r].results[k]
              \/ a.results[k] = Failed
      BY SessionFacts, AnsweredFacts
    <2>2. session' = [session EXCEPT ![r] = t]
      BY <1>4
    <2> HIDE DEF a
    <2>3. /\ t.phase = "open" /\ t.own = a.own
          /\ t.results = a.results /\ t.known = a.known
      BY <2>1 DEF Session
    <2> HIDE DEF t
    <2> QED
      BY <1>1, <2>1, <2>2, <2>3, SameAnswers DEF InProgress
  <1> QED
    BY <1>2, <1>3, <1>4 DEF Reread

\* The rows become visible, and are witnessed, in the step that answers them.
LEMMA CommitAnswers ==
  ASSUME RInv, AInv, NEW r \in Request, Commit(r), Witness
  PROVE  AInv'
  <1>1. /\ session[r].phase \in {"open", "broken"} /\ records' = Visible(r)
        /\ session[r].own # {} => holder = r
    BY DEF Commit, Respond, Visible, RInv, LockProtects
  <1>2. ASSUME NEW q \in Request, q # r
        PROVE  session'[q] = session[q] /\ answer'[q] = answer[q]
    BY <1>2 DEF Commit, Respond, RInv, TypeOK
  <1>3. /\ session'[r].own = {} /\ ~Live(r)'
        /\ session'[r].phase = "answered" =>
              session[r].phase = "open" /\ answer'[r] = session[r].results
    <2>1. \A ph : /\ [Idle EXCEPT !.phase = ph].phase = ph
                  /\ [Idle EXCEPT !.phase = ph].own = {}
      BY DEF Idle
    <2>2. Idle.phase = "idle" /\ Idle.own = {}
      BY DEF Idle
    <2>3. CASE /\ answer' = [answer EXCEPT ![r] = session[r].results]
               /\ session' = [session EXCEPT ![r] = [Idle EXCEPT !.phase =
                    IF session[r].phase = "open" THEN "answered" ELSE "misled"]]
      <3>1. /\ session'[r].phase = IF session[r].phase = "open" THEN "answered" ELSE "misled"
            /\ session'[r].own = {}
        BY <2>1, <2>3 DEF RInv, TypeOK
      <3>2. answer'[r] = session[r].results
        BY <2>3 DEF RInv, TypeOK
      <3> QED
        BY <3>1, <3>2 DEF Live
    <2>4. CASE session' = [session EXCEPT ![r] = Idle]
      BY <2>2, <2>4 DEF Live, RInv, TypeOK
    <2> QED
      BY <2>3, <2>4 DEF Commit, Respond
  <1>4. Keeps(records, records')
    BY <1>1 DEF Keeps, Visible
  <1>5. OneActive(records')
    BY <1>1 DEF AInv
  <1>6. ASSUME NEW q \in Request, q # r
        PROVE  (/\ OneActive(Visible(q))
                /\ OwnRows(q, session[q].own)
                /\ Live(q) => Collected(q, session[q], Visible(q), Seen(q))
                /\ AnswerStands(q))'
    <2>1. session[r].own = {} \/ session[q].own = {}
      BY <1>1, <1>6 DEF RInv, LockProtects
    <2>2. Visible(q)' = records' \/ Visible(q)' = Visible(q)
      BY <1>1, <1>2, <1>6, <2>1 DEF Visible
    <2>3. OneActive(Visible(q))
      BY DEF AInv
    <2>4. OneActive(Visible(q))'
      BY <1>5, <2>2, <2>3 DEF OneActive
    <2> QED
      BY <1>2, <1>4, <1>6, <2>4, OtherKeeps
  <1>7. OneActive(Visible(r))' /\ OwnRows(r, session[r].own)'
    BY <1>3, <1>5 DEF OneActive, OwnRows, Visible
  <1>8. AnswerStands(r)'
    <2> SUFFICES ASSUME session'[r].phase = "answered"
                 PROVE  AnswerStands(r)'
      BY DEF AnswerStands, Given
    <2>1. /\ session[r].phase = "open" /\ answer'[r] = session[r].results
          /\ session[r].phase \notin Over
      BY <1>3 DEF Over
    <2>2. Collected(r, session[r], records', Seen(r))
      BY <1>1, <2>1 DEF AInv, Live
    <2>3. Seen(r) \subseteq witnessed'[r]
      <3>1. witnessed[r] \subseteq witnessed'[r] /\ LiveFor(r, records') \subseteq witnessed'[r]
        BY <2>1, WitnessGrows
      <3>2. NamesOf(session[r].own) \subseteq LiveFor(r, records')
        <4>1. OwnRows(r, session[r].own)
          BY DEF AInv
        <4> QED
          BY <1>1, <4>1 DEF NamesOf, LiveFor, OwnRows, Wants, Visible
      <3> QED
        BY <3>1, <3>2 DEF Seen
    <2>4. \A k \in DOMAIN session[r].results : session[r].results[k] # Failed =>
             /\ Stands(records', session[r].results[k], wanted[r][k])
             /\ session[r].results[k] \in witnessed'[r]
      BY <2>2, <2>3 DEF Collected
    <2> QED
      BY <2>1, <2>4 DEF AnswerStands, Given
  <1> QED
    BY <1>3, <1>6, <1>7, <1>8 DEF AInv

----------------------------------------------------------------------------
THEOREM AnswersNext == RInv /\ AInv /\ [Next]_vars => AInv'
  <1> SUFFICES ASSUME RInv, AInv, [Next]_vars PROVE AInv'
    OBVIOUS
  <1>1. CASE Next
    <2>1. ASSUME NEW r \in Request, Begin(r), Witness PROVE AInv'
      BY <2>1, BeginAnswers
    <2>2. ASSUME NEW r \in Request, Handle(r), Witness PROVE AInv'
      BY <2>2, AnswerKnownAnswers, ReserveAnswers, CollidesAnswers, RereadAnswers,
         CommitAnswers, RollbackAnswers DEF Handle
    <2>3. ASSUME NEW r \in Request, Break(r) \/ Abort(r), Witness PROVE AInv'
      BY <2>3, RollbackAnswers
    <2> QED
      BY <1>1, <2>1, <2>2, <2>3, EnvironmentAnswers DEF Next, Step
  <1>2. CASE UNCHANGED vars
    BY <1>2 DEF vars, AInv, OneActive, Visible, OwnRows, Wants, Live, Collected,
                Stands, Seen, NamesOf, AnswerStands, Given
  <1> QED
    BY <1>1, <1>2

\* What sessions have collected and answered stands, and was seen live.
THEOREM AnswersInductive == Spec => []AInv
  <1>1. Init => AInv
    BY DEF Init, AInv, OneActive, Visible, OwnRows, Live, AnswerStands, Given, Idle
  <1> QED
    BY <1>1, RInductive, AnswersNext, PTL DEF Spec

\* Every ARK in an answer was live for one of the request's items at some
\* moment between the request and its answer.
THEOREM AnsweredWasLive == Spec => []AnswersWereLive
  <1>1. AInv => AnswersWereLive
    BY DEF AInv, AnswerStands, AnswersWereLive
  <1> QED
    BY <1>1, AnswersInductive, PTL

\* The same client item has the same ARK in every answer, unless one of the
\* two has been deleted or taken over since.
THEOREM OneArkPerItem == Spec => []AnswersAgree
  <1>1. AInv => AnswersAgree
    <2> SUFFICES ASSUME AInv, NEW r \in Request, NEW q \in Request,
                        NEW j \in Given(r), NEW k \in Given(q),
                        wanted[r][j] = wanted[q][k], wanted[r][j] # None,
                        answer[r][j] # answer[q][k]
                 PROVE  \E row \in records :
                           /\ row.name \in {answer[r][j], answer[q][k]}
                           /\ ~row.live \/ row.item = None
      BY DEF AnswersAgree
    <2>1. PICK x \in records : /\ x.name = answer[r][j]
                               /\ x.item \in {wanted[r][j], None}
      BY DEF AInv, AnswerStands, Stands
    <2>2. PICK y \in records : /\ y.name = answer[q][k]
                               /\ y.item \in {wanted[r][j], None}
      BY DEF AInv, AnswerStands, Stands
    <2>3. OneActive(records)
      BY DEF AInv, OneActive, Visible
    <2> QED
      BY <2>1, <2>2, <2>3 DEF OneActive
  <1> QED
    BY <1>1, AnswersInductive, PTL

----------------------------------------------------------------------------
\* The registered foreign names that the counter has passed: those on which
\* reservations may have collided.
Met == {n \in Foreign : n < counter /\ HasName(records, n)}

\* A session's rows have numbers it has allocated, and a request to POST /arks
\* has met a foreign name for each of its attempts.
CrowdOf(r) ==
    /\ IsFiniteSet(session[r].own)
    /\ \A row \in session[r].own : row.name < session[r].next
    /\ holder = r => Live(r) /\ counter <= session[r].next
    /\ r \in Single => session[r].phase # "collided"
    /\ r \in Single /\ session[r].phase = "open" => session[r].attempt <= Cardinality(Met)
    /\ session[r].phase = "refused" => MaxRetries <= Cardinality(Met)

\* The inductive invariant behind RefusedOnlyWhenCrowded: a name that the
\* counter has not reached is foreign.
CrowdInv ==
    /\ IsFiniteSet(records)
    /\ \A row \in records : row.name \in Foreign \/ row.name < counter
    /\ \A r \in Request : CrowdOf(r)

LEMMA MetFinite ==
  ASSUME counter \in Nat
  PROVE  IsFiniteSet(Met) /\ Cardinality(Met) \in Nat
  <1>1. ASSUME NEW n \in Met PROVE n \in 0..counter
    <2>1. n \in Foreign /\ n < counter
      BY DEF Met
    <2>2. n \in Nat
      BY <2>1, BoundAssumption
    <2> QED
      BY <2>1, <2>2
  <1>2. IsFiniteSet(0..counter)
    BY FS_Interval
  <1> QED
    BY <1>1, <1>2, FS_Subset, FS_CardinalityType

\* The counter only moves on, and no name is forgotten.
Onward == /\ counter \in Nat /\ counter' \in Nat /\ counter <= counter'
          /\ \A n : HasName(records, n) => HasName(records', n)

LEMMA MetGrows ==
  ASSUME Onward
  PROVE  /\ Met \subseteq Met'
         /\ IsFiniteSet(Met) /\ Cardinality(Met) \in Nat
         /\ IsFiniteSet(Met') /\ Cardinality(Met') \in Nat
         /\ Cardinality(Met) <= Cardinality(Met')
  <1>1. Met \subseteq Met'
    <2> SUFFICES ASSUME NEW n \in Met PROVE n \in Met'
      OBVIOUS
    <2>1. n \in Foreign /\ n < counter /\ HasName(records, n)
      BY DEF Met
    <2>2. n \in Nat
      BY <2>1, BoundAssumption
    <2>3. n < counter'
      BY <2>1, <2>2 DEF Onward
    <2>4. HasName(records', n)
      BY <2>1 DEF Onward
    <2>5. Met' = {m \in Foreign : m < counter' /\ HasName(records', m)}
      BY DEF Met, HasName
    <2> QED
      BY <2>1, <2>3, <2>4, <2>5
  <1>2. IsFiniteSet(Met) /\ Cardinality(Met) \in Nat
    BY MetFinite DEF Onward
  <1>3. ASSUME NEW n \in Met' PROVE n \in 0..counter'
    <2>1. n \in Foreign /\ n < counter'
      BY DEF Met
    <2>2. n \in Nat
      BY <2>1, BoundAssumption
    <2> QED
      BY <2>1, <2>2 DEF Onward
  <1>4. IsFiniteSet(0..counter')
    BY FS_Interval DEF Onward
  <1>5. IsFiniteSet(Met')
    BY <1>3, <1>4, FS_Subset
  <1> QED
    BY <1>1, <1>2, <1>5, FS_Subset, FS_CardinalityType

\* A step that leaves the session of q alone.
LEMMA OtherCrowd ==
  ASSUME RInv, CrowdInv, NEW q \in Request, Onward,
         session'[q] = session[q],
         holder' = q => holder = q /\ counter' = counter
  PROVE  CrowdOf(q)'
  <1>1. CrowdOf(q) /\ session[q] \in Session
    BY SessionFacts DEF CrowdInv
  <1>2. session[q].attempt \in Nat /\ MaxRetries \in Nat
    BY <1>1, BoundAssumption DEF Session
  <1> QED
    BY <1>1, <1>2, MetGrows DEF CrowdOf, Live

\* A step of the transaction of r that ends neither in a commit nor in a refusal.
LEMMA SessionCrowd ==
  ASSUME RInv, CrowdInv, NEW r \in Request, NEW s \in Session,
         session' = [session EXCEPT ![r] = s],
         records' = records, counter' = counter,
         holder' \in {holder, r, None},
         IsFiniteSet(s.own),
         \A row \in s.own : row.name < s.next,
         holder' = r => s.phase \in {"open", "collided"} /\ counter <= s.next,
         r \in Single => s.phase # "collided",
         r \in Single /\ s.phase = "open" => s.attempt <= Cardinality(Met),
         s.phase # "refused"
  PROVE  CrowdInv'
  <1>1. \A q \in Request : session'[q] = IF q = r THEN s ELSE session[q]
    BY DEF RInv, TypeOK
  <1>2. Onward
    BY SessionFacts DEF Onward
  <1>3. ASSUME NEW q \in Request, q # r PROVE CrowdOf(q)'
    BY <1>1, <1>2, <1>3, RequestAssumption, OtherCrowd
  <1>4. CrowdOf(r)'
    <2>1. Met' = Met
      BY DEF Met, HasName
    <2> QED
      BY <1>1, <2>1 DEF CrowdOf, Live
  <1>5. IsFiniteSet(records') /\ \A row \in records' : row.name \in Foreign \/ row.name < counter'
    BY DEF CrowdInv
  <1> QED
    BY <1>3, <1>4, <1>5 DEF CrowdInv

\* What the operations on a session do to its attempt and its counter.
LEMMA AttemptFacts ==
  ASSUME NEW s \in Session, NEW x \in Nat \cup {Failed}, NEW row \in Row
  PROVE  /\ Answered(s, x).attempt = 0 /\ Answered(s, x).next = s.next
         /\ Found(s, row).attempt = 0 /\ Found(s, row).next = s.next
         /\ Inserted(s, row).attempt = 0 /\ Inserted(s, row).next = row.name + 1
  <1>1. Answered(s, x) \in Session /\ Answered(s, row.name) \in Session
    BY AnsweredFacts DEF Row
  <1>2. \A y : /\ Answered(s, y).attempt = 0 /\ Answered(s, y).next = s.next
    BY DEF Answered, Session
  <1>3. Found(s, row).attempt = 0 /\ Found(s, row).next = s.next
    <2> DEFINE a == Answered(s, row.name)
    <2>1. Found(s, row) = [a EXCEPT !.phase = "open", !.known = a.known \cup {row}]
      BY DEF Found
    <2>2. a \in Session /\ a.attempt = 0 /\ a.next = s.next
      BY <1>1, <1>2
    <2> HIDE DEF a
    <2> QED
      BY <2>1, <2>2 DEF Session
  <1>4. Inserted(s, row).attempt = 0 /\ Inserted(s, row).next = row.name + 1
    <2> DEFINE a == Answered(s, row.name)
    <2>1. Inserted(s, row) = [a EXCEPT !.own = a.own \cup {row}, !.next = row.name + 1,
              !.known = IF row.item = None THEN a.known ELSE a.known \cup {row}]
      BY DEF Inserted
    <2>2. a \in Session /\ a.attempt = 0 /\ a.next = s.next
      BY <1>1, <1>2
    <2> HIDE DEF a
    <2> QED
      BY <2>1, <2>2 DEF Session
  <1> QED
    BY <1>2, <1>3, <1>4

LEMMA BeginCrowd ==
  ASSUME RInv, CrowdInv, NEW r \in Request, Begin(r)
  PROVE  CrowdInv'
  <1> DEFINE s == [Idle EXCEPT !.phase = "open", !.known = Prefetch(r)]
  <1>1. /\ s.own = {} /\ s.phase = "open" /\ s.attempt = 0
        /\ session' = [session EXCEPT ![r] = s]
    BY DEF Idle, Begin
  <1>2. s \in Session
    <2>1. Prefetch(r) \subseteq Row /\ "open" \in Phase
      BY DEF Prefetch, RInv, TypeOK, Phase, InProgress
    <2> QED
      BY <2>1, IdleType DEF Session
  <1>3. /\ UNCHANGED <<records, counter, holder>> /\ holder # r
    BY DEF Begin, CrowdInv, CrowdOf, Live
  <1> HIDE DEF s
  <1>4. IsFiniteSet(s.own) /\ Cardinality(Met) \in Nat
    <2>1. counter \in Nat
      BY SessionFacts
    <2> QED
      BY <1>1, <2>1, FS_EmptySet, MetFinite
  <1>5. s.attempt <= Cardinality(Met) /\ (\A row \in s.own : row.name < s.next)
    BY <1>1, <1>4
  <1>6. holder' \in {holder, r, None} /\ holder' # r
    BY <1>3
  <1> QED
    BY <1>1, <1>2, <1>3, <1>4, <1>5, <1>6, SessionCrowd

\* A session that appends a result keeps its rows and its numbers.
LEMMA AnswerCrowd ==
  ASSUME RInv, CrowdInv, NEW r \in Request, AnswerKnown(r) \/ FailItem(r)
  PROVE  CrowdInv'
  <1>1. PICK x \in Nat \cup {Failed} : session' = [session EXCEPT ![r] = Answered(@, x)]
    BY SessionFacts DEF AnswerKnown, FailItem, Known, Row
  <1> DEFINE t == Answered(session[r], x)
  <1>2. [name |-> 0, item |-> None, live |-> TRUE] \in Row
    BY DEF Row
  <1>3. /\ t \in Session /\ t.phase = session[r].phase /\ t.own = session[r].own
        /\ t.attempt = 0 /\ t.next = session[r].next
    BY <1>2, SessionFacts, AnsweredFacts, AttemptFacts
  <1>4. session' = [session EXCEPT ![r] = t] /\ UNCHANGED <<records, counter, holder>>
    BY <1>1 DEF AnswerKnown, FailItem
  <1>5. session[r].phase \in {"open", "broken"}
    BY DEF AnswerKnown, FailItem
  <1>6. CrowdOf(r) /\ 0 <= Cardinality(Met)
    BY SessionFacts, MetFinite DEF CrowdInv
  <1> HIDE DEF t
  <1> QED
    BY <1>3, <1>4, <1>5, <1>6, SessionCrowd DEF CrowdOf, Live

\* The next number is one that the counter has not passed.
LEMMA NextIsOnward ==
  ASSUME RInv, CrowdInv, NEW r \in Request
  PROVE  /\ NextValue(r) \in Nat /\ counter \in Nat /\ counter <= NextValue(r)
         /\ session[r].next \in Nat
         /\ holder = r => NextValue(r) = session[r].next
         /\ holder # r => session[r].own = {}
  <1>1. session[r].next \in Nat /\ counter \in Nat
    BY SessionFacts DEF Session
  <1>2. CrowdOf(r)
    BY DEF CrowdInv
  <1> QED
    BY <1>1, <1>2 DEF NextValue, CrowdOf, RInv, LockProtects

LEMMA ReserveCrowd ==
  ASSUME RInv, CrowdInv, NEW r \in Request, Reserve(r)
  PROVE  CrowdInv'
  <1> DEFINE n == NextValue(r)
             row == [name |-> n, item |-> Current(r), live |-> TRUE]
             a == Answered(session[r], row.name)
             t == Inserted(session[r], row)
  <1>1. /\ n \in Nat /\ session[r].phase = "open"
        /\ UNCHANGED <<records, counter>> /\ holder' = r
    BY SessionFacts DEF Reserve, Allocating
  <1>2. row \in Row /\ row.name = n
    BY <1>1, CurrentType DEF Row, Reserve, Allocating, RInv
  <1>3. a \in Session /\ a.phase = session[r].phase /\ a.own = session[r].own
    BY <1>1, <1>2, SessionFacts, AnsweredFacts
  <1>4. /\ t \in Session /\ t.phase = a.phase /\ t.own = a.own \cup {row}
        /\ t.attempt = 0 /\ t.next = n + 1
    <2> HIDE DEF row, n
    <2> QED
      BY <1>2, SessionFacts, InsertedFacts, AttemptFacts
  <1>5. session' = [session EXCEPT ![r] = t]
    BY SessionFacts DEF Reserve, RInv, TypeOK
  <1>6. /\ counter <= n /\ counter \in Nat
        /\ holder = r => n = session[r].next
        /\ holder # r => session[r].own = {}
    BY NextIsOnward
  <1>7. CrowdOf(r) /\ 0 <= Cardinality(Met)
    BY SessionFacts, MetFinite DEF CrowdInv
  <1>8. session[r].own \subseteq Row
    BY SessionFacts
  <1> HIDE DEF t, a, row, n
  <1>9. IsFiniteSet(t.own)
    BY <1>3, <1>4, <1>7, FS_AddElement DEF CrowdOf
  <1>10. \A x \in t.own : x.name < t.next
    <2>1. ASSUME NEW x \in session[r].own PROVE x.name < t.next
      <3>1. x.name \in Nat /\ x.name < session[r].next /\ n = session[r].next
        BY <1>6, <1>7, <1>8 DEF CrowdOf, Row
      <3> QED
        BY <1>1, <1>4, <3>1
    <2>2. row.name < t.next
      BY <1>1, <1>2, <1>4
    <2> QED
      BY <1>3, <1>4, <2>1, <2>2
  <1>11. counter <= t.next
    BY <1>1, <1>4, <1>6
  <1> QED
    BY <1>1, <1>3, <1>4, <1>5, <1>7, <1>9, <1>10, <1>11, SessionCrowd

LEMMA BatchCollidesCrowd ==
  ASSUME RInv, CrowdInv, NEW r \in Request, BatchCollides(r)
  PROVE  CrowdInv'
  <1> DEFINE t == [session[r] EXCEPT !.phase = "collided", !.next = NextValue(r) + 1]
  <1>1. NextValue(r) + 1 \in Nat /\ "collided" \in Phase
    BY SessionFacts DEF Phase, InProgress
  <1>2. /\ t \in Session /\ t.phase = "collided" /\ t.own = session[r].own
        /\ t.next = NextValue(r) + 1
    BY <1>1, SessionFacts DEF Session
  <1>3. /\ session' = [session EXCEPT ![r] = t] /\ r \notin Single
        /\ UNCHANGED <<records, counter>> /\ holder' = r
    BY DEF BatchCollides
  <1>4. CrowdOf(r) /\ session[r].own \subseteq Row
    BY SessionFacts DEF CrowdInv
  <1> HIDE DEF t
  <1>5. \A x \in t.own : x.name < t.next
    <2> SUFFICES ASSUME NEW x \in session[r].own PROVE x.name < NextValue(r) + 1
      BY <1>2
    <2>1. x.name \in Nat /\ x.name < session[r].next
      BY <1>4 DEF CrowdOf, Row
    <2> QED
      BY <2>1, NextIsOnward
  <1>6. counter <= t.next
    BY <1>2, NextIsOnward
  <1> QED
    BY <1>2, <1>3, <1>4, <1>5, <1>6, SessionCrowd DEF CrowdOf

LEMMA RereadCrowd ==
  ASSUME RInv, CrowdInv, NEW r \in Request, Reread(r)
  PROVE  CrowdInv'
  <1>1. /\ UNCHANGED <<records, counter, holder>> /\ session[r].phase = "collided"
        /\ "open" \in Phase
    BY DEF Reread, Phase, InProgress
  <1>2. CrowdOf(r) /\ r \notin Single
    BY <1>1 DEF CrowdInv, CrowdOf
  <1>3. PICK t \in Session :
           /\ session' = [session EXCEPT ![r] = t]
           /\ t.phase = "open" /\ t.own = session[r].own /\ t.next = session[r].next
    <2>1. ASSUME NEW row \in Active(Visible(r), Current(r)),
                 session' = [session EXCEPT ![r] = Found(@, row)]
          PROVE  /\ Found(session[r], row) \in Session
                 /\ Found(session[r], row).phase = "open"
                 /\ Found(session[r], row).own = session[r].own
                 /\ Found(session[r], row).next = session[r].next
      <3>1. row \in Row /\ row.name \in Nat
        BY SessionFacts DEF Active, Row
      <3>2. session[r] \in Session
        BY SessionFacts
      <3>3. Answered(session[r], row.name).own = session[r].own
        BY <3>1, <3>2, AnsweredFacts
      <3>4. Found(session[r], row).next = session[r].next
        BY <3>1, <3>2, AttemptFacts
      <3> QED
        BY <3>1, <3>2, <3>3, <3>4, FoundFacts
    <2>2. ASSUME session[r].attempt + 1 < MaxRetries
          PROVE  LET s == [session[r] EXCEPT !.phase = "open",
                                             !.attempt = session[r].attempt + 1]
                 IN  /\ s \in Session /\ s.phase = "open"
                     /\ s.own = session[r].own /\ s.next = session[r].next
      <3>1. session[r].attempt + 1 \in 0..MaxRetries-1
        BY <2>2, SessionFacts, BoundAssumption DEF Session
      <3> QED
        BY <1>1, <3>1, SessionFacts DEF Session
    <2>3. LET s == [Answered(session[r], Failed) EXCEPT !.phase = "open"]
          IN  /\ s \in Session /\ s.phase = "open"
              /\ s.own = session[r].own /\ s.next = session[r].next
      <3> DEFINE a == Answered(session[r], Failed)
      <3>1. [name |-> 0, item |-> None, live |-> TRUE] \in Row
        BY DEF Row
      <3>2. a \in Session /\ a.own = session[r].own /\ a.next = session[r].next
        BY <3>1, SessionFacts, AnsweredFacts, AttemptFacts
      <3> HIDE DEF a
      <3>3. LET s == [a EXCEPT !.phase = "open"]
            IN  /\ s \in Session /\ s.phase = "open"
                /\ s.own = session[r].own /\ s.next = session[r].next
        BY <1>1, <3>2 DEF Session
      <3> QED
        BY <3>3 DEF a
    <2> QED
      BY <2>1, <2>2, <2>3 DEF Reread
  <1> QED
    BY <1>1, <1>2, <1>3, SessionCrowd DEF CrowdOf, Live

LEMMA RollbackCrowd ==
  ASSUME RInv, CrowdInv, NEW r \in Request, Abort(r) \/ Break(r)
  PROVE  CrowdInv'
  <1>1. /\ UNCHANGED <<records, counter>>
        /\ holder' = IF holder = r THEN None ELSE holder
    BY DEF Abort, Break, Release
  <1>2. holder' # r /\ IsFiniteSet({})
    BY <1>1, FS_EmptySet, RequestAssumption
  <1>3. CASE Abort(r)
    <2>1. /\ Idle.phase = "idle" /\ Idle.own = {}
          /\ session' = [session EXCEPT ![r] = Idle]
      BY <1>3 DEF Idle, Abort
    <2> QED
      BY <1>1, <1>2, <2>1, IdleType, SessionCrowd
  <1>4. CASE Break(r)
    <2> DEFINE a == Answered(session[r], Failed)
               t == [a EXCEPT !.phase = "broken", !.own = {}]
    <2>1. a \in Session /\ session' = [session EXCEPT ![r] = t]
      BY <1>4, SessionFacts, AnsweredFacts DEF Break
    <2> HIDE DEF a
    <2>2. t \in Session /\ t.phase = "broken" /\ t.own = {}
      <3>1. "broken" \in Phase
        BY DEF Phase, InProgress
      <3> QED
        BY <2>1, <3>1 DEF Session
    <2> HIDE DEF t
    <2> QED
      BY <1>1, <1>2, <2>1, <2>2, SessionCrowd
  <1> QED
    BY <1>3, <1>4

\* The refused number belongs to a foreign name, which the counter has not met.
LEMMA SingleCollidesCrowd ==
  ASSUME RInv, CrowdInv, NEW r \in Request, SingleCollides(r)
  PROVE  CrowdInv'
  <1> DEFINE n == NextValue(r)
  <1>1. /\ r \in Single /\ session[r].phase = "open"
        /\ records' = records /\ counter' = n + 1 /\ holder' = None
        /\ holder \in {None, r} /\ ~Finished(r) /\ Collides(r)
    BY DEF SingleCollides, Allocating
  <1>2. n \in Nat /\ counter \in Nat /\ counter <= n /\ n + 1 \in Nat
    BY NextIsOnward
  <1>3. Onward
    BY <1>1, <1>2 DEF Onward
  <1>4. wanted[r] = <<None>> /\ Len(wanted[r]) = 1
    <2>1. wanted[r] = <<None>>
      BY <1>1, RequestAssumption
    <2> QED
      BY <2>1
  <1>5. Len(session[r].results) = 0
    <2>1. /\ Len(session[r].results) <= Len(wanted[r])
          /\ Len(session[r].results) # Len(wanted[r])
      BY <1>1 DEF RInv, Within, Finished
    <2>2. Len(session[r].results) \in Nat
      BY SessionFacts
    <2>3. \A m \in Nat : m <= 1 /\ m # 1 => m = 0
      OBVIOUS
    <2> QED
      BY <1>4, <2>1, <2>2, <2>3
  <1>6. session[r].own = {} /\ Current(r) = None
    <2>1. session[r].own = {}
      BY <1>5 DEF RInv, Within
    <2>2. Current(r) = wanted[r][1]
      BY <1>5 DEF Current
    <2> QED
      BY <1>4, <2>1, <2>2
  <1>7. PICK row \in records : row.name = n
    BY <1>1, <1>6 DEF Collides, Active, Visible
  <1>8. n \in Foreign
    <2>1. row.name \in Foreign \/ row.name < counter
      BY DEF CrowdInv
    <2> QED
      BY <1>2, <1>7, <2>1
  <1>9. Cardinality(Met) + 1 <= Cardinality(Met')
    <2>1. n \notin Met
      BY <1>2 DEF Met
    <2>2. n \in Met'
      <3>1. Met' = {m \in Foreign : m < n + 1 /\ HasName(records, m)}
        BY <1>1 DEF Met, HasName
      <3>2. HasName(records, n) /\ n < n + 1
        BY <1>2, <1>7 DEF HasName
      <3> QED
        BY <1>8, <3>1, <3>2
    <2>3. /\ IsFiniteSet(Met) /\ IsFiniteSet(Met') /\ Met \cup {n} \subseteq Met'
          /\ Cardinality(Met) \in Nat /\ Cardinality(Met') \in Nat
      BY <1>3, <2>2, MetGrows
    <2>4. Cardinality(Met \cup {n}) = Cardinality(Met) + 1
      BY <2>1, <2>3, FS_AddElement
    <2>5. Cardinality(Met \cup {n}) <= Cardinality(Met')
      BY <2>3, FS_Subset
    <2> QED
      BY <2>4, <2>5
  <1> HIDE DEF n
  <1>10. ASSUME NEW q \in Request, q # r PROVE CrowdOf(q)'
    <2>1. session'[q] = session[q] /\ holder' # q
      BY <1>1, <1>10, RequestAssumption DEF SingleCollides, RInv, TypeOK
    <2> QED
      BY <1>3, <2>1, OtherCrowd
  <1>11. /\ session[r].attempt \in Nat /\ MaxRetries \in Nat
         /\ Cardinality(Met) \in Nat /\ Cardinality(Met') \in Nat
         /\ session[r].attempt <= Cardinality(Met)
         /\ IsFiniteSet({})
    <2>1. session[r].attempt \in Nat /\ MaxRetries \in Nat
      BY SessionFacts, BoundAssumption DEF Session
    <2>2. session[r].attempt <= Cardinality(Met)
      BY <1>1 DEF CrowdInv, CrowdOf
    <2> QED
      BY <1>3, <2>1, <2>2, MetGrows, FS_EmptySet
  <1>12. session[r].attempt + 1 <= Cardinality(Met')
    BY <1>9, <1>11
  <1>13. CrowdOf(r)'
    <2>1. CASE session[r].attempt + 1 < MaxRetries
      <3> DEFINE t == [session[r] EXCEPT !.attempt = session[r].attempt + 1]
      <3>1. t.phase = "open" /\ t.own = {} /\ t.attempt = session[r].attempt + 1
        BY <1>1, <1>6, SessionFacts DEF Session
      <3>2. session'[r] = t
        BY <2>1 DEF SingleCollides, RInv, TypeOK
      <3> HIDE DEF t
      <3> QED
        BY <1>1, <1>11, <1>12, <3>1, <3>2, RequestAssumption DEF CrowdOf
    <2>2. CASE ~(session[r].attempt + 1 < MaxRetries)
      <3> DEFINE t == [Idle EXCEPT !.phase = "refused"]
      <3>1. t.phase = "refused" /\ t.own = {}
        BY DEF Idle
      <3>2. session'[r] = t
        BY <2>2 DEF SingleCollides, RInv, TypeOK
      <3>3. MaxRetries <= Cardinality(Met')
        BY <1>11, <1>12, <2>2
      <3> HIDE DEF t
      <3> QED
        BY <1>1, <1>11, <3>1, <3>2, <3>3, RequestAssumption DEF CrowdOf
    <2> QED
      BY <2>1, <2>2
  <1>14. IsFiniteSet(records') /\ \A x \in records' : x.name \in Foreign \/ x.name < counter'
    <2>1. \A x \in records : x.name \in Nat
      BY DEF RInv, TypeOK, Row
    <2> QED
      BY <1>1, <1>2, <2>1 DEF CrowdInv
  <1> QED
    BY <1>10, <1>13, <1>14 DEF CrowdInv

\* The committed rows have numbers below the counter that is committed with them.
LEMMA CommitCrowd ==
  ASSUME RInv, CrowdInv, NEW r \in Request, Commit(r)
  PROVE  CrowdInv'
  <1>1. /\ records' = records \cup session[r].own /\ counter' = NextValue(r)
        /\ holder' = IF holder = r THEN None ELSE holder
    BY DEF Commit, Respond
  <1>2. /\ counter \in Nat /\ counter' \in Nat /\ counter <= counter'
        /\ holder # r => counter' = counter /\ session[r].own = {}
        /\ holder = r => counter' = session[r].next
    BY <1>1, NextIsOnward DEF NextValue
  <1>3. Onward
    BY <1>1, <1>2 DEF Onward, HasName
  <1>4. CrowdOf(r)
    BY DEF CrowdInv
  <1>5. \A x \in records \cup session[r].own : x.name \in Nat
    BY SessionFacts DEF Visible, Row
  <1>6. IsFiniteSet(records')
    BY <1>1, <1>4, FS_Union DEF CrowdInv, CrowdOf
  <1>7. \A x \in records' : x.name \in Foreign \/ x.name < counter'
    BY <1>1, <1>2, <1>4, <1>5 DEF CrowdInv, CrowdOf
  <1>8. ASSUME NEW q \in Request, q # r PROVE CrowdOf(q)'
    <2>1. session'[q] = session[q]
      BY <1>8 DEF Commit, Respond, RInv, TypeOK
    <2>2. holder' = q => holder = q /\ counter' = counter
      BY <1>1, <1>2, <1>8, RequestAssumption
    <2> QED
      BY <1>3, <2>1, <2>2, OtherCrowd
  <1>9. CrowdOf(r)'
    <2>1. session'[r].own = {} /\ session'[r].phase \in {"idle", "answered", "misled"}
      <3>1. \A ph : /\ [Idle EXCEPT !.phase = ph].phase = ph
                    /\ [Idle EXCEPT !.phase = ph].own = {}
        BY DEF Idle
      <3>2. Idle.phase = "idle" /\ Idle.own = {}
        BY DEF Idle
      <3> QED
        BY <3>1, <3>2 DEF Commit, Respond, RInv, TypeOK
    <2>2. holder' # r
      BY <1>1, RequestAssumption
    <2> QED
      BY <2>1, <2>2, FS_EmptySet DEF CrowdOf
  <1> QED
    BY <1>6, <1>7, <1>8, <1>9 DEF CrowdInv

LEMMA EnvironmentCrowd ==
  ASSUME RInv, CrowdInv,
         \/ \E n \in Foreign : Import(n)
         \/ \E row \in records : Tombstone(row) \/ Takeover(row)
  PROVE  CrowdInv'
  <1>1. PICK old, new :
           /\ records' = (records \ {old}) \cup {new}
           /\ \A n : HasName(records, n) => HasName(records', n)
           /\ new.name \in Foreign \/ (old \in records /\ new.name = old.name)
           /\ UNCHANGED <<counter, holder, session>>
    <2>1. CASE \E n \in Foreign : Import(n)
      <3>1. PICK n \in Foreign : Import(n)
        BY <2>1
      <3> DEFINE new == [name |-> n, item |-> None, live |-> TRUE]
      <3>2. records' = records \cup {new} /\ UNCHANGED <<counter, holder, session>>
        BY <3>1 DEF Import
      <3>3. new.name \in Foreign /\ records' = (records \ {new}) \cup {new}
        BY <3>2
      <3>4. \A m : HasName(records, m) => HasName(records', m)
        BY <3>2 DEF HasName
      <3> QED
        BY <3>2, <3>3, <3>4
    <2>2. ASSUME NEW row \in records, Tombstone(row) \/ Takeover(row)
          PROVE  \E new : /\ records' = (records \ {row}) \cup {new}
                          /\ new.name = row.name
                          /\ UNCHANGED <<counter, holder, session>>
      <3>1. row \in Row
        BY DEF RInv, TypeOK
      <3>2. /\ [row EXCEPT !.live = FALSE].name = row.name
            /\ [row EXCEPT !.item = None, !.live = TRUE].name = row.name
        BY <3>1 DEF Row
      <3> QED
        BY <2>2, <3>2 DEF Tombstone, Takeover, Change
    <2>3. ASSUME NEW row \in records, NEW new, records' = (records \ {row}) \cup {new},
                 new.name = row.name, NEW n, HasName(records, n)
          PROVE  HasName(records', n)
      BY <2>3 DEF HasName
    <2> QED
      BY <2>1, <2>2, <2>3
  <1>2. Onward
    <2>1. counter \in Nat
      BY DEF RInv, TypeOK
    <2> QED
      BY <1>1, <2>1 DEF Onward
  <1>3. ASSUME NEW q \in Request PROVE CrowdOf(q)'
    BY <1>1, <1>2, OtherCrowd
  <1>4. IsFiniteSet(records')
    BY <1>1, FS_AddElement, FS_RemoveElement DEF CrowdInv
  <1>5. \A x \in records' : x.name \in Foreign \/ x.name < counter'
    BY <1>1 DEF CrowdInv
  <1> QED
    BY <1>3, <1>4, <1>5 DEF CrowdInv

THEOREM CrowdNext == RInv /\ CrowdInv /\ [Next]_vars => CrowdInv'
  <1> SUFFICES ASSUME RInv, CrowdInv, [Next]_vars PROVE CrowdInv'
    OBVIOUS
  <1>1. CASE Next
    <2>1. ASSUME NEW r \in Request, Begin(r) PROVE CrowdInv'
      BY <2>1, BeginCrowd
    <2>2. ASSUME NEW r \in Request, Handle(r) PROVE CrowdInv'
      BY <2>2, AnswerCrowd, ReserveCrowd, BatchCollidesCrowd, RereadCrowd,
         SingleCollidesCrowd, CommitCrowd DEF Handle
    <2>3. ASSUME NEW r \in Request, Break(r) \/ Abort(r) PROVE CrowdInv'
      BY <2>3, RollbackCrowd
    <2> QED
      BY <1>1, <2>1, <2>2, <2>3, EnvironmentCrowd DEF Next, Step
  <1>2. CASE UNCHANGED vars
    BY <1>2 DEF vars, CrowdInv, CrowdOf, Live, Met, HasName
  <1> QED
    BY <1>1, <1>2

\* A name the counter has not reached is foreign, and every attempt has met one.
THEOREM CrowdInductive == Spec => []CrowdInv
  <1>1. Init => CrowdInv
    <2> SUFFICES ASSUME Init PROVE CrowdInv
      OBVIOUS
    <2>1. records = {} /\ counter = 0 /\ holder = None
      BY DEF Init
    <2>2. ASSUME NEW r \in Request PROVE CrowdOf(r)
      <3>1. session[r] = Idle /\ Idle.phase = "idle" /\ Idle.own = {}
        BY DEF Init, Idle
      <3> QED
        BY <2>1, <3>1, FS_EmptySet, RequestAssumption DEF CrowdOf
    <2> QED
      BY <2>1, <2>2, FS_EmptySet DEF CrowdInv
  <1> QED
    BY <1>1, RInductive, CrowdNext, PTL DEF Spec

\* POST /arks is refused only after it collided with MaxRetries foreign names.
THEOREM RefusalIsEarned == Spec => []RefusedOnlyWhenCrowded
  <1>1. RInv /\ CrowdInv => RefusedOnlyWhenCrowded
    <2> SUFFICES ASSUME RInv, CrowdInv, NEW r \in Request, session[r].phase = "refused"
                 PROVE  Cardinality({row \in records : row.name \in Foreign}) >= MaxRetries
      BY DEF RefusedOnlyWhenCrowded
    <2> DEFINE rows == {row \in records : row.name \in Foreign}
               names == {n \in Foreign : HasName(records, n)}
               name == [row \in rows |-> row.name]
    <2>1. IsFiniteSet(rows)
      BY FS_Subset DEF CrowdInv
    <2>2. name \in Surjection(rows, names)
      <3>1. name \in [rows -> names]
        BY DEF HasName
      <3>2. \A n \in names : \E row \in rows : name[row] = n
        BY DEF HasName
      <3> QED
        BY <3>1, <3>2 DEF Surjection
    <2> HIDE DEF name
    <2>3. IsFiniteSet(names) /\ Cardinality(names) <= Cardinality(rows)
      BY <2>1, <2>2, FS_Surjection
    <2>4. Met \in SUBSET names
      BY DEF Met
    <2> HIDE DEF rows, names
    <2>5. Cardinality(Met) <= Cardinality(names)
      BY <2>3, <2>4, FS_Subset
    <2>6. MaxRetries <= Cardinality(Met)
      BY DEF CrowdInv, CrowdOf
    <2>7. /\ counter \in Nat /\ MaxRetries \in Nat
          /\ Cardinality(rows) \in Nat /\ Cardinality(names) \in Nat
      BY <2>1, <2>3, SessionFacts, BoundAssumption, FS_CardinalityType
    <2>8. Cardinality(Met) \in Nat
      BY <2>7, MetFinite
    <2> QED
      BY <2>3, <2>5, <2>6, <2>7, <2>8 DEF rows
  <1> QED
    BY <1>1, RInductive, CrowdInductive, PTL

----------------------------------------------------------------------------
(* The registry that the clients see *)

OneRowPerName(db) == \A x, y \in db : x.name = y.name => x = y

\* What session s of r has written is named by nobody else, and by its results;
\* a request to POST /arks has read no row, and answers its own.
Accounted(r, s, db) ==
    /\ OneRowPerName(s.own)
    /\ \A row \in s.own :
          /\ ~HasName(db, row.name)
          /\ \E k \in DOMAIN s.results : s.results[k] = row.name /\ wanted[r][k] = row.item
    /\ s.phase = "broken" => r \in Breakable \ Single
    /\ s.phase = "collided" => r \notin Single
    /\ s.phase = "open" /\ r \in Single =>
          /\ s.known = {}
          /\ \A k \in DOMAIN s.results : \E row \in s.own : row.name = s.results[k]

\* The history holds what has been live while the request was in progress.
Watched(r) ==
    /\ session[r].phase = "idle" => witnessed[r] = {}
    /\ session[r].phase \in InProgress => LiveFor(r, records) \subseteq witnessed[r]

\* The inductive invariant behind ImplementsRegistry, with those before it.
RegistryInv ==
    /\ OneRowPerName(records)
    /\ \A r \in Request : Accounted(r, session[r], records) /\ Watched(r)

LEMMA WatchedNext ==
  ASSUME NEW r \in Request, Witness, session[r].phase \in Over => session'[r] = session[r]
  PROVE  Watched(r)'
  BY DEF Witness, Watched, LiveFor, Over, InProgress

\* A step of the transaction of r that commits no row.
LEMMA SessionRegistry ==
  ASSUME RInv, RegistryInv, NEW r \in Request, NEW s, Witness,
         session' = [session EXCEPT ![r] = s], records' = records,
         session[r].phase \notin Over,
         Accounted(r, s, records)
  PROVE  RegistryInv'
  <1>1. \A q \in Request : session'[q] = IF q = r THEN s ELSE session[q]
    BY DEF RInv, TypeOK
  <1>2. \A q \in Request : Watched(q)'
    BY <1>1, WatchedNext
  <1>3. ASSUME NEW q \in Request PROVE Accounted(q, session[q], records)'
    BY <1>1 DEF RegistryInv, Accounted, OneRowPerName, HasName
  <1> QED
    BY <1>2, <1>3 DEF RegistryInv, OneRowPerName

\* A session that writes no row, and keeps its results or its rows not at all.
LEMMA SameRegistry ==
  ASSUME RInv, RegistryInv, NEW r \in Request, NEW s, Witness,
         session' = [session EXCEPT ![r] = s], records' = records,
         session[r].phase \notin Over,
         \/ s.own = {}
         \/ /\ s.own = session[r].own
            /\ \A k \in DOMAIN session[r].results :
                  k \in DOMAIN s.results /\ s.results[k] = session[r].results[k],
         s.phase = "broken" => r \in Breakable \ Single,
         s.phase = "collided" => r \notin Single,
         s.phase = "open" /\ r \in Single =>
            s.known = {} /\ s.own = session[r].own /\ s.results = session[r].results
                         /\ session[r].phase = "open"
  PROVE  RegistryInv'
  <1>1. Accounted(r, session[r], records)
    BY DEF RegistryInv
  <1>2. Accounted(r, s, records)
    BY <1>1 DEF Accounted, OneRowPerName
  <1> QED
    BY <1>2, SessionRegistry

LEMMA BeginRegistry ==
  ASSUME RInv, RegistryInv, NEW r \in Request, Begin(r), Witness
  PROVE  RegistryInv'
  <1> DEFINE s == [Idle EXCEPT !.phase = "open", !.known = Prefetch(r)]
  <1>1. s.own = {} /\ s.phase = "open" /\ s.known = Prefetch(r) /\ s.results = <<>>
    BY DEF Idle
  <1>2. /\ session' = [session EXCEPT ![r] = s]
        /\ records' = records /\ session[r].phase = "idle"
    BY DEF Begin
  <1> HIDE DEF s
  <1>3. r \in Single => Prefetch(r) = {}
    <2>1. ASSUME r \in Single, NEW k \in DOMAIN wanted[r] PROVE wanted[r][k] = None
      <3>1. wanted[r] = <<None>>
        BY <2>1, RequestAssumption
      <3> QED
        BY <3>1
    <2> QED
      BY <2>1 DEF Prefetch, Active
  <1>4. Accounted(r, s, records)
    BY <1>1, <1>3 DEF Accounted, OneRowPerName
  <1> QED
    BY <1>2, <1>4, SessionRegistry DEF Over

LEMMA AnswerKnownRegistry ==
  ASSUME RInv, RegistryInv, NEW r \in Request, AnswerKnown(r), Witness
  PROVE  RegistryInv'
  <1>1. PICK row \in Known(r) : session' = [session EXCEPT ![r] = Answered(@, row.name)]
    BY DEF AnswerKnown
  <1> DEFINE t == Answered(session[r], row.name)
  <1>2. row \in session[r].known /\ row.name \in Nat
    BY SessionFacts DEF Known, Row
  <1>3. t.phase = session[r].phase /\ t.own = session[r].own
        /\ t.results = Append(session[r].results, row.name)
    BY SessionFacts DEF Answered, Session
  <1>4. \A k \in DOMAIN session[r].results :
            k \in DOMAIN t.results /\ t.results[k] = session[r].results[k]
    BY <1>2, <1>3, SessionFacts
  <1>5. /\ session' = [session EXCEPT ![r] = t] /\ records' = records
        /\ session[r].phase \in {"open", "broken"}
    BY <1>1 DEF AnswerKnown
  <1> HIDE DEF t
  <1>6. Accounted(r, session[r], records)
    BY DEF RegistryInv
  <1>7. session[r].phase = "open" => r \notin Single
    BY <1>2, <1>6 DEF Accounted
  <1>8. session[r].phase = "broken" => r \in Breakable \ Single
    BY <1>6 DEF Accounted
  <1> QED
    BY <1>3, <1>4, <1>5, <1>7, <1>8, SameRegistry DEF Over

\* A list with one more member.
LEMMA OneMore ==
  ASSUME NEW S, NEW list \in Seq(S), NEW x \in S, NEW longer,
         longer = Append(list, x)
  PROVE  /\ Len(list) + 1 \in DOMAIN longer /\ longer[Len(list) + 1] = x
         /\ \A k \in DOMAIN list : k \in DOMAIN longer /\ longer[k] = list[k]
         /\ \A k \in DOMAIN longer : k \in DOMAIN list \/ longer[k] = x
  OBVIOUS

\* The new row has a name that the transaction has not seen, and a result.
LEMMA ReserveRegistry ==
  ASSUME RInv, RegistryInv, NEW r \in Request, Reserve(r), Witness
  PROVE  RegistryInv'
  <1> DEFINE n == NextValue(r)
             row == [name |-> n, item |-> Current(r), live |-> TRUE]
             a == Answered(session[r], row.name)
             t == Inserted(session[r], row)
  <1>1. /\ n \in Nat /\ session[r].phase = "open" /\ records' = records
        /\ ~HasName(Visible(r), n)
    BY SessionFacts DEF Reserve, Allocating, Collides, HasName
  <1>2. row \in Row /\ row.name = n /\ row.item = Current(r)
    BY <1>1, CurrentType DEF Row, Reserve, Allocating, RInv
  <1>3. a \in Session /\ a.known = session[r].known /\ a.own = session[r].own
        /\ a.results = Append(session[r].results, n)
    BY <1>1, <1>2, SessionFacts, AnsweredFacts DEF Answered, Session
  <1>4. /\ t.phase = a.phase /\ t.own = a.own \cup {row} /\ t.results = a.results
        /\ row.item = None => t.known = a.known
    <2> HIDE DEF row, n
    <2>1. t.phase = a.phase /\ t.own = a.own \cup {row} /\ t.results = a.results
      BY <1>2, SessionFacts, InsertedFacts
    <2>2. row.item = None => t.known = a.known
      <3>1. t = [a EXCEPT !.own = a.own \cup {row}, !.next = row.name + 1,
                   !.known = IF row.item = None THEN a.known ELSE a.known \cup {row}]
        BY DEF Inserted
      <3> HIDE DEF a, t
      <3> QED
        BY <1>3, <3>1 DEF Session
    <2> QED
      BY <2>1, <2>2
  <1>5. session' = [session EXCEPT ![r] = t]
    BY SessionFacts DEF Reserve, RInv, TypeOK
  <1>6. /\ Len(session[r].results) + 1 \in DOMAIN a.results
        /\ a.results[Len(session[r].results) + 1] = n
        /\ wanted[r][Len(session[r].results) + 1] = Current(r)
        /\ \A k \in DOMAIN session[r].results :
              k \in DOMAIN a.results /\ a.results[k] = session[r].results[k]
        /\ \A k \in DOMAIN a.results :
              k \in DOMAIN session[r].results \/ a.results[k] = n
    <2>1. /\ session[r].results \in Seq(Nat \cup {Failed}) /\ n \in Nat \cup {Failed}
          /\ a.results = Append(session[r].results, n)
      BY <1>1, <1>3, SessionFacts
    <2>2. wanted[r][Len(session[r].results) + 1] = Current(r)
      BY DEF Current
    <2> HIDE DEF n, a
    <2> QED
      BY <2>1, <2>2, OneMore
  <1>7. r \in Single => Current(r) = None
    <2>1. ASSUME r \in Single, NEW k \in DOMAIN wanted[r] PROVE wanted[r][k] = None
      <3>1. wanted[r] = <<None>>
        BY <2>1, RequestAssumption
      <3> QED
        BY <3>1
    <2> QED
      BY <2>1, CurrentType DEF Current, Reserve, Allocating, RInv
  <1> HIDE DEF t, a, row, n
  <1>8. Accounted(r, session[r], records)
    BY DEF RegistryInv
  <1>9. t.phase = "open"
    <2>1. a.phase = session[r].phase
      BY SessionFacts DEF a, Answered, Session
    <2> QED
      BY <1>1, <1>4, <2>1
  <1>10. OneRowPerName(t.own)
    BY <1>1, <1>2, <1>3, <1>4, <1>8 DEF Accounted, OneRowPerName, HasName, Visible
  <1>11. \A x \in t.own :
          /\ ~HasName(records, x.name)
          /\ \E k \in DOMAIN t.results : t.results[k] = x.name /\ wanted[r][k] = x.item
    <2>1. ASSUME NEW x \in session[r].own
          PROVE  /\ ~HasName(records, x.name)
                 /\ \E k \in DOMAIN t.results : t.results[k] = x.name /\ wanted[r][k] = x.item
      BY <1>4, <1>6, <1>8 DEF Accounted
    <2>2. /\ ~HasName(records, row.name)
          /\ \E k \in DOMAIN t.results : t.results[k] = row.name /\ wanted[r][k] = row.item
      BY <1>1, <1>2, <1>4, <1>6 DEF HasName, Visible
    <2> QED
      BY <1>3, <1>4, <2>1, <2>2
  <1>12. r \in Single =>
          /\ t.known = {}
          /\ \A k \in DOMAIN t.results : \E x \in t.own : x.name = t.results[k]
    BY <1>1, <1>2, <1>3, <1>4, <1>6, <1>7, <1>8 DEF Accounted
  <1>13. Accounted(r, t, records)
    BY <1>9, <1>10, <1>11, <1>12 DEF Accounted
  <1> QED
    BY <1>1, <1>5, <1>13, SessionRegistry DEF Over

LEMMA CollidesRegistry ==
  ASSUME RInv, RegistryInv, NEW r \in Request, BatchCollides(r) \/ SingleCollides(r), Witness
  PROVE  RegistryInv'
  <1>1. /\ records' = records /\ session[r].phase = "open" /\ session[r].phase \notin Over
        /\ session[r] \in Session
    BY SessionFacts DEF BatchCollides, SingleCollides, Allocating, Over
  <1>2. CASE BatchCollides(r)
    <2> DEFINE t == [session[r] EXCEPT !.phase = "collided", !.next = NextValue(r) + 1]
    <2>1. t.phase = "collided" /\ t.own = session[r].own /\ t.results = session[r].results
      BY <1>1 DEF Session
    <2>2. session' = [session EXCEPT ![r] = t] /\ r \notin Single
      BY <1>2 DEF BatchCollides
    <2> HIDE DEF t
    <2> QED
      BY <1>1, <2>1, <2>2, SameRegistry
  <1>3. CASE SingleCollides(r) /\ session[r].attempt + 1 < MaxRetries
    <2> DEFINE t == [session[r] EXCEPT !.attempt = session[r].attempt + 1]
    <2>1. /\ t.phase = "open" /\ t.own = session[r].own
          /\ t.results = session[r].results /\ t.known = session[r].known
      BY <1>1 DEF Session
    <2>2. session' = [session EXCEPT ![r] = t]
      BY <1>3 DEF SingleCollides
    <2>3. r \in Single => session[r].known = {}
      BY <1>1 DEF RegistryInv, Accounted
    <2> HIDE DEF t
    <2> QED
      BY <1>1, <2>1, <2>2, <2>3, SameRegistry
  <1>4. CASE SingleCollides(r) /\ ~(session[r].attempt + 1 < MaxRetries)
    <2> DEFINE t == [Idle EXCEPT !.phase = "refused"]
    <2>1. t.phase = "refused" /\ t.own = {}
      BY DEF Idle
    <2>2. session' = [session EXCEPT ![r] = t]
      BY <1>4 DEF SingleCollides
    <2> HIDE DEF t
    <2> QED
      BY <1>1, <2>1, <2>2, SameRegistry
  <1> QED
    BY <1>2, <1>3, <1>4

\* What a request does after its item has collided.
LEMMA RereadFacts ==
  ASSUME RInv, NEW r \in Request, Reread(r)
  PROVE  \E t : /\ session' = [session EXCEPT ![r] = t]
               /\ t.phase = "open" /\ t.own = session[r].own
               /\ \/ t.results = session[r].results
                  \/ \E x : t.results = Append(session[r].results, x)
  <1>1. ASSUME NEW row \in Active(Visible(r), Current(r)),
               session' = [session EXCEPT ![r] = Found(@, row)]
        PROVE  \E t : /\ session' = [session EXCEPT ![r] = t]
                      /\ t.phase = "open" /\ t.own = session[r].own
                      /\ \E x : t.results = Append(session[r].results, x)
    <2> DEFINE t == Found(session[r], row)
    <2>1. /\ t.phase = "open" /\ t.own = session[r].own
          /\ t.results = Append(session[r].results, row.name)
      BY SessionFacts DEF Found, Answered, Session
    <2>2. session' = [session EXCEPT ![r] = t]
      BY <1>1
    <2> HIDE DEF t
    <2> QED
      BY <2>1, <2>2
  <1>2. ASSUME session' = [session EXCEPT ![r] =
                   [@ EXCEPT !.phase = "open", !.attempt = session[r].attempt + 1]]
        PROVE  \E t : /\ session' = [session EXCEPT ![r] = t]
                      /\ t.phase = "open" /\ t.own = session[r].own
                      /\ t.results = session[r].results
    <2> DEFINE t == [session[r] EXCEPT !.phase = "open",
                                       !.attempt = session[r].attempt + 1]
    <2>1. t.phase = "open" /\ t.own = session[r].own /\ t.results = session[r].results
      BY SessionFacts DEF Session
    <2>2. session' = [session EXCEPT ![r] = t]
      BY <1>2
    <2> HIDE DEF t
    <2> QED
      BY <2>1, <2>2
  <1>3. ASSUME session' = [session EXCEPT ![r] =
                   [Answered(@, Failed) EXCEPT !.phase = "open"]]
        PROVE  \E t : /\ session' = [session EXCEPT ![r] = t]
                      /\ t.phase = "open" /\ t.own = session[r].own
                      /\ \E x : t.results = Append(session[r].results, x)
    <2> DEFINE t == [Answered(session[r], Failed) EXCEPT !.phase = "open"]
    <2>1. /\ t.phase = "open" /\ t.own = session[r].own
          /\ t.results = Append(session[r].results, Failed)
      BY SessionFacts DEF Answered, Session
    <2>2. session' = [session EXCEPT ![r] = t]
      BY <1>3
    <2> HIDE DEF t
    <2> QED
      BY <2>1, <2>2
  <1> QED
    BY <1>1, <1>2, <1>3 DEF Reread

\* A request to POST /arks never reads an item again.
LEMMA RereadRegistry ==
  ASSUME RInv, RegistryInv, NEW r \in Request, Reread(r), Witness
  PROVE  RegistryInv'
  <1>1. /\ session[r].phase = "collided" /\ session[r].phase \notin Over
        /\ records' = records /\ session[r] \in Session
        /\ session[r].results \in Seq(Nat \cup {Failed})
    BY SessionFacts DEF Reread, Over
  <1>2. r \notin Single
    BY <1>1 DEF RegistryInv, Accounted
  <1>3. \A x : \A k \in DOMAIN session[r].results :
           /\ k \in DOMAIN Append(session[r].results, x)
           /\ Append(session[r].results, x)[k] = session[r].results[k]
    BY <1>1
  <1>4. PICK t : /\ session' = [session EXCEPT ![r] = t]
                 /\ t.phase = "open" /\ t.own = session[r].own
                 /\ \/ t.results = session[r].results
                    \/ \E x : t.results = Append(session[r].results, x)
    BY RereadFacts
  <1>5. \A k \in DOMAIN session[r].results :
           k \in DOMAIN t.results /\ t.results[k] = session[r].results[k]
    BY <1>3, <1>4
  <1> QED
    BY <1>1, <1>2, <1>4, <1>5, SameRegistry

LEMMA RollbackRegistry ==
  ASSUME RInv, RegistryInv, NEW r \in Request, Abort(r) \/ Break(r) \/ FailItem(r), Witness
  PROVE  RegistryInv'
  <1> DEFINE a == Answered(session[r], Failed)
  <1>1. records' = records /\ session[r].phase \notin Over
    BY DEF Abort, Break, FailItem, InProgress, Over
  <1>2. a \in Session /\ a.phase = session[r].phase /\ a.own = session[r].own
    BY SessionFacts, AnsweredFacts
  <1>3. CASE Abort(r)
    <2>1. Idle.phase = "idle" /\ Idle.own = {} /\ session' = [session EXCEPT ![r] = Idle]
      BY <1>3 DEF Idle, Abort
    <2> QED
      BY <1>1, <2>1, SameRegistry
  <1>4. CASE FailItem(r)
    <2>1. session' = [session EXCEPT ![r] = a] /\ a.phase = "broken"
      BY <1>2, <1>4 DEF FailItem
    <2>2. session[r].own = {} /\ r \in Breakable \ Single
      BY <1>2, <2>1 DEF RInv, Within, Live, RegistryInv, Accounted
    <2> HIDE DEF a
    <2> QED
      BY <1>1, <1>2, <2>1, <2>2, SameRegistry
  <1>5. CASE Break(r)
    <2> DEFINE t == [a EXCEPT !.phase = "broken", !.own = {}]
    <2>1. session' = [session EXCEPT ![r] = t] /\ r \in Breakable \ Single
      BY <1>5 DEF Break
    <2> HIDE DEF a
    <2>2. t.phase = "broken" /\ t.own = {}
      BY <1>2 DEF Session
    <2> HIDE DEF t
    <2> QED
      BY <1>1, <2>1, <2>2, SameRegistry
  <1> QED
    BY <1>3, <1>4, <1>5

\* What a commit leaves of a session.
LEMMA CommitFacts ==
  ASSUME RInv, NEW r \in Request, Commit(r)
  PROVE  /\ session[r].phase \in {"open", "broken"} /\ Finished(r)
         /\ records' = records \cup session[r].own
         /\ \A q \in Request \ {r} : session'[q] = session[q] /\ answer'[q] = answer[q]
         /\ session'[r].own = {}
         /\ \/ session'[r].phase = "idle" /\ answer' = answer
            \/ /\ answer' = [answer EXCEPT ![r] = session[r].results]
               /\ session'[r].phase = IF session[r].phase = "open" THEN "answered" ELSE "misled"
  <1>1. \A ph : /\ [Idle EXCEPT !.phase = ph].phase = ph
                /\ [Idle EXCEPT !.phase = ph].own = {}
    BY DEF Idle
  <1>2. Idle.phase = "idle" /\ Idle.own = {}
    BY DEF Idle
  <1>3. /\ session[r].phase \in {"open", "broken"} /\ Finished(r)
        /\ records' = records \cup session[r].own
        /\ \A q \in Request \ {r} : session'[q] = session[q] /\ answer'[q] = answer[q]
    BY DEF Commit, Respond, RInv, TypeOK
  <1>4. CASE /\ answer' = [answer EXCEPT ![r] = session[r].results]
             /\ session' = [session EXCEPT ![r] = [Idle EXCEPT !.phase =
                  IF session[r].phase = "open" THEN "answered" ELSE "misled"]]
    BY <1>1, <1>3, <1>4 DEF RInv, TypeOK
  <1>5. CASE session' = [session EXCEPT ![r] = Idle] /\ answer' = answer
    BY <1>2, <1>3, <1>5 DEF RInv, TypeOK
  <1> QED
    BY <1>4, <1>5 DEF Commit, Respond

\* The other sessions have written nothing when one commits rows.
LEMMA CommitRegistry ==
  ASSUME RInv, RegistryInv, NEW r \in Request, Commit(r), Witness
  PROVE  RegistryInv'
  <1>1. /\ session[r].phase \in {"open", "broken"}
        /\ records' = records \cup session[r].own
        /\ \A q \in Request \ {r} : session'[q] = session[q]
        /\ session'[r].own = {} /\ session'[r].phase \in {"idle", "answered", "misled"}
    BY CommitFacts
  <1>2. Accounted(r, session[r], records) /\ OneRowPerName(records)
    BY DEF RegistryInv
  <1>3. OneRowPerName(records')
    BY <1>1, <1>2 DEF OneRowPerName, Accounted, HasName
  <1>4. ASSUME NEW q \in Request PROVE Watched(q)'
    <2>1. session[q].phase \in Over => session'[q] = session[q]
      BY <1>1 DEF Over
    <2> QED
      BY <2>1, WatchedNext
  <1>5. ASSUME NEW q \in Request, q # r PROVE Accounted(q, session[q], records)'
    <2>1. Accounted(q, session[q], records) /\ session'[q] = session[q]
      BY <1>1, <1>5 DEF RegistryInv
    <2>2. session[q].own = {} \/ records' = records
      BY <1>1, <1>5 DEF RInv, LockProtects
    <2> QED
      BY <2>1, <2>2 DEF Accounted, OneRowPerName, HasName
  <1>6. Accounted(r, session[r], records)'
    BY <1>1 DEF Accounted, OneRowPerName
  <1> QED
    BY <1>3, <1>4, <1>5, <1>6 DEF RegistryInv

LEMMA EnvironmentRegistry ==
  ASSUME RInv, RegistryInv, Witness,
         \/ \E n \in Foreign : Import(n)
         \/ \E row \in records : Tombstone(row) \/ Takeover(row)
  PROVE  RegistryInv'
  <1>1. PICK old, new :
           /\ records' = (records \ {old}) \cup {new} /\ session' = session
           /\ \/ \A x \in records : x.name # new.name
              \/ old \in records /\ old.name = new.name
           /\ \A q \in Request : \A x \in session[q].own : x.name # new.name
    <2>1. ASSUME NEW n \in Foreign, Import(n)
          PROVE  \E new : /\ records' = (records \ {new}) \cup {new} /\ session' = session
                          /\ \A x \in records : x.name # new.name
                          /\ \A q \in Request : \A x \in session[q].own : x.name # new.name
      <3> DEFINE new == [name |-> n, item |-> None, live |-> TRUE]
      <3>1. new.name = n /\ records' = records \cup {new} /\ session' = session
        BY <2>1 DEF Import
      <3>2. /\ \A x \in records : x.name # n
            /\ \A q \in Request : \A x \in session[q].own : x.name # n
        BY <2>1 DEF Import
      <3> HIDE DEF new
      <3> QED
        BY <3>1, <3>2
    <2>2. ASSUME NEW row \in records, Tombstone(row) \/ Takeover(row)
          PROVE  \E new : /\ records' = (records \ {row}) \cup {new} /\ session' = session
                          /\ row.name = new.name
                          /\ \A q \in Request : \A x \in session[q].own : x.name # new.name
      <3>1. row \in Row
        BY DEF RInv, TypeOK
      <3>2. /\ [row EXCEPT !.live = FALSE].name = row.name
            /\ [row EXCEPT !.item = None, !.live = TRUE].name = row.name
        BY <3>1 DEF Row
      <3>3. \A q \in Request : \A x \in session[q].own : x.name # row.name
        BY DEF RegistryInv, Accounted, HasName
      <3>4. PICK new : Change(row, new) /\ new.name = row.name
        BY <2>2, <3>2 DEF Tombstone, Takeover
      <3> QED
        BY <3>3, <3>4 DEF Change
    <2> QED
      BY <2>1, <2>2
  <1>2. OneRowPerName(records')
    BY <1>1 DEF RegistryInv, OneRowPerName
  <1>3. ASSUME NEW q \in Request PROVE Accounted(q, session[q], records)'
    <2>1. Accounted(q, session[q], records)
      BY DEF RegistryInv
    <2> QED
      BY <1>1, <2>1 DEF Accounted, OneRowPerName, HasName
  <1>4. \A q \in Request : Watched(q)'
    BY <1>1, WatchedNext
  <1> QED
    BY <1>2, <1>3, <1>4 DEF RegistryInv

THEOREM RegistryNext == RInv /\ RegistryInv /\ [Next]_vars => RegistryInv'
  <1> SUFFICES ASSUME RInv, RegistryInv, [Next]_vars PROVE RegistryInv'
    OBVIOUS
  <1>1. CASE Next
    <2>1. ASSUME NEW r \in Request, Begin(r), Witness PROVE RegistryInv'
      BY <2>1, BeginRegistry
    <2>2. ASSUME NEW r \in Request, Handle(r), Witness PROVE RegistryInv'
      BY <2>2, AnswerKnownRegistry, ReserveRegistry, CollidesRegistry, RereadRegistry,
         CommitRegistry, RollbackRegistry DEF Handle
    <2>3. ASSUME NEW r \in Request, Break(r) \/ Abort(r), Witness PROVE RegistryInv'
      BY <2>3, RollbackRegistry
    <2> QED
      BY <1>1, <2>1, <2>2, <2>3, EnvironmentRegistry DEF Next, Step
  <1>2. CASE UNCHANGED vars
    BY <1>2 DEF vars, RegistryInv, OneRowPerName, Accounted, HasName, Watched, LiveFor
  <1> QED
    BY <1>1, <1>2

\* Each registered name stands in one row, and no transaction in progress has
\* written a name that is registered.
THEOREM RegistryInductive == Spec => []RegistryInv
  <1>1. Init => RegistryInv
    BY DEF Init, RegistryInv, OneRowPerName, Accounted, Watched, Idle, InProgress
  <1> QED
    BY <1>1, RInductive, RegistryNext, PTL DEF Spec

----------------------------------------------------------------------------
LEMMA SameCardinality == \A S : Registry!Cardinality(S) = Cardinality(S)
  BY Zenon DEF Registry!Cardinality, Cardinality

LEMMA RegistryInit == Init => Registry!Init
  <1> SUFFICES ASSUME Init PROVE Registry!Init
    OBVIOUS
  <1>1. ASSUME NEW r \in Request PROVE View(r) = "idle"
    BY DEF Init, View, Idle, InProgress
  <1> QED
    BY <1>1 DEF Init, Registry!Init

\* What the clients see of a request changes with its phase alone.
LEMMA ViewFacts ==
  ASSUME RInv, NEW r \in Request
  PROVE  /\ View(r) = "idle" <=> session[r].phase = "idle"
         /\ View(r) = "open" <=> session[r].phase \in InProgress
         /\ View(r) \in Registry!Over <=> session[r].phase \in Over
         /\ session[r].phase \notin InProgress => View(r) = session[r].phase
  BY DEF RInv, TypeOK, Session, Phase, View, InProgress, Over, Registry!Over

LEMMA ViewPrime ==
  ASSUME RInv', NEW r \in Request
  PROVE  /\ View(r)' = "idle" <=> session'[r].phase = "idle"
         /\ View(r)' = "open" <=> session'[r].phase \in InProgress
         /\ session'[r].phase \notin InProgress => View(r)' = session'[r].phase
  BY DEF RInv, TypeOK, Session, Phase, View, InProgress, Over

LEMMA SeenByAll ==
  ASSUME RInv, RInv', Witness
  PROVE  Registry!Remember
  <1>1. ASSUME NEW r \in Request
        PROVE  LiveFor(r, records') =
                  {row.name : row \in {x \in records' : x.live /\ Registry!Wants(r, x.item)}}
    BY DEF LiveFor, Registry!Wants
  <1>2. ASSUME NEW r \in Request
        PROVE  witnessed'[r] =
                 IF View(r)' = "idle" THEN {}
                 ELSE IF View(r) \in Registry!Over THEN witnessed[r]
                 ELSE witnessed[r] \cup
                        {row.name : row \in {x \in records' : x.live /\ Registry!Wants(r, x.item)}}
    <2> DEFINE live == {row.name : row \in
                          {x \in records' : x.live /\ Registry!Wants(r, x.item)}}
    <2>1. LiveFor(r, records') = live
      BY <1>1
    <2>2. witnessed'[r] =
             IF session'[r].phase = "idle" THEN {}
             ELSE IF session[r].phase \in Over THEN witnessed[r]
             ELSE witnessed[r] \cup LiveFor(r, records')
      BY DEF Witness
    <2> HIDE DEF live
    <2>3. /\ View(r)' = "idle" <=> session'[r].phase = "idle"
          /\ View(r) \in Registry!Over <=> session[r].phase \in Over
      BY ViewFacts, ViewPrime
    <2>4. witnessed'[r] = IF View(r)' = "idle" THEN {}
                          ELSE IF View(r) \in Registry!Over THEN witnessed[r]
                          ELSE witnessed[r] \cup live
      BY <2>1, <2>2, <2>3
    <2> QED
      BY <2>4 DEF live
  <1>3. witnessed' = [r \in Request |-> witnessed'[r]]
    BY DEF RInv, TypeOK
  <1> QED
    BY <1>2, <1>3 DEF Registry!Remember

\* A step inside a transaction is hidden from the clients.
LEMMA Hidden ==
  ASSUME RInv, RegistryInv, RInv', Witness,
         UNCHANGED <<records, answer>>,
         \A q \in Request : View(q)' = View(q)
  PROVE  UNCHANGED Registry!vars
  <1>1. ASSUME NEW q \in Request PROVE witnessed'[q] = witnessed[q]
    <2>1. Watched(q)
      BY DEF RegistryInv
    <2>2. /\ session'[q].phase = "idle" <=> session[q].phase = "idle"
          /\ session'[q].phase \in InProgress <=> session[q].phase \in InProgress
      BY ViewFacts, ViewPrime
    <2>3. session[q].phase \in InProgress \cup Over \cup {"idle"}
      BY DEF RInv, TypeOK, Session, Phase
    <2>4. LiveFor(q, records') = LiveFor(q, records)
      BY DEF LiveFor
    <2> QED
      BY <2>1, <2>2, <2>3, <2>4 DEF Witness, Watched, InProgress, Over
  <1>2. witnessed' = witnessed
    <2>1. witnessed \in [Request -> SUBSET Nat] /\ witnessed' \in [Request -> SUBSET Nat]
      BY DEF RInv, TypeOK
    <2> QED
      BY <1>1, <2>1
  <1>3. [r \in Request |-> View(r)]' = [r \in Request |-> View(r)]
    OBVIOUS
  <1> QED
    BY <1>2, <1>3 DEF Registry!vars

\* The request r goes from one of the phases that are seen to another.
LEMMA Moves ==
  ASSUME NEW r \in Request, NEW from, NEW to, View(r) = from, View(r)' = to,
         \A q \in Request \ {r} : session'[q] = session[q]
  PROVE  Registry!Goes(r, from, to)
  <1>1. \A q \in Request \ {r} : View(q)' = View(q)
    BY DEF View
  <1> QED
    BY <1>1 DEF Registry!Goes

\* A transaction in progress goes on, or starts, or is given up.
LEMMA InnerIsHidden ==
  ASSUME RInv, RegistryInv, RInv', Witness, NEW r \in Request,
         \/ Begin(r) \/ AnswerKnown(r) \/ Reserve(r) \/ BatchCollides(r) \/ Reread(r)
         \/ FailItem(r) \/ Break(r) \/ Abort(r)
  PROVE  Registry!Next \/ UNCHANGED Registry!vars
  <1>1. /\ UNCHANGED <<records, answer>>
        /\ \A q \in Request \ {r} : session'[q] = session[q]
    BY DEF Begin, AnswerKnown, Reserve, BatchCollides, Reread, FailItem, Break, Abort,
           RInv, TypeOK
  <1>2. CASE Begin(r)
    <2>1. session[r].phase = "idle" /\ session'[r].phase = "open"
      BY <1>2 DEF Begin, Idle, RInv, TypeOK
    <2>2. Registry!Ask(r)
      BY <1>1, <2>1, Moves, ViewFacts, ViewPrime DEF Registry!Ask, InProgress
    <2> QED
      BY <2>2, SeenByAll DEF Registry!Next, Registry!Step
  <1>3. CASE Abort(r)
    <2>1. session[r].phase \in InProgress /\ session'[r].phase = "idle"
      BY <1>3 DEF Abort, Idle, RInv, TypeOK
    <2>2. Registry!GiveUp(r)
      BY <1>1, <2>1, Moves, ViewFacts, ViewPrime DEF Registry!GiveUp
    <2> QED
      BY <2>2, SeenByAll DEF Registry!Next, Registry!Step
  <1>4. CASE AnswerKnown(r) \/ Reserve(r) \/ BatchCollides(r) \/ Reread(r)
             \/ FailItem(r) \/ Break(r)
    <2>1. session[r].phase \in InProgress
      BY <1>4 DEF AnswerKnown, Reserve, BatchCollides, Reread, FailItem, Break,
                  Allocating, InProgress
    <2>2. session'[r].phase \in InProgress
      <3>1. session[r] \in Session /\ session' \in [Request -> Session]
        BY SessionFacts DEF RInv, TypeOK
      <3>2. CASE AnswerKnown(r) \/ FailItem(r)
        BY <2>1, <3>1, <3>2, ZenonT(60) DEF AnswerKnown, FailItem, Answered, Session, RInv, TypeOK
      <3>3. CASE Reserve(r)
        BY <2>1, <3>1, <3>3 DEF Reserve, Inserted, Answered, Session, RInv, TypeOK
      <3>4. CASE BatchCollides(r)
        BY <2>1, <3>1, <3>4 DEF BatchCollides, Session, RInv, TypeOK, InProgress
      <3>5. CASE Break(r)
        BY <2>1, <3>1, <3>5 DEF Break, Answered, Session, RInv, TypeOK, InProgress
      <3>6. CASE Reread(r)
        BY <3>6, RereadFacts DEF RInv, TypeOK, InProgress
      <3> QED
        BY <1>4, <3>2, <3>3, <3>4, <3>5, <3>6
    <2>3. \A q \in Request : View(q)' = View(q)
      <3>1. View(r)' = "open" /\ View(r) = "open"
        BY <2>1, <2>2, ViewFacts, ViewPrime
      <3> QED
        BY <1>1, <3>1 DEF View
    <2> QED
      BY <1>1, <2>3, Hidden
  <1> QED
    BY <1>2, <1>3, <1>4

\* POST /arks tries again, unseen, or has met MaxRetries foreign names.
LEMMA SingleIsSeen ==
  ASSUME RInv, RegistryInv, RInv', CrowdInv', Witness, NEW r \in Request, SingleCollides(r),
         RefusedOnlyWhenCrowded'
  PROVE  Registry!Next \/ UNCHANGED Registry!vars
  <1>1. /\ UNCHANGED <<records, answer>>
        /\ \A q \in Request \ {r} : session'[q] = session[q]
        /\ session[r].phase = "open"
    BY DEF SingleCollides, Allocating, RInv, TypeOK
  <1>2. CASE session[r].attempt + 1 < MaxRetries
    <2>1. session'[r].phase = "open"
      BY <1>1, <1>2, SessionFacts DEF SingleCollides, Session, RInv, TypeOK
    <2>2. \A q \in Request : View(q)' = View(q)
      BY <1>1, <2>1 DEF View
    <2> QED
      BY <1>1, <2>2, Hidden
  <1>3. CASE ~(session[r].attempt + 1 < MaxRetries)
    <2>1. session'[r].phase = "refused"
      BY <1>3 DEF SingleCollides, Idle, RInv, TypeOK
    <2>2. Cardinality({row \in records : row.name \in Foreign}) >= MaxRetries
      BY <1>1, <2>1 DEF RefusedOnlyWhenCrowded
    <2>3. Registry!Goes(r, "open", "refused")
      BY <1>1, <2>1, Moves, ViewFacts, ViewPrime DEF InProgress
    <2>4. Registry!Refuse(r)
      BY <1>1, <2>2, <2>3, SameCardinality DEF Registry!Refuse
    <2> QED
      BY <2>4, SeenByAll DEF Registry!Next, Registry!Step
  <1> QED
    BY <1>2, <1>3

\* All names and rows of a transaction become visible in the step that ends it.
LEMMA CommitIsSeen ==
  ASSUME RInv, AInv, RegistryInv, RInv', AInv', RegistryInv',
         Witness, NEW r \in Request, Commit(r)
  PROVE  Registry!Next \/ UNCHANGED Registry!vars
  <1> DEFINE rows == records' \ records
  <1>1. /\ session[r].phase \in {"open", "broken"} /\ Finished(r)
        /\ records' = records \cup session[r].own
        /\ \A q \in Request \ {r} : session'[q] = session[q] /\ answer'[q] = answer[q]
        /\ \/ session'[r].phase = "idle" /\ answer' = answer
           \/ /\ answer' = [answer EXCEPT ![r] = session[r].results]
              /\ session'[r].phase = IF session[r].phase = "open" THEN "answered" ELSE "misled"
    BY CommitFacts
  <1>2. /\ View(r) = "open"
        /\ session'[r].phase \in Over \cup {"idle"} => View(r)' = session'[r].phase
    BY <1>1, ViewFacts, ViewPrime DEF InProgress, Over
  <1>3. Accounted(r, session[r], records) /\ OwnRows(r, session[r].own)
    BY DEF RegistryInv, AInv
  <1>4. rows = session[r].own /\ records \subseteq records'
    BY <1>1, <1>3 DEF Accounted, HasName
  <1>5. CASE session[r].phase = "broken"
    <2>1. session[r].own = {} /\ r \in Breakable
      BY <1>3, <1>5 DEF Accounted, RInv, Within, Live
    <2>2. records' = records
      BY <1>1, <2>1
    <2>3. CASE session'[r].phase = "idle" /\ answer' = answer
      <3>1. Registry!GiveUp(r)
        BY <1>1, <1>2, <2>2, <2>3, Moves DEF Registry!GiveUp
      <3> QED
        BY <3>1, SeenByAll DEF Registry!Next, Registry!Step
    <2>4. CASE answer' = [answer EXCEPT ![r] = session[r].results]
               /\ session'[r].phase = "misled"
      <3>1. Registry!Goes(r, "open", "misled")
        BY <1>1, <1>2, <2>4, Moves DEF Over
      <3>2. answer' = [answer EXCEPT ![r] = answer'[r]]
        BY <2>4 DEF RInv, TypeOK
      <3>3. Registry!Mislead(r)
        BY <2>1, <2>2, <3>1, <3>2 DEF Registry!Mislead
      <3> QED
        BY <3>3, SeenByAll DEF Registry!Next, Registry!Step
    <2> QED
      BY <1>1, <1>5, <2>3, <2>4
  <1>6. CASE session[r].phase = "open"
    <2>1. \A row \in rows : row.live /\ Registry!Wants(r, row.item)
      BY <1>3, <1>4 DEF OwnRows, Wants, Registry!Wants
    <2>2. Registry!OneRowPerName'
      BY DEF RegistryInv, OneRowPerName, Registry!OneRowPerName
    <2>3. Registry!OneLiveRowPerItem'
      <3>1. OneActive(Visible(r))'
        BY DEF AInv
      <3> QED
        BY <3>1 DEF OneActive, Visible, Registry!OneLiveRowPerItem
    <2>4. CASE session'[r].phase = "idle" /\ answer' = answer
      <3>1. Registry!Goes(r, "open", "idle")
        BY <1>1, <1>2, <2>4, Moves
      <3>2. Registry!Grant(r)
        BY <1>4, <2>1, <2>2, <2>3, <2>4, <3>1 DEF Registry!Grant
      <3> QED
        BY <3>2, SeenByAll DEF Registry!Next, Registry!Step
    <2>5. CASE answer' = [answer EXCEPT ![r] = session[r].results]
               /\ session'[r].phase = "answered"
      <3>1. Registry!Goes(r, "open", "answered")
        BY <1>1, <1>2, <2>5, Moves DEF Over
      <3>2. answer' = [answer EXCEPT ![r] = answer'[r]] /\ answer'[r] = session[r].results
        BY <2>5 DEF RInv, TypeOK
      <3>3. DOMAIN answer'[r] = DOMAIN wanted[r]
        BY <1>1, <3>2, SessionFacts, WantedType DEF Finished
      <3>4. ASSUME NEW k \in DOMAIN wanted[r], answer'[r][k] # Failed
            PROVE  Registry!Answers(r, k, answer'[r][k])
        <4>1. k \in Given(r)'
          BY <2>5, <3>3, <3>4 DEF Given
        <4>2. /\ Stands(records', answer'[r][k], wanted[r][k])
              /\ answer'[r][k] \in witnessed'[r]
          BY <4>1 DEF AInv, AnswerStands
        <4>3. wanted[r][k] = None => answer'[r][k] \in Registry!NewNames
          <5>1. wanted[r][k] = None => r \in Single
            BY RequestAssumption
          <5>2. r \in Single => \E row \in session[r].own : row.name = answer'[r][k]
            BY <1>3, <1>6, <3>2, <3>3 DEF Accounted
          <5> QED
            BY <1>4, <5>1, <5>2 DEF Registry!NewNames
        <4> QED
          BY <4>2, <4>3 DEF Registry!Answers, Stands
      <3>5. ASSUME NEW row \in rows
            PROVE  \E k \in DOMAIN wanted[r] :
                      answer'[r][k] = row.name /\ wanted[r][k] = row.item
        BY <1>3, <1>4, <3>2, <3>3 DEF Accounted
      <3>6. Registry!Grant(r)
        BY <1>4, <2>1, <2>2, <2>3, <3>1, <3>2, <3>3, <3>4, <3>5 DEF Registry!Grant
      <3> QED
        BY <3>6, SeenByAll DEF Registry!Next, Registry!Step
    <2> QED
      BY <1>1, <1>6, <2>4, <2>5
  <1> QED
    BY <1>1, <1>5, <1>6

LEMMA EnvironmentIsSeen ==
  ASSUME RInv, RInv', Witness,
         \/ \E n \in Foreign : Import(n)
         \/ \E row \in records : Tombstone(row) \/ Takeover(row)
  PROVE  Registry!Next
  <1>1. ASSUME UNCHANGED session
        PROVE  [r \in Request |-> View(r)]' = [r \in Request |-> View(r)]
    BY <1>1 DEF View
  <1>2. ASSUME NEW n \in Foreign, Import(n) PROVE Registry!Import(n)
    BY <1>1, <1>2 DEF Import, Registry!Import
  <1>3. ASSUME NEW row \in records, Tombstone(row) \/ Takeover(row)
        PROVE  Registry!Alter(row)
    BY <1>1, <1>3 DEF Tombstone, Takeover, Change, Registry!Alter
  <1> QED
    BY <1>2, <1>3, SeenByAll DEF Registry!Next, Registry!Step

\* Every step of Reservation is a step of the registry, or hidden from it.
LEMMA RegistryStep ==
  ASSUME RInv, AInv, RegistryInv, RInv', AInv', CrowdInv', RegistryInv',
         RefusedOnlyWhenCrowded', [Next]_vars
  PROVE  Registry!Next \/ UNCHANGED Registry!vars
  <1>1. CASE Next
    <2>1. ASSUME NEW r \in Request, Begin(r) \/ Handle(r) \/ Break(r) \/ Abort(r), Witness
          PROVE  Registry!Next \/ UNCHANGED Registry!vars
      BY <2>1, InnerIsHidden, SingleIsSeen, CommitIsSeen DEF Handle
    <2> QED
      BY <1>1, <2>1, EnvironmentIsSeen DEF Next, Step
  <1>2. CASE UNCHANGED vars
    <2>1. [r \in Request |-> View(r)]' = [r \in Request |-> View(r)]
      BY <1>2 DEF vars, View
    <2> QED
      BY <1>2, <2>1 DEF vars, Registry!vars
  <1> QED
    BY <1>1, <1>2

\* Reservation implements ArkRegistry: the counter, its lock, the savepoints,
\* the retries and the stale reads of the batches are hidden from the clients,
\* who see each request's rows appear at once, under new names, and as answered.
THEOREM RegistryRefinement == Spec => ImplementsRegistry
  <1>1. RInv /\ AInv /\ RegistryInv /\ RInv' /\ AInv' /\ CrowdInv' /\ RegistryInv'
          /\ RefusedOnlyWhenCrowded' /\ [Next]_vars
        => [Registry!Next]_(Registry!vars)
    BY RegistryStep
  <1> QED
    BY <1>1, RegistryInit, RInductive, AnswersInductive, CrowdInductive, RegistryInductive,
       RefusalIsEarned, PTL DEF Spec, ImplementsRegistry, Registry!Spec

=============================================================================
