------------------------- MODULE Reservation_proofs -------------------------
(***************************************************************************)
(* A name that a committed transaction answered is registered, and no name *)
(* is answered twice, for every set of requests, whatever they want and    *)
(* however they interleave, abort, collide or lose their answers.          *)
(***************************************************************************)
EXTENDS Reservation, TLAPS

----------------------------------------------------------------------------
\* A transaction that can still commit what it has written.
Live(r) == session[r].phase \in {"open", "collided"}

HasName(db, n) == \E row \in db : row.name = n

\* Only the holder of the counter's row lock has uncommitted rows.
LockProtects == \A r \in Request : session[r].own # {} => holder = r

\* No request has more results than items, a collision has an item, and every
\* row has a result and can still be committed.
Within ==
    \A r \in Request : /\ Len(session[r].results) <= Len(wanted[r])
                       /\ session[r].phase = "collided" => ~Finished(r)
                       /\ session[r].own # {}
                           => Len(session[r].results) # 0 /\ Live(r)
                       /\ Len(answer[r]) <= Len(wanted[r])

\* What a live transaction has read or written is still registered for it.
Covered ==
    \A r \in Request : Live(r) =>
        /\ \A row \in session[r].known : HasName(Visible(r), row.name)
        /\ \A k \in DOMAIN session[r].results :
              session[r].results[k] # Failed
                => HasName(Visible(r), session[r].results[k])

\* The inductive invariant behind AnswersAreReserved.
RInv ==
    /\ TypeOK
    /\ LockProtects
    /\ Within
    /\ Covered
    /\ AnswersAreReserved

\* What one request does to the state of the others: nothing.
OnlyOf(r) ==
    \A q \in Request \ {r} :
        session'[q] = session[q] /\ answer'[q] = answer[q]

----------------------------------------------------------------------------
LEMMA WantedType ==
  ASSUME NEW r \in Request
  PROVE  /\ wanted[r] \in Seq(Item \cup {None})
         /\ Len(wanted[r]) \in Nat
  BY RequestAssumption

\* The item a transaction is working on is one of the request's.
LEMMA CurrentType ==
  ASSUME NEW r \in Request, TypeOK, Within, ~Finished(r)
  PROVE  /\ Current(r) \in Item \cup {None}
         /\ Len(session[r].results) + 1 <= Len(wanted[r])
         /\ Len(session[r].results) + 1 \in DOMAIN wanted[r]
  <1>1. session[r].results \in Seq(Nat \cup {Failed})
    BY DEF TypeOK, Session
  <1>2. /\ Len(session[r].results) \in Nat /\ Len(wanted[r]) \in Nat
        /\ Len(session[r].results) <= Len(wanted[r])
        /\ Len(session[r].results) # Len(wanted[r])
    BY <1>1, WantedType DEF Within, Finished
  <1>3. /\ Len(session[r].results) + 1 \in 1..Len(wanted[r])
        /\ Len(session[r].results) + 1 <= Len(wanted[r])
    BY <1>2
  <1> QED
    BY <1>3, WantedType DEF Current

LEMMA IdleType == Idle \in Session
  BY BoundAssumption DEF Idle, Session, Phase, InProgress, Over, Row

\* No request is in progress, nothing is registered and nothing answered.
THEOREM RInit == Init => RInv
  <1> SUFFICES ASSUME Init PROVE RInv
    OBVIOUS
  <1>2. TypeOK
    BY IdleType, BoundAssumption DEF Init, TypeOK
  <1>3. LockProtects /\ Covered
    BY DEF Init, LockProtects, Covered, Idle, Live
  <1>4. Within
    BY WantedType DEF Init, Within, Idle, Finished
  <1>5. AnswersAreReserved
    BY DEF Init, AnswersAreReserved, Given, Idle
  <1> QED
    BY <1>2, <1>3, <1>4, <1>5 DEF RInv

----------------------------------------------------------------------------
LEMMA WitnessType ==
  ASSUME TypeOK, Witness, records' \subseteq Row
  PROVE  witnessed' \in [Request -> SUBSET Nat]
  <1>1. ASSUME NEW r \in Request PROVE LiveFor(r, records') \subseteq Nat
    BY DEF LiveFor, Row
  <1>2. ASSUME NEW r \in Request PROVE witnessed[r] \in SUBSET Nat
    BY DEF TypeOK
  <1> QED
    BY <1>1, <1>2 DEF Witness

\* A step of the transaction of r that commits no row.
LEMMA SessionStep ==
  ASSUME RInv, NEW r \in Request, NEW s \in Session, Witness,
         session' = [session EXCEPT ![r] = s],
         records' = records, answer' = answer,
         counter' \in Nat, holder' \in Request \cup {None},
         sent' \in [Request -> 0..MaxSends],
         \A q \in Request \ {r} : session[q].own # {} => holder' = q,
         s.own # {} => holder' = r,
         s.phase # "answered",
         Len(s.results) <= Len(wanted[r]),
         s.phase = "collided" => Len(s.results) # Len(wanted[r]),
         s.own # {} => Len(s.results) # 0 /\ s.phase \in {"open", "collided"},
         s.phase \in {"open", "collided"} =>
            /\ \A row \in s.known : HasName(records \cup s.own, row.name)
            /\ \A k \in DOMAIN s.results : s.results[k] # Failed
                 => HasName(records \cup s.own, s.results[k])
  PROVE  RInv'
  <1>1. \A q \in Request : session'[q] = IF q = r THEN s ELSE session[q]
    BY DEF RInv, TypeOK
  <1>2. TypeOK'
    BY WitnessType DEF RInv, TypeOK
  <1>3. LockProtects'
    BY <1>1 DEF RInv, LockProtects
  <1>4. Within'
    BY <1>1 DEF RInv, Within, Finished, Live
  <1>5. Covered'
    BY <1>1 DEF RInv, Covered, Live, Visible, HasName
  <1>6. AnswersAreReserved'
    BY <1>1 DEF RInv, AnswersAreReserved, Given, Registered
  <1> QED
    BY <1>2, <1>3, <1>4, <1>5, <1>6 DEF RInv

\* A step of another actor that changes committed rows and loses no name.
LEMMA RecordStep ==
  ASSUME RInv, Witness, records' \subseteq Row,
         \A n : HasName(records, n) => HasName(records', n),
         UNCHANGED <<counter, holder, session, answer, sent>>
  PROVE  RInv'
  <1>1. TypeOK'
    BY WitnessType DEF RInv, TypeOK
  <1>2. LockProtects' /\ Within'
    BY DEF RInv, LockProtects, Within, Finished, Live
  <1>3. ASSUME NEW r \in Request, NEW n, HasName(Visible(r), n)
        PROVE  HasName(Visible(r), n)'
    BY <1>3 DEF HasName, Visible
  <1>4. Covered'
    BY <1>3 DEF RInv, Covered, Live
  <1>5. AnswersAreReserved'
    BY DEF RInv, AnswersAreReserved, Given, Registered, HasName
  <1> QED
    BY <1>1, <1>2, <1>4, <1>5 DEF RInv

LEMMA BeginStep ==
  ASSUME RInv, NEW r \in Request, Begin(r), Witness
  PROVE  RInv'
  <1> DEFINE s == [Idle EXCEPT !.phase = "open", !.known = Prefetch(r)]
  <1>1. Prefetch(r) \subseteq records /\ Prefetch(r) \subseteq Row
    BY DEF Prefetch, RInv, TypeOK
  <1>2. s \in Session
    <2>1. Idle \in Session
      BY IdleType
    <2>2. "open" \in Phase
      BY DEF Phase, InProgress
    <2> QED
      BY <1>1, <2>1, <2>2 DEF Session
  <1>3. s.own = {} /\ s.phase = "open" /\ s.known = Prefetch(r) /\ s.results = <<>>
    BY DEF Idle
  <1>4. sent' \in [Request -> 0..MaxSends]
    BY BoundAssumption DEF Begin, RInv, TypeOK
  <1>5. Len(s.results) <= Len(wanted[r])
    BY <1>3, WantedType
  <1>6. \A row \in s.known : HasName(records \cup s.own, row.name)
    BY <1>1, <1>3 DEF HasName
  <1>7. \A q \in Request \ {r} : session[q].own # {} => holder' = q
    BY DEF Begin, RInv, LockProtects
  <1>8. /\ session' = [session EXCEPT ![r] = s]
        /\ UNCHANGED <<records, counter, holder, answer>>
    BY DEF Begin
  <1>9. counter' \in Nat /\ holder' \in Request \cup {None}
    BY <1>8 DEF RInv, TypeOK
  <1>10. \A k \in DOMAIN s.results : FALSE
    BY <1>3
  <1> HIDE DEF s
  <1> QED
    BY <1>2, <1>3, <1>4, <1>5, <1>6, <1>7, <1>8, <1>9, <1>10, SessionStep

LEMMA ImportStep ==
  ASSUME RInv, NEW n \in Foreign, Import(n), Witness
  PROVE  RInv'
  <1>1. records' = records \cup {[name |-> n, item |-> None, live |-> TRUE]}
    BY DEF Import
  <1>2. records' \subseteq Row
    <2>1. n \in Nat
      BY BoundAssumption
    <2>2. [name |-> n, item |-> None, live |-> TRUE] \in Row
      BY <2>1 DEF Row
    <2> QED
      BY <1>1, <2>2 DEF RInv, TypeOK
  <1>3. \A m : HasName(records, m) => HasName(records', m)
    BY <1>1 DEF HasName
  <1> QED
    BY <1>2, <1>3, RecordStep DEF Import

LEMMA RowStep ==
  ASSUME RInv, NEW row \in records, Tombstone(row) \/ Takeover(row), Witness
  PROVE  RInv'
  <1>1. row \in Row
    BY DEF RInv, TypeOK
  <1>2. PICK new \in Row : new.name = row.name /\ Change(row, new)
    <2>1. CASE Tombstone(row)
      <3>1. /\ [row EXCEPT !.live = FALSE] \in Row
            /\ [row EXCEPT !.live = FALSE].name = row.name
        BY <1>1 DEF Row
      <3> QED
        BY <2>1, <3>1 DEF Tombstone
    <2>2. CASE Takeover(row)
      <3>1. /\ [row EXCEPT !.item = None, !.live = TRUE] \in Row
            /\ [row EXCEPT !.item = None, !.live = TRUE].name = row.name
        BY <1>1 DEF Row
      <3> QED
        BY <2>2, <3>1 DEF Takeover
    <2> QED
      BY <2>1, <2>2
  <1>3. records' \subseteq Row
    BY <1>2 DEF Change, RInv, TypeOK
  <1>4. \A m : HasName(records, m) => HasName(records', m)
    BY <1>2 DEF HasName, Change
  <1> QED
    BY <1>2, <1>3, <1>4, RecordStep DEF Change

----------------------------------------------------------------------------
\* What Answered does to a session.
LEMMA AnsweredFacts ==
  ASSUME NEW s \in Session, NEW x \in Nat \cup {Failed}
  PROVE  LET t == Answered(s, x)
         IN  /\ t \in Session
             /\ t.phase = s.phase /\ t.known = s.known /\ t.own = s.own
             /\ Len(t.results) = Len(s.results) + 1
             /\ \A k \in DOMAIN t.results :
                   \/ k \in DOMAIN s.results /\ t.results[k] = s.results[k]
                   \/ k = Len(s.results) + 1 /\ t.results[k] = x
  <1> DEFINE t == Answered(s, x)
  <1>1. s.results \in Seq(Nat \cup {Failed})
    BY DEF Session
  <1>2. Append(s.results, x) \in Seq(Nat \cup {Failed})
    BY <1>1
  <1>3. 0 \in 0..MaxRetries-1
    BY BoundAssumption
  <1>4. t = [s EXCEPT !.results = Append(s.results, x), !.attempt = 0]
    BY DEF Answered
  <1>5. t \in Session
    BY <1>2, <1>3, <1>4 DEF Session
  <1>6. /\ t.phase = s.phase /\ t.known = s.known /\ t.own = s.own
        /\ t.results = Append(s.results, x)
    BY <1>4 DEF Session
  <1>7. /\ Len(t.results) = Len(s.results) + 1
        /\ \A k \in DOMAIN t.results :
              \/ k \in DOMAIN s.results /\ t.results[k] = s.results[k]
              \/ k = Len(s.results) + 1 /\ t.results[k] = x
    BY <1>1, <1>6
  <1> QED
    BY <1>5, <1>6, <1>7

LEMMA InsertedFacts ==
  ASSUME NEW s \in Session, NEW row \in Row
  PROVE  LET t == Inserted(s, row)
             a == Answered(s, row.name)
         IN  /\ t \in Session
             /\ t.phase = a.phase /\ t.own = a.own \cup {row}
             /\ t.results = a.results
             /\ t.known \subseteq a.known \cup {row}
  <1> DEFINE a == Answered(s, row.name)
  <1>1. row.name \in Nat /\ row.name + 1 \in Nat
    BY DEF Row
  <1>2. a \in Session
    BY <1>1, AnsweredFacts
  <1>3. Inserted(s, row) = [a EXCEPT !.own = a.own \cup {row}, !.next = row.name + 1,
            !.known = IF row.item = None THEN a.known ELSE a.known \cup {row}]
    BY DEF Inserted
  <1> HIDE DEF a
  <1>4. a.own \cup {row} \subseteq Row /\ a.known \cup {row} \subseteq Row
    BY <1>2 DEF Session
  <1>5. (IF row.item = None THEN a.known ELSE a.known \cup {row}) \in SUBSET Row
    BY <1>4
  <1> QED
    BY <1>1, <1>2, <1>3, <1>4, <1>5 DEF Session, a

LEMMA FoundFacts ==
  ASSUME NEW s \in Session, NEW row \in Row
  PROVE  LET t == Found(s, row)
             a == Answered(s, row.name)
         IN  /\ t \in Session
             /\ t.phase = "open" /\ t.own = a.own
             /\ t.results = a.results
             /\ t.known = a.known \cup {row}
  <1> DEFINE a == Answered(s, row.name)
  <1>1. row.name \in Nat
    BY DEF Row
  <1>2. a \in Session
    BY <1>1, AnsweredFacts
  <1>3. Found(s, row) = [a EXCEPT !.phase = "open", !.known = a.known \cup {row}]
    BY DEF Found
  <1> HIDE DEF a
  <1>4. a.known \cup {row} \subseteq Row
    BY <1>2 DEF Session
  <1>5. "open" \in Phase
    BY DEF Phase, InProgress
  <1> QED
    BY <1>2, <1>3, <1>4, <1>5 DEF Session, a

\* A session of the invariant, as the lemmas of the handler's steps use it.
LEMMA SessionFacts ==
  ASSUME RInv, NEW r \in Request
  PROVE  /\ session[r] \in Session
         /\ session[r].results \in Seq(Nat \cup {Failed})
         /\ session[r].known \subseteq Row /\ session[r].own \subseteq Row
         /\ Visible(r) \subseteq Row
         /\ Len(session[r].results) \in Nat
         /\ counter \in Nat /\ holder \in Request \cup {None}
         /\ sent \in [Request -> 0..MaxSends]
         /\ NextValue(r) \in Nat
  BY DEF RInv, TypeOK, Session, Visible, NextValue

LEMMA AnswerKnownStep ==
  ASSUME RInv, NEW r \in Request, AnswerKnown(r), Witness
  PROVE  RInv'
  <1>1. PICK row \in Known(r) : session' = [session EXCEPT ![r] = Answered(@, row.name)]
    BY DEF AnswerKnown
  <1> DEFINE t == Answered(session[r], row.name)
  <1>2. row \in session[r].known /\ row.name \in Nat
    BY SessionFacts DEF Known, Row
  <1>3. t \in Session /\ t.phase = session[r].phase /\ t.known = session[r].known
        /\ t.own = session[r].own /\ Len(t.results) = Len(session[r].results) + 1
        /\ \A k \in DOMAIN t.results :
              \/ k \in DOMAIN session[r].results /\ t.results[k] = session[r].results[k]
              \/ t.results[k] = row.name
    BY <1>2, SessionFacts, AnsweredFacts
  <1>4. Len(t.results) <= Len(wanted[r]) /\ Len(t.results) # 0
    BY SessionFacts, <1>3, CurrentType DEF AnswerKnown, RInv
  <1>5. session' = [session EXCEPT ![r] = t]
    BY <1>1, SessionFacts DEF RInv, TypeOK
  <1>6. session[r].phase \in {"open", "broken"}
    BY DEF AnswerKnown
  <1>7. /\ \A q \in Request : session[q].own # {} => holder' = q
        /\ t.own # {} => t.phase \in {"open", "collided"}
    BY <1>3 DEF AnswerKnown, RInv, LockProtects, Within, Live
  <1>8. t.phase \in {"open", "collided"} =>
          /\ \A x \in t.known : HasName(records \cup t.own, x.name)
          /\ \A k \in DOMAIN t.results : t.results[k] # Failed
               => HasName(records \cup t.own, t.results[k])
    BY <1>2, <1>3 DEF RInv, Covered, Live, Visible
  <1> HIDE DEF t
  <1> QED
    BY <1>3, <1>4, <1>5, <1>6, <1>7, <1>8, SessionFacts, SessionStep DEF AnswerKnown

LEMMA ReserveStep ==
  ASSUME RInv, NEW r \in Request, Reserve(r), Witness
  PROVE  RInv'
  <1> DEFINE n == NextValue(r)
             row == [name |-> n, item |-> Current(r), live |-> TRUE]
             a == Answered(session[r], row.name)
             t == Inserted(session[r], row)
  <1>1. n \in Nat /\ n + 1 \in Nat
    BY SessionFacts
  <1>2. row \in Row /\ row.name = n
    BY <1>1, CurrentType DEF Row, Reserve, Allocating, RInv
  <1>3. a \in Session /\ a.phase = session[r].phase /\ a.known = session[r].known
        /\ a.own = session[r].own /\ Len(a.results) = Len(session[r].results) + 1
        /\ \A k \in DOMAIN a.results :
              \/ k \in DOMAIN session[r].results /\ a.results[k] = session[r].results[k]
              \/ a.results[k] = row.name
    BY <1>1, <1>2, SessionFacts, AnsweredFacts
  <1>4. /\ t \in Session
        /\ t.phase = a.phase /\ t.own = a.own \cup {row} /\ t.results = a.results
        /\ t.known \subseteq a.known \cup {row}
    <2> HIDE DEF row, n
    <2> QED
      BY <1>2, SessionFacts, InsertedFacts
  <1>6. session' = [session EXCEPT ![r] = t]
    BY SessionFacts DEF Reserve, RInv, TypeOK
  <1>7. /\ UNCHANGED <<records, counter, answer, sent>> /\ holder' = r
        /\ holder \in {None, r} /\ session[r].phase = "open"
    BY DEF Reserve, Allocating
  <1>8. Len(a.results) <= Len(wanted[r]) /\ Len(a.results) # 0
    BY SessionFacts, <1>3, CurrentType DEF Reserve, Allocating, RInv
  <1>9. \A q \in Request \ {r} : session[q].own = {}
    BY <1>7, RequestAssumption DEF RInv, LockProtects
  <1> HIDE DEF t, a, row, n
  <1>10. /\ \A x \in t.known : HasName(records \cup t.own, x.name)
         /\ \A k \in DOMAIN t.results : t.results[k] # Failed
               => HasName(records \cup t.own, t.results[k])
    BY <1>2, <1>3, <1>4, <1>7 DEF RInv, Covered, Live, Visible, HasName
  <1> QED
    BY <1>3, <1>4, <1>6, <1>7, <1>8, <1>9, <1>10, SessionFacts, SessionStep

\* A row of the same transaction keeps its place when nothing is appended.
LEMMA BatchCollidesStep ==
  ASSUME RInv, NEW r \in Request, BatchCollides(r), Witness
  PROVE  RInv'
  <1> DEFINE t == [session[r] EXCEPT !.phase = "collided", !.next = NextValue(r) + 1]
  <1>1. NextValue(r) + 1 \in Nat /\ "collided" \in Phase
    BY SessionFacts DEF Phase, InProgress
  <1>2. /\ t \in Session /\ t.phase = "collided" /\ t.own = session[r].own
        /\ t.known = session[r].known /\ t.results = session[r].results
    BY <1>1, SessionFacts DEF Session
  <1>3. session' = [session EXCEPT ![r] = t]
    BY DEF BatchCollides
  <1>4. /\ UNCHANGED <<records, counter, answer, sent>> /\ holder' = r
        /\ holder \in {None, r} /\ session[r].phase = "open"
    BY DEF BatchCollides, Allocating
  <1>5. \A q \in Request \ {r} : session[q].own = {}
    BY <1>4, RequestAssumption DEF RInv, LockProtects
  <1> HIDE DEF t
  <1>6. /\ \A x \in t.known : HasName(records \cup t.own, x.name)
        /\ \A k \in DOMAIN t.results : t.results[k] # Failed
              => HasName(records \cup t.own, t.results[k])
    BY <1>2, <1>4 DEF RInv, Covered, Live, Visible
  <1>7. /\ Len(t.results) <= Len(wanted[r]) /\ Len(t.results) # Len(wanted[r])
        /\ t.own # {} => Len(t.results) # 0
    BY <1>2 DEF RInv, Within, BatchCollides, Allocating, Finished
  <1> QED
    BY <1>2, <1>3, <1>4, <1>5, <1>6, <1>7, SessionFacts, SessionStep

LEMMA RereadStep ==
  ASSUME RInv, NEW r \in Request, Reread(r), Witness
  PROVE  RInv'
  <1>1. /\ session[r].phase = "collided"
        /\ UNCHANGED <<records, counter, holder, answer, sent>>
    BY DEF Reread
  <1>2. /\ \A q \in Request : session[q].own # {} => holder' = q
        /\ ~Finished(r)
    BY <1>1 DEF RInv, LockProtects, Within
  <1>3. /\ \A x \in session[r].known : HasName(Visible(r), x.name)
        /\ \A k \in DOMAIN session[r].results : session[r].results[k] # Failed
              => HasName(Visible(r), session[r].results[k])
    BY <1>1 DEF RInv, Covered, Live
  <1>4. "open" \in Phase
    BY DEF Phase, InProgress
  <1>5. ASSUME NEW row \in Active(Visible(r), Current(r)),
               session' = [session EXCEPT ![r] = Found(@, row)]
        PROVE  RInv'
    <2> DEFINE a == Answered(session[r], row.name)
               t == Found(session[r], row)
    <2>1. row \in Visible(r) /\ row \in Row /\ row.name \in Nat
      BY SessionFacts DEF Active, Row
    <2>2. a \in Session /\ a.known = session[r].known
          /\ a.own = session[r].own /\ Len(a.results) = Len(session[r].results) + 1
          /\ \A k \in DOMAIN a.results :
              \/ k \in DOMAIN session[r].results /\ a.results[k] = session[r].results[k]
              \/ a.results[k] = row.name
      BY <2>1, SessionFacts, AnsweredFacts
    <2>3. /\ t \in Session /\ t.phase = "open" /\ t.own = a.own
          /\ t.results = a.results /\ t.known = a.known \cup {row}
      BY <2>1, SessionFacts, FoundFacts
    <2>4. Len(a.results) <= Len(wanted[r]) /\ Len(a.results) # 0
      BY SessionFacts, <1>2, <2>2, CurrentType DEF RInv
    <2>5. session' = [session EXCEPT ![r] = t]
      BY <1>5
    <2> HIDE DEF a, t
    <2>6. /\ \A x \in t.known : HasName(records \cup t.own, x.name)
          /\ \A k \in DOMAIN t.results : t.results[k] # Failed
                => HasName(records \cup t.own, t.results[k])
      BY <1>3, <2>1, <2>2, <2>3 DEF Visible, HasName
    <2> QED
      BY <1>1, <1>2, <2>2, <2>3, <2>4, <2>5, <2>6, SessionFacts, SessionStep
  <1>6. ASSUME session[r].attempt + 1 < MaxRetries,
               session' = [session EXCEPT ![r] =
                     [@ EXCEPT !.phase = "open", !.attempt = session[r].attempt + 1]]
        PROVE  RInv'
    <2> DEFINE t == [session[r] EXCEPT !.phase = "open",
                                       !.attempt = session[r].attempt + 1]
    <2>1. session[r].attempt + 1 \in 0..MaxRetries-1
      BY <1>6, SessionFacts, BoundAssumption DEF Session
    <2>2. /\ t \in Session /\ t.phase = "open" /\ t.own = session[r].own
          /\ t.known = session[r].known /\ t.results = session[r].results
      BY <1>4, <2>1, SessionFacts DEF Session
    <2>3. session' = [session EXCEPT ![r] = t]
      BY <1>6
    <2> HIDE DEF t
    <2>4. Len(t.results) <= Len(wanted[r]) /\ (t.own # {} => Len(t.results) # 0)
      BY <2>2 DEF RInv, Within
    <2>5. /\ \A x \in t.known : HasName(records \cup t.own, x.name)
          /\ \A k \in DOMAIN t.results : t.results[k] # Failed
                => HasName(records \cup t.own, t.results[k])
      BY <1>3, <2>2 DEF Visible
    <2> QED
      BY <1>1, <1>2, <2>2, <2>3, <2>4, <2>5, SessionFacts, SessionStep
  <1>7. ASSUME session' = [session EXCEPT ![r] =
                     [Answered(@, Failed) EXCEPT !.phase = "open"]]
        PROVE  RInv'
    <2> DEFINE a == Answered(session[r], Failed)
               t == [a EXCEPT !.phase = "open"]
    <2>1. a \in Session /\ a.known = session[r].known
          /\ a.own = session[r].own /\ Len(a.results) = Len(session[r].results) + 1
          /\ \A k \in DOMAIN a.results :
              \/ k \in DOMAIN session[r].results /\ a.results[k] = session[r].results[k]
              \/ a.results[k] = Failed
      BY SessionFacts, AnsweredFacts
    <2>2. session' = [session EXCEPT ![r] = t]
      BY <1>7
    <2>3. Len(a.results) <= Len(wanted[r]) /\ Len(a.results) # 0
      BY SessionFacts, <1>2, <2>1, CurrentType DEF RInv
    <2> HIDE DEF a
    <2>4. /\ t \in Session /\ t.phase = "open" /\ t.own = a.own
          /\ t.results = a.results /\ t.known = a.known
      BY <1>4, <2>1 DEF Session
    <2> HIDE DEF t
    <2>5. /\ \A x \in t.known : HasName(records \cup t.own, x.name)
          /\ \A k \in DOMAIN t.results : t.results[k] # Failed
                => HasName(records \cup t.own, t.results[k])
      BY <1>3, <2>1, <2>4 DEF Visible
    <2> QED
      BY <1>1, <1>2, <2>1, <2>2, <2>3, <2>4, <2>5, SessionFacts, SessionStep
  <1> QED
    BY <1>5, <1>6, <1>7 DEF Reread

LEMMA SingleCollidesStep ==
  ASSUME RInv, NEW r \in Request, SingleCollides(r), Witness
  PROVE  RInv'
  <1>1. /\ UNCHANGED <<records, answer, sent>> /\ holder' = None
        /\ counter' \in Nat
        /\ holder \in {None, r} /\ session[r].phase = "open"
    BY SessionFacts DEF SingleCollides, Allocating
  <1>2. \A q \in Request \ {r} : session[q].own = {}
    BY <1>1, RequestAssumption DEF RInv, LockProtects
  <1>3. wanted[r] = <<None>> /\ Len(wanted[r]) = 1
    <2>1. r \in Single
      BY DEF SingleCollides
    <2>2. wanted[r] = <<None>>
      BY <2>1, RequestAssumption
    <2> QED
      BY <2>2
  <1>4. CASE session[r].attempt + 1 < MaxRetries
    <2> DEFINE t == [session[r] EXCEPT !.attempt = session[r].attempt + 1]
    <2>1. session[r].attempt + 1 \in 0..MaxRetries-1
      BY <1>4, SessionFacts, BoundAssumption DEF Session
    <2>2. /\ t \in Session /\ t.phase = "open" /\ t.own = session[r].own
          /\ t.known = session[r].known /\ t.results = session[r].results
      BY <1>1, <2>1, SessionFacts DEF Session
    <2>3. session' = [session EXCEPT ![r] = t]
      BY <1>4 DEF SingleCollides
    <2>4. /\ session[r].own = {}
          /\ Len(t.results) <= Len(wanted[r])
      <3>1. ~Finished(r)
        BY DEF SingleCollides, Allocating
      <3>2. Len(session[r].results) = 0
        <4>1. /\ Len(session[r].results) <= Len(wanted[r])
              /\ Len(session[r].results) # Len(wanted[r])
          BY <3>1 DEF RInv, Within, Finished
        <4>2. Len(session[r].results) \in Nat
          BY SessionFacts
        <4>3. \A m \in Nat : m <= 1 /\ m # 1 => m = 0
          OBVIOUS
        <4> HIDE DEF t
        <4> QED
          BY <1>3, <4>1, <4>2, <4>3
      <3> QED
        BY <1>3, <2>2, <3>2 DEF RInv, Within
    <2> HIDE DEF t
    <2>5. /\ \A x \in t.known : HasName(records \cup t.own, x.name)
          /\ \A k \in DOMAIN t.results : t.results[k] # Failed
                => HasName(records \cup t.own, t.results[k])
      BY <1>1, <2>2 DEF RInv, Covered, Live, Visible
    <2> QED
      BY <1>1, <1>2, <2>2, <2>3, <2>4, <2>5, SessionFacts, SessionStep
  <1>5. CASE ~(session[r].attempt + 1 < MaxRetries)
    <2> DEFINE t == [Idle EXCEPT !.phase = "refused"]
    <2>1. "refused" \in Phase
      BY DEF Phase, Over
    <2>2. /\ t \in Session /\ t.phase = "refused" /\ t.own = {} /\ t.results = <<>>
      BY <2>1, IdleType DEF Session, Idle
    <2>3. session' = [session EXCEPT ![r] = t]
      BY <1>5 DEF SingleCollides
    <2>4. Len(t.results) <= Len(wanted[r])
      BY <2>2, <1>3
    <2> HIDE DEF t
    <2> QED
      BY <1>1, <1>2, <2>2, <2>3, <2>4, SessionFacts, SessionStep
  <1> QED
    BY <1>4, <1>5

\* The transaction of r is rolled back.
LEMMA AbortStep ==
  ASSUME RInv, NEW r \in Request, Abort(r), Witness
  PROVE  RInv'
  <1>1. /\ UNCHANGED <<records, counter, answer, sent>>
        /\ holder' = IF holder = r THEN None ELSE holder
        /\ session' = [session EXCEPT ![r] = Idle]
    BY DEF Abort, Release
  <1>2. \A q \in Request \ {r} : session[q].own # {} => holder' = q
    BY <1>1 DEF RInv, LockProtects
  <1>3. Idle.own = {} /\ Idle.phase = "idle" /\ Idle.results = <<>>
    BY DEF Idle
  <1>4. Len(Idle.results) <= Len(wanted[r])
    BY <1>3, WantedType
  <1>5. counter' \in Nat /\ holder' \in Request \cup {None}
        /\ sent' \in [Request -> 0..MaxSends]
    BY <1>1, SessionFacts
  <1> QED
    BY <1>1, <1>2, <1>3, <1>4, <1>5, IdleType, SessionStep

LEMMA BreakStep ==
  ASSUME RInv, NEW r \in Request, Break(r), Witness
  PROVE  RInv'
  <1> DEFINE a == Answered(session[r], Failed)
             t == [a EXCEPT !.phase = "broken", !.own = {}]
  <1>1. /\ UNCHANGED <<records, counter, answer, sent>>
        /\ holder' = IF holder = r THEN None ELSE holder
        /\ session' = [session EXCEPT ![r] = t]
    BY DEF Break, Release
  <1>2. \A q \in Request \ {r} : session[q].own # {} => holder' = q
    BY <1>1 DEF RInv, LockProtects
  <1>3. a \in Session /\ Len(a.results) = Len(session[r].results) + 1
    BY SessionFacts, AnsweredFacts
  <1>4. "broken" \in Phase
    BY DEF Phase, InProgress
  <1>5. Len(a.results) <= Len(wanted[r]) /\ Len(a.results) # 0
    BY SessionFacts, <1>3, CurrentType DEF RInv, Break
  <1> HIDE DEF a
  <1>6. t \in Session /\ t.phase = "broken" /\ t.own = {} /\ t.results = a.results
    BY <1>3, <1>4 DEF Session
  <1>7. counter' \in Nat /\ holder' \in Request \cup {None}
        /\ sent' \in [Request -> 0..MaxSends]
    BY <1>1, SessionFacts
  <1> HIDE DEF t
  <1> QED
    BY <1>1, <1>2, <1>5, <1>6, <1>7, SessionStep

LEMMA FailItemStep ==
  ASSUME RInv, NEW r \in Request, FailItem(r), Witness
  PROVE  RInv'
  <1> DEFINE t == Answered(session[r], Failed)
  <1>1. /\ UNCHANGED <<records, counter, holder, answer, sent>>
        /\ session' = [session EXCEPT ![r] = t]
        /\ session[r].phase = "broken"
    BY DEF FailItem
  <1>2. /\ \A q \in Request : session[q].own # {} => holder' = q
        /\ session[r].own = {}
    BY <1>1 DEF RInv, LockProtects, Within, Live
  <1>3. /\ t \in Session /\ t.phase = "broken" /\ t.own = session[r].own
        /\ Len(t.results) = Len(session[r].results) + 1
    BY <1>1, SessionFacts, AnsweredFacts
  <1>4. Len(t.results) <= Len(wanted[r]) /\ Len(t.results) # 0
    BY SessionFacts, <1>3, CurrentType DEF RInv, FailItem
  <1> HIDE DEF t
  <1> QED
    BY <1>1, <1>2, <1>3, <1>4, SessionFacts, SessionStep

\* The commit makes the rows visible in the step that answers them.
LEMMA CommitStep ==
  ASSUME RInv, NEW r \in Request, Commit(r), Witness
  PROVE  RInv'
  <1>1. /\ session[r].phase \in {"open", "broken"} /\ Finished(r)
        /\ records' = Visible(r) /\ counter' = NextValue(r)
        /\ holder' = (IF holder = r THEN None ELSE holder) /\ sent' = sent
    BY DEF Commit, Respond, Visible
  <1>2. PICK t \in Session :
           /\ session' = [session EXCEPT ![r] = t]
           /\ t.own = {} /\ t.results = <<>>
           /\ t.phase \in {"idle", "answered", "misled"}
           /\ t.phase = "answered" => session[r].phase = "open"
           /\ \/ answer' = [answer EXCEPT ![r] = session[r].results]
              \/ t.phase = "idle" /\ answer' = answer
    <2>1. {"answered", "misled"} \subseteq Phase
      BY DEF Phase, Over
    <2>2. \A ph \in {"answered", "misled"} :
             /\ [Idle EXCEPT !.phase = ph] \in Session
             /\ [Idle EXCEPT !.phase = ph].own = {}
             /\ [Idle EXCEPT !.phase = ph].results = <<>>
             /\ [Idle EXCEPT !.phase = ph].phase = ph
      BY <2>1, IdleType DEF Session, Idle
    <2>3. Idle.own = {} /\ Idle.phase = "idle" /\ Idle.results = <<>>
      BY DEF Idle
    <2>4. CASE /\ answer' = [answer EXCEPT ![r] = session[r].results]
               /\ session' = [session EXCEPT ![r] = [Idle EXCEPT !.phase =
                    IF session[r].phase = "open" THEN "answered" ELSE "misled"]]
      BY <2>2, <2>4
    <2>5. CASE session' = [session EXCEPT ![r] = Idle] /\ answer' = answer
      BY <2>3, <2>5, IdleType
    <2> QED
      BY <2>4, <2>5 DEF Commit, Respond
  <1>3. /\ \A q \in Request : session'[q] = IF q = r THEN t ELSE session[q]
        /\ \A q \in Request \ {r} : answer'[q] = answer[q]
        /\ answer'[r] \in {answer[r], session[r].results}
        /\ t.phase = "answered" => answer'[r] = session[r].results
    BY <1>2 DEF RInv, TypeOK
  <1>4. TypeOK'
    <2>1. records' \subseteq Row /\ counter' \in Nat /\ holder' \in Request \cup {None}
      BY <1>1, SessionFacts
    <2>2. session' \in [Request -> Session]
      BY <1>2 DEF RInv, TypeOK
    <2>3. answer' \in [Request -> Seq(Nat \cup {Failed})]
      BY <1>2, SessionFacts DEF RInv, TypeOK
    <2> QED
      BY <1>1, <2>1, <2>2, <2>3, WitnessType DEF RInv, TypeOK
  <1>5. LockProtects'
    BY <1>1, <1>2, <1>3 DEF RInv, LockProtects
  <1>6. Within'
    BY <1>2, <1>3, WantedType DEF RInv, Within, Finished, Live
  <1>7. ASSUME NEW q \in Request, NEW n, HasName(records \cup session[q].own, n)
        PROVE  HasName(records' \cup session[q].own, n)
    BY <1>1, <1>7 DEF HasName, Visible
  <1>8. Covered'
    <2> SUFFICES ASSUME NEW q \in Request, Live(q)'
                 PROVE  (/\ \A row \in session[q].known : HasName(Visible(q), row.name)
                         /\ \A k \in DOMAIN session[q].results :
                               session[q].results[k] # Failed
                                => HasName(Visible(q), session[q].results[k]))'
      BY DEF Covered
    <2>1. q # r /\ session'[q] = session[q]
      BY <1>2, <1>3 DEF Live
    <2>2. /\ \A row \in session[q].known : HasName(Visible(q), row.name)
          /\ \A k \in DOMAIN session[q].results :
                session[q].results[k] # Failed
                 => HasName(Visible(q), session[q].results[k])
      BY <2>1 DEF RInv, Covered, Live
    <2>3. \A n : HasName(Visible(q), n) => HasName(Visible(q), n)'
      BY <1>7, <2>1 DEF Visible, HasName
    <2> QED
      BY <2>1, <2>2, <2>3
  <1>9. AnswersAreReserved'
    <2> SUFFICES ASSUME NEW q \in Request, NEW k \in Given(q)'
                 PROVE  Registered(answer[q][k])'
      BY DEF AnswersAreReserved
    <2>1. CASE q # r
      BY <1>1, <1>3, <2>1 DEF RInv, AnswersAreReserved, Given, Registered, Visible
    <2>2. CASE q = r
      <3>1. /\ session[r].phase = "open" /\ answer'[r] = session[r].results
            /\ k \in DOMAIN session[r].results /\ session[r].results[k] # Failed
        BY <1>2, <1>3, <2>2 DEF Given
      <3> QED
        BY <1>1, <2>2, <3>1 DEF RInv, Covered, Live, HasName, Registered
    <2> QED
      BY <2>1, <2>2
  <1> QED
    BY <1>4, <1>5, <1>6, <1>8, <1>9 DEF RInv

----------------------------------------------------------------------------
\* Every step keeps the invariant.
THEOREM RNext == RInv /\ [Next]_vars => RInv'
  <1> SUFFICES ASSUME RInv, [Next]_vars PROVE RInv'
    OBVIOUS
  <1>1. CASE Next
    <2>1. Witness
      BY <1>1 DEF Next
    <2>2. ASSUME NEW r \in Request, Begin(r) PROVE RInv'
      BY <2>1, <2>2, BeginStep
    <2>3. ASSUME NEW r \in Request, Handle(r) PROVE RInv'
      BY <2>1, <2>3, AnswerKnownStep, ReserveStep, BatchCollidesStep, RereadStep,
         SingleCollidesStep, CommitStep, FailItemStep DEF Handle
    <2>4. ASSUME NEW r \in Request, Break(r) PROVE RInv'
      BY <2>1, <2>4, BreakStep
    <2>5. ASSUME NEW r \in Request, Abort(r) PROVE RInv'
      BY <2>1, <2>5, AbortStep
    <2>6. ASSUME NEW n \in Foreign, Import(n) PROVE RInv'
      BY <2>1, <2>6, ImportStep
    <2>7. ASSUME NEW row \in records, Tombstone(row) \/ Takeover(row) PROVE RInv'
      BY <2>1, <2>7, RowStep
    <2> QED
      BY <1>1, <2>2, <2>3, <2>4, <2>5, <2>6, <2>7 DEF Next, Step
  <1>2. CASE UNCHANGED vars
    BY <1>2 DEF vars, RInv, TypeOK, LockProtects, Within, Covered,
       AnswersAreReserved, Live, Visible, Finished, Given, Registered, HasName
  <1> QED
    BY <1>1, <1>2

\* The invariant of the transactions holds in every reachable state.
THEOREM RInductive == Spec => []RInv
  BY RInit, RNext, PTL DEF Spec

\* Every variable keeps its type: in particular no request tries more than
\* MaxRetries numbers for one ARK, and none holds the lock for nobody.
THEOREM ReservationTypes == Spec => []TypeOK
  <1>1. RInv => TypeOK
    BY DEF RInv
  <1> QED
    BY <1>1, RInductive, PTL

\* A name that a committed transaction answered is registered for good.
THEOREM AnsweredIsReserved == Spec => []AnswersAreReserved
  <1>1. RInv => AnswersAreReserved
    BY DEF RInv
  <1> QED
    BY <1>1, RInductive, PTL

----------------------------------------------------------------------------
(* No two answers clash: a name is claimed once *)

\* The one request that may name an ARK without a client item.
Owner(r, i) == IF i = None THEN r ELSE None

\* Request r has read, written or been answered name n for item i.
SessionClaim(r, n, i) ==
    \/ Live(r) /\ \E row \in session[r].own \cup session[r].known :
                      row.name = n /\ row.item = i
    \/ Live(r) /\ \E k \in DOMAIN session[r].results :
                      /\ session[r].results[k] = n /\ n # Failed
                      /\ wanted[r][k] = i
    \/ \E k \in Given(r) : answer[r][k] = n /\ wanted[r][k] = i

Claim(n, i, w) ==
    \/ w = None /\ i # None /\ \E row \in records : row.name = n /\ row.item = i
    \/ \E r \in Request : w = Owner(r, i) /\ SessionClaim(r, n, i)

ClaimedOnce ==
    \A n, i, w, j, v : Claim(n, i, w) /\ Claim(n, j, v) => i = j /\ w = v

\* What is claimed is registered, or written by the transaction in progress.
LEMMA ClaimRegistered ==
  ASSUME RInv, NEW r \in Request, holder \in {None, r},
         NEW n, NEW i, NEW w, Claim(n, i, w)
  PROVE  HasName(Visible(r), n)
  <1>1. \A q \in Request \ {r} : session[q].own = {}
    BY RequestAssumption DEF RInv, LockProtects
  <1>2. CASE \E row \in records : row.name = n /\ row.item = i
    BY <1>2 DEF HasName, Visible
  <1>3. ASSUME NEW q \in Request, SessionClaim(q, n, i)
        PROVE  HasName(Visible(r), n)
    <2>1. HasName(Visible(q), n)
      <3>1. CASE Live(q) /\ \E row \in session[q].own \cup session[q].known :
                               row.name = n /\ row.item = i
        BY <3>1 DEF RInv, Covered, HasName, Visible
      <3>2. CASE Live(q) /\ \E k \in DOMAIN session[q].results :
                               /\ session[q].results[k] = n /\ n # Failed
                               /\ wanted[q][k] = i
        BY <3>2 DEF RInv, Covered
      <3>3. CASE \E k \in Given(q) : answer[q][k] = n /\ wanted[q][k] = i
        BY <3>3 DEF RInv, AnswersAreReserved, Registered, HasName, Visible
      <3> QED
        BY <1>3, <3>1, <3>2, <3>3 DEF SessionClaim
    <2> QED
      BY <1>1, <2>1 DEF HasName, Visible
  <1> QED
    BY <1>2, <1>3 DEF Claim

\* What session t of request r may claim.
NewClaim(r, t, n, i, w) ==
    /\ w = Owner(r, i) /\ t.phase \in {"open", "collided"}
    /\ \/ \E row \in t.own \cup t.known : row.name = n /\ row.item = i
       \/ \E k \in DOMAIN t.results :
             t.results[k] = n /\ n # Failed /\ wanted[r][k] = i

\* A step of r's transaction adds no claims but those of its new session.
LEMMA SessionClaims ==
  ASSUME RInv, NEW r \in Request, NEW t \in Session,
         session' = [session EXCEPT ![r] = t],
         records' = records, answer' = answer, t.phase # "answered"
  PROVE  \A n, i, w : Claim(n, i, w)' => Claim(n, i, w) \/ NewClaim(r, t, n, i, w)
  <1> SUFFICES ASSUME NEW n, NEW i, NEW w, Claim(n, i, w)'
               PROVE  Claim(n, i, w) \/ NewClaim(r, t, n, i, w)
    OBVIOUS
  <1>1. \A q \in Request : session'[q] = IF q = r THEN t ELSE session[q]
    BY DEF RInv, TypeOK
  <1>2. CASE w = None /\ i # None /\ \E row \in records' : row.name = n /\ row.item = i
    BY <1>2 DEF Claim
  <1>3. ASSUME NEW q \in Request, w = Owner(q, i), SessionClaim(q, n, i)', q # r
        PROVE  Claim(n, i, w)
    BY <1>1, <1>3 DEF Claim, SessionClaim, Live, Given
  <1>4. ASSUME w = Owner(r, i), SessionClaim(r, n, i)'
        PROVE  NewClaim(r, t, n, i, w)
    BY <1>1, <1>4 DEF SessionClaim, Live, Given, NewClaim
  <1>5. \/ w = None /\ i # None /\ \E row \in records' : row.name = n /\ row.item = i
        \/ \E q \in Request : w = Owner(q, i) /\ SessionClaim(q, n, i)'
    BY DEF Claim, Owner
  <1> QED
    BY <1>2, <1>3, <1>4, <1>5

\* A step that makes no claim keeps the claims unique.
LEMMA NoNewClaim ==
  ASSUME ClaimedOnce,
         \A n, i, w : Claim(n, i, w)' => Claim(n, i, w)
  PROVE  ClaimedOnce'
  BY DEF ClaimedOnce

LEMMA RecordClaims ==
  ASSUME RInv, ClaimedOnce, UNCHANGED <<session, answer>>,
         \A row \in records' : row.item # None =>
            \E x \in records : x.name = row.name /\ x.item = row.item
  PROVE  ClaimedOnce'
  <1>1. ASSUME NEW n, NEW i, NEW w, Claim(n, i, w)'
        PROVE  Claim(n, i, w)
    BY <1>1 DEF Claim, SessionClaim, Live, Given, Owner
  <1> QED
    BY <1>1, NoNewClaim

LEMMA BeginClaims ==
  ASSUME RInv, ClaimedOnce, NEW r \in Request, Begin(r)
  PROVE  ClaimedOnce'
  <1> DEFINE t == [Idle EXCEPT !.phase = "open", !.known = Prefetch(r)]
  <1>1. \A row \in Prefetch(r) : row \in records /\ row \in Row /\ row.item # None
    BY DEF Prefetch, Active, RInv, TypeOK
  <1>2. "open" \in Phase
    BY DEF Phase, InProgress
  <1>3. t \in Session
    BY <1>1, <1>2, IdleType DEF Session
  <1>4. /\ t.own = {} /\ t.phase = "open" /\ t.known = Prefetch(r) /\ t.results = <<>>
        /\ \A k \in DOMAIN t.results : FALSE
    BY DEF Idle
  <1>5. /\ session' = [session EXCEPT ![r] = t]
        /\ UNCHANGED <<records, answer>>
    BY DEF Begin
  <1> HIDE DEF t
  <1>6. ASSUME NEW n, NEW i, NEW w, Claim(n, i, w)' PROVE Claim(n, i, w)
    <2>1. CASE w = Owner(r, i) /\ \E row \in Prefetch(r) : row.name = n /\ row.item = i
      BY <1>1, <2>1 DEF Claim, Owner
    <2>2. Claim(n, i, w) \/ NewClaim(r, t, n, i, w)
      BY <1>3, <1>4, <1>5, <1>6, SessionClaims
    <2> QED
      BY <1>4, <2>1, <2>2 DEF NewClaim
  <1> QED
    BY <1>6, NoNewClaim

LEMMA AnswerKnownClaims ==
  ASSUME RInv, ClaimedOnce, NEW r \in Request, AnswerKnown(r)
  PROVE  ClaimedOnce'
  <1>1. PICK row \in Known(r) : session' = [session EXCEPT ![r] = Answered(@, row.name)]
    BY DEF AnswerKnown
  <1> DEFINE t == Answered(session[r], row.name)
  <1>2. row \in session[r].known /\ row.item = Current(r) /\ row.name \in Nat
    BY SessionFacts DEF Known, Row
  <1>3. t \in Session /\ t.phase = session[r].phase /\ t.known = session[r].known
        /\ t.own = session[r].own
        /\ \A k \in DOMAIN t.results :
              \/ k \in DOMAIN session[r].results /\ t.results[k] = session[r].results[k]
              \/ k = Len(session[r].results) + 1 /\ t.results[k] = row.name
    BY <1>2, SessionFacts, AnsweredFacts
  <1>4. /\ session' = [session EXCEPT ![r] = t]
        /\ UNCHANGED <<records, answer>>
        /\ session[r].phase # "answered"
    BY <1>1 DEF AnswerKnown
  <1> HIDE DEF t
  <1>5. ASSUME NEW n, NEW i, NEW w, Claim(n, i, w)' PROVE Claim(n, i, w)
    <2>1. ASSUME w = Owner(r, i), t.phase \in {"open", "collided"},
                 \E x \in t.own \cup t.known : x.name = n /\ x.item = i
          PROVE  Claim(n, i, w)
      BY <1>3, <2>1 DEF Claim, SessionClaim, Live
    <2>2. ASSUME w = Owner(r, i), t.phase \in {"open", "collided"},
                 NEW k \in DOMAIN t.results,
                 t.results[k] = n, n # Failed, wanted[r][k] = i
          PROVE  Claim(n, i, w)
      <3>1. CASE k \in DOMAIN session[r].results /\ t.results[k] = session[r].results[k]
        BY <1>3, <2>2, <3>1 DEF Claim, SessionClaim, Live
      <3>2. CASE k = Len(session[r].results) + 1 /\ t.results[k] = row.name
        BY <1>2, <1>3, <2>2, <3>2 DEF Claim, SessionClaim, Live, Current
      <3> QED
        BY <1>3, <3>1, <3>2
    <2>3. Claim(n, i, w) \/ NewClaim(r, t, n, i, w)
      BY <1>3, <1>4, <1>5, SessionClaims
    <2> QED
      BY <2>1, <2>2, <2>3 DEF NewClaim
  <1> QED
    BY <1>5, NoNewClaim

\* A session that is left with the rows and results it had claims nothing new.
LEMMA SameClaims ==
  ASSUME RInv, ClaimedOnce, NEW r \in Request, NEW t \in Session,
         session' = [session EXCEPT ![r] = t], UNCHANGED <<records, answer>>,
         t.phase # "answered",
         t.phase \in {"open", "collided"} =>
            /\ Live(r) /\ t.own = session[r].own /\ t.known = session[r].known
            /\ \A k \in DOMAIN t.results :
                  \/ k \in DOMAIN session[r].results /\ t.results[k] = session[r].results[k]
                  \/ t.results[k] = Failed
  PROVE  ClaimedOnce'
  <1>1. ASSUME NEW n, NEW i, NEW w, Claim(n, i, w)' PROVE Claim(n, i, w)
    <2>1. ASSUME w = Owner(r, i), t.phase \in {"open", "collided"},
                 \E x \in t.own \cup t.known : x.name = n /\ x.item = i
          PROVE  Claim(n, i, w)
      BY <2>1 DEF Claim, SessionClaim, Live
    <2>2. ASSUME w = Owner(r, i), t.phase \in {"open", "collided"},
                 \E k \in DOMAIN t.results :
                    t.results[k] = n /\ n # Failed /\ wanted[r][k] = i
          PROVE  Claim(n, i, w)
      BY <2>2 DEF Claim, SessionClaim, Live
    <2>3. Claim(n, i, w) \/ NewClaim(r, t, n, i, w)
      BY <1>1, SessionClaims
    <2> QED
      BY <2>1, <2>2, <2>3 DEF NewClaim
  <1> QED
    BY <1>1, NoNewClaim

\* The number that is allocated is claimed by nobody.
LEMMA ReserveClaims ==
  ASSUME RInv, ClaimedOnce, NEW r \in Request, Reserve(r)
  PROVE  ClaimedOnce'
  <1> DEFINE m == NextValue(r)
             row == [name |-> m, item |-> Current(r), live |-> TRUE]
             a == Answered(session[r], row.name)
             t == Inserted(session[r], row)
  <1>1. m \in Nat
    BY SessionFacts
  <1>2. row \in Row /\ row.name = m /\ row.item = Current(r)
    BY <1>1, CurrentType DEF Row, Reserve, Allocating, RInv
  <1>3. a \in Session /\ a.phase = session[r].phase /\ a.known = session[r].known
        /\ a.own = session[r].own
        /\ \A k \in DOMAIN a.results :
              \/ k \in DOMAIN session[r].results /\ a.results[k] = session[r].results[k]
              \/ k = Len(session[r].results) + 1 /\ a.results[k] = row.name
    BY <1>1, <1>2, SessionFacts, AnsweredFacts
  <1>4. /\ t \in Session
        /\ t.phase = a.phase /\ t.own = a.own \cup {row} /\ t.results = a.results
        /\ t.known \subseteq a.known \cup {row}
    <2> HIDE DEF row, m
    <2> QED
      BY <1>2, SessionFacts, InsertedFacts
  <1>5. /\ session' = [session EXCEPT ![r] = t]
        /\ UNCHANGED <<records, answer>>
        /\ session[r].phase = "open" /\ holder \in {None, r}
        /\ ~HasName(Visible(r), m)
    BY SessionFacts DEF Reserve, Allocating, Collides, HasName, RInv, TypeOK
  <1> HIDE DEF t, a, row, m
  <1>6. ASSUME NEW n, NEW i, NEW w, Claim(n, i, w)'
        PROVE  Claim(n, i, w) \/ (n = m /\ i = Current(r) /\ w = Owner(r, i))
    <2>1. ASSUME w = Owner(r, i), \E x \in t.own \cup t.known : x.name = n /\ x.item = i
          PROVE  Claim(n, i, w) \/ (n = m /\ i = Current(r))
      BY <1>2, <1>3, <1>4, <1>5, <2>1 DEF Claim, SessionClaim, Live
    <2>2. ASSUME w = Owner(r, i), NEW k \in DOMAIN t.results,
                 t.results[k] = n, n # Failed, wanted[r][k] = i
          PROVE  Claim(n, i, w) \/ (n = m /\ i = Current(r))
      <3>1. CASE k \in DOMAIN session[r].results /\ a.results[k] = session[r].results[k]
        BY <1>4, <1>5, <2>2, <3>1 DEF Claim, SessionClaim, Live
      <3>2. CASE k = Len(session[r].results) + 1 /\ a.results[k] = row.name
        BY <1>2, <1>4, <2>2, <3>2 DEF Current
      <3> QED
        BY <1>3, <1>4, <2>2, <3>1, <3>2
    <2>3. Claim(n, i, w) \/ NewClaim(r, t, n, i, w)
      BY <1>3, <1>4, <1>5, <1>6, SessionClaims
    <2> QED
      BY <2>1, <2>2, <2>3 DEF NewClaim
  <1>7. ASSUME NEW i, NEW w PROVE ~Claim(m, i, w)
    BY <1>5, ClaimRegistered
  <1> QED
    BY <1>6, <1>7 DEF ClaimedOnce

LEMMA RereadClaims ==
  ASSUME RInv, ClaimedOnce, NEW r \in Request, Reread(r)
  PROVE  ClaimedOnce'
  <1>1. /\ Live(r) /\ UNCHANGED <<records, answer>> /\ "open" \in Phase
    BY DEF Reread, Live, Phase, InProgress
  <1>2. ASSUME NEW row \in Active(Visible(r), Current(r)),
               session' = [session EXCEPT ![r] = Found(@, row)]
        PROVE  ClaimedOnce'
    <2> DEFINE a == Answered(session[r], row.name)
               t == Found(session[r], row)
    <2>1. /\ row \in Visible(r) /\ row \in Row /\ row.name \in Nat
          /\ row.item = Current(r) /\ row.item # None
      BY SessionFacts DEF Active, Row
    <2>2. a \in Session /\ a.known = session[r].known
          /\ a.own = session[r].own
          /\ \A k \in DOMAIN a.results :
              \/ k \in DOMAIN session[r].results /\ a.results[k] = session[r].results[k]
              \/ k = Len(session[r].results) + 1 /\ a.results[k] = row.name
      BY <2>1, SessionFacts, AnsweredFacts
    <2>3. /\ t \in Session /\ t.phase = "open" /\ t.own = a.own
          /\ t.results = a.results /\ t.known = a.known \cup {row}
      BY <2>1, SessionFacts, FoundFacts
    <2>4. session' = [session EXCEPT ![r] = t]
      BY <1>2
    <2> HIDE DEF a, t
    <2>5. Claim(row.name, row.item, Owner(r, row.item))
      BY <1>1, <2>1 DEF Claim, SessionClaim, Owner, Visible
    <2>6. ASSUME NEW n, NEW i, NEW w, Claim(n, i, w)' PROVE Claim(n, i, w)
      <3>1. ASSUME w = Owner(r, i), \E x \in t.own \cup t.known : x.name = n /\ x.item = i
            PROVE  Claim(n, i, w)
        BY <1>1, <2>2, <2>3, <2>5, <3>1 DEF Claim, SessionClaim
      <3>2. ASSUME w = Owner(r, i), NEW k \in DOMAIN t.results,
                   t.results[k] = n, n # Failed, wanted[r][k] = i
            PROVE  Claim(n, i, w)
        <4>1. CASE k \in DOMAIN session[r].results /\ a.results[k] = session[r].results[k]
          BY <1>1, <2>3, <3>2, <4>1 DEF Claim, SessionClaim
        <4>2. CASE k = Len(session[r].results) + 1 /\ a.results[k] = row.name
          BY <2>1, <2>3, <2>5, <3>2, <4>2 DEF Current
        <4> QED
          BY <2>2, <2>3, <3>2, <4>1, <4>2
      <3>3. Claim(n, i, w) \/ NewClaim(r, t, n, i, w)
        BY <1>1, <2>3, <2>4, <2>6, SessionClaims
      <3> QED
        BY <3>1, <3>2, <3>3 DEF NewClaim
    <2> QED
      BY <2>6, NoNewClaim
  <1>3. ASSUME session[r].attempt + 1 < MaxRetries,
               session' = [session EXCEPT ![r] =
                     [@ EXCEPT !.phase = "open", !.attempt = session[r].attempt + 1]]
        PROVE  ClaimedOnce'
    <2> DEFINE t == [session[r] EXCEPT !.phase = "open",
                                       !.attempt = session[r].attempt + 1]
    <2>1. session[r].attempt + 1 \in 0..MaxRetries-1
      BY <1>3, SessionFacts, BoundAssumption DEF Session
    <2>2. /\ t \in Session /\ t.phase = "open" /\ t.own = session[r].own
          /\ t.known = session[r].known /\ t.results = session[r].results
      BY <1>1, <2>1, SessionFacts DEF Session
    <2>3. session' = [session EXCEPT ![r] = t]
      BY <1>3
    <2> HIDE DEF t
    <2> QED
      BY <1>1, <2>2, <2>3, SameClaims
  <1>4. ASSUME session' = [session EXCEPT ![r] =
                     [Answered(@, Failed) EXCEPT !.phase = "open"]]
        PROVE  ClaimedOnce'
    <2> DEFINE a == Answered(session[r], Failed)
               t == [a EXCEPT !.phase = "open"]
    <2>1. a \in Session /\ a.known = session[r].known
          /\ a.own = session[r].own
          /\ \A k \in DOMAIN a.results :
              \/ k \in DOMAIN session[r].results /\ a.results[k] = session[r].results[k]
              \/ a.results[k] = Failed
      BY SessionFacts, AnsweredFacts
    <2>2. session' = [session EXCEPT ![r] = t]
      BY <1>4
    <2> HIDE DEF a
    <2>3. /\ t \in Session /\ t.phase = "open" /\ t.own = a.own
          /\ t.results = a.results /\ t.known = a.known
      BY <1>1, <2>1 DEF Session
    <2> HIDE DEF t
    <2> QED
      BY <1>1, <2>1, <2>2, <2>3, SameClaims
  <1> QED
    BY <1>2, <1>3, <1>4 DEF Reread

LEMMA SingleCollidesClaims ==
  ASSUME RInv, ClaimedOnce, NEW r \in Request, SingleCollides(r)
  PROVE  ClaimedOnce'
  <1>1. UNCHANGED <<records, answer>> /\ session[r].phase = "open"
    BY DEF SingleCollides, Allocating
  <1>2. CASE session[r].attempt + 1 < MaxRetries
    <2> DEFINE t == [session[r] EXCEPT !.attempt = session[r].attempt + 1]
    <2>1. session[r].attempt + 1 \in 0..MaxRetries-1
      BY <1>2, SessionFacts, BoundAssumption DEF Session
    <2>2. /\ t \in Session /\ t.phase = "open" /\ t.own = session[r].own
          /\ t.known = session[r].known /\ t.results = session[r].results
      BY <1>1, <2>1, SessionFacts DEF Session
    <2>3. session' = [session EXCEPT ![r] = t]
      BY <1>2 DEF SingleCollides
    <2> HIDE DEF t
    <2> QED
      BY <1>1, <2>2, <2>3, SameClaims DEF Live
  <1>3. CASE ~(session[r].attempt + 1 < MaxRetries)
    <2> DEFINE t == [Idle EXCEPT !.phase = "refused"]
    <2>1. "refused" \in Phase
      BY DEF Phase, Over
    <2>2. t \in Session /\ t.phase = "refused"
      BY <2>1, IdleType DEF Session, Idle
    <2>3. session' = [session EXCEPT ![r] = t]
      BY <1>3 DEF SingleCollides
    <2> HIDE DEF t
    <2> QED
      BY <1>1, <2>2, <2>3, SameClaims
  <1> QED
    BY <1>2, <1>3

LEMMA BatchCollidesClaims ==
  ASSUME RInv, ClaimedOnce, NEW r \in Request, BatchCollides(r)
  PROVE  ClaimedOnce'
  <1> DEFINE t == [session[r] EXCEPT !.phase = "collided", !.next = NextValue(r) + 1]
  <1>1. NextValue(r) + 1 \in Nat /\ "collided" \in Phase
    BY SessionFacts DEF Phase, InProgress
  <1>2. /\ t \in Session /\ t.phase = "collided" /\ t.own = session[r].own
        /\ t.known = session[r].known /\ t.results = session[r].results
    BY <1>1, SessionFacts DEF Session
  <1>3. /\ session' = [session EXCEPT ![r] = t]
        /\ UNCHANGED <<records, answer>> /\ session[r].phase = "open"
    BY DEF BatchCollides, Allocating
  <1> HIDE DEF t
  <1> QED
    BY <1>2, <1>3, SameClaims DEF Live

\* A transaction that is rolled back, or had been, claims nothing.
LEMMA RollbackClaims ==
  ASSUME RInv, ClaimedOnce, NEW r \in Request, Abort(r) \/ Break(r) \/ FailItem(r)
  PROVE  ClaimedOnce'
  <1>1. UNCHANGED <<records, answer>>
    BY DEF Abort, Break, FailItem
  <1>2. CASE Abort(r)
    <2>1. Idle \in Session /\ Idle.phase = "idle"
      BY IdleType DEF Idle
    <2> QED
      BY <1>1, <1>2, <2>1, SameClaims DEF Abort
  <1> DEFINE a == Answered(session[r], Failed)
  <1>3. a \in Session /\ a.phase = session[r].phase
    BY SessionFacts, AnsweredFacts
  <1>4. CASE FailItem(r)
    <2>1. session' = [session EXCEPT ![r] = a] /\ a.phase = "broken"
      BY <1>3, <1>4 DEF FailItem
    <2> HIDE DEF a
    <2> QED
      BY <1>1, <1>3, <2>1, SameClaims
  <1>5. CASE Break(r)
    <2> DEFINE t == [a EXCEPT !.phase = "broken", !.own = {}]
    <2>1. session' = [session EXCEPT ![r] = t]
      BY <1>5 DEF Break
    <2>2. "broken" \in Phase
      BY DEF Phase, InProgress
    <2> HIDE DEF a
    <2>3. t \in Session /\ t.phase = "broken"
      BY <1>3, <2>2 DEF Session
    <2> HIDE DEF t
    <2> QED
      BY <1>1, <2>1, <2>3, SameClaims
  <1> QED
    BY <1>2, <1>4, <1>5

\* A commit passes the claims of the transaction on to its rows and answer.
LEMMA CommitClaims ==
  ASSUME RInv, ClaimedOnce, NEW r \in Request, Commit(r)
  PROVE  ClaimedOnce'
  <1>1. /\ records' = records \cup session[r].own
        /\ session[r].own # {} => Live(r)
    BY DEF Commit, Respond, RInv, Within
  <1>2. ASSUME NEW q \in Request, q # r
        PROVE  session'[q] = session[q] /\ answer'[q] = answer[q]
    BY <1>2 DEF Commit, Respond, RInv, TypeOK
  <1>3. /\ ~Live(r)'
        /\ session'[r].phase = "answered" =>
              session[r].phase = "open" /\ answer'[r] = session[r].results
    <2>1. \A ph : [Idle EXCEPT !.phase = ph].phase = ph
      BY DEF Idle
    <2>2. Idle.phase = "idle"
      BY DEF Idle
    <2>3. CASE /\ answer' = [answer EXCEPT ![r] = session[r].results]
               /\ session' = [session EXCEPT ![r] = [Idle EXCEPT !.phase =
                    IF session[r].phase = "open" THEN "answered" ELSE "misled"]]
      <3>1. session'[r].phase = IF session[r].phase = "open" THEN "answered" ELSE "misled"
        BY <2>1, <2>3 DEF RInv, TypeOK
      <3>2. answer'[r] = session[r].results
        BY <2>3 DEF RInv, TypeOK
      <3> QED
        BY <3>1, <3>2 DEF Live
    <2>4. CASE session' = [session EXCEPT ![r] = Idle]
      BY <2>2, <2>4 DEF Live, RInv, TypeOK
    <2> QED
      BY <2>3, <2>4 DEF Commit, Respond
  <1>4. ASSUME NEW n, NEW i, NEW w, Claim(n, i, w)' PROVE Claim(n, i, w)
    <2>1. CASE w = None /\ i # None /\ \E row \in records' : row.name = n /\ row.item = i
      BY <1>1, <2>1 DEF Claim, SessionClaim, Owner
    <2>2. ASSUME NEW q \in Request, q # r, w = Owner(q, i), SessionClaim(q, n, i)'
          PROVE  Claim(n, i, w)
      BY <1>2, <2>2 DEF Claim, SessionClaim, Live, Given
    <2>3. ASSUME w = Owner(r, i), SessionClaim(r, n, i)'
          PROVE  Claim(n, i, w)
      <3>1. /\ session'[r].phase = "answered"
            /\ \E k \in DOMAIN answer'[r] :
                  answer'[r][k] # Failed /\ answer'[r][k] = n /\ wanted[r][k] = i
        BY <1>3, <2>3 DEF SessionClaim, Given
      <3> QED
        BY <1>3, <2>3, <3>1 DEF Claim, SessionClaim, Live
    <2>4. \/ w = None /\ i # None /\ \E row \in records' : row.name = n /\ row.item = i
          \/ \E q \in Request : w = Owner(q, i) /\ SessionClaim(q, n, i)'
      BY <1>4 DEF Claim, Owner
    <2> QED
      BY <2>1, <2>2, <2>3, <2>4
  <1> QED
    BY <1>4, NoNewClaim

LEMMA EnvironmentClaims ==
  ASSUME RInv, ClaimedOnce,
         \/ \E n \in Foreign : Import(n)
         \/ \E row \in records : Tombstone(row) \/ Takeover(row)
  PROVE  ClaimedOnce'
  <1>1. CASE \E n \in Foreign : Import(n)
    BY <1>1, RecordClaims DEF Import
  <1>2. ASSUME NEW row \in records, Tombstone(row) \/ Takeover(row)
        PROVE  ClaimedOnce'
    <2>1. row \in Row
      BY DEF RInv, TypeOK
    <2>2. PICK new : /\ Change(row, new)
                     /\ new.item # None => new.name = row.name /\ new.item = row.item
      <3>1. CASE Tombstone(row)
        <4>1. /\ [row EXCEPT !.live = FALSE].name = row.name
              /\ [row EXCEPT !.live = FALSE].item = row.item
          BY <2>1 DEF Row
        <4> QED
          BY <3>1, <4>1 DEF Tombstone
      <3>2. CASE Takeover(row)
        <4>1. [row EXCEPT !.item = None, !.live = TRUE].item = None
          BY <2>1 DEF Row
        <4> QED
          BY <3>2, <4>1 DEF Takeover
      <3> QED
        BY <1>2, <3>1, <3>2
    <2>3. UNCHANGED <<session, answer>>
      BY <2>2 DEF Change
    <2>4. \A x \in records' : x.item # None =>
             \E y \in records : y.name = x.name /\ y.item = x.item
      BY <2>2 DEF Change
    <2> QED
      BY <2>3, <2>4, RecordClaims
  <1> QED
    BY <1>1, <1>2

\* Every step keeps the claims on a name unique: only the allocation of a
\* number makes a new one, and that number is fresh.
THEOREM ClaimsNext == RInv /\ ClaimedOnce /\ [Next]_vars => ClaimedOnce'
  <1> SUFFICES ASSUME RInv, ClaimedOnce, [Next]_vars PROVE ClaimedOnce'
    OBVIOUS
  <1>1. CASE Next
    <2>1. ASSUME NEW r \in Request, Begin(r) PROVE ClaimedOnce'
      BY <2>1, BeginClaims
    <2>2. ASSUME NEW r \in Request, Handle(r) PROVE ClaimedOnce'
      BY <2>2, AnswerKnownClaims, ReserveClaims, BatchCollidesClaims, RereadClaims,
         SingleCollidesClaims, CommitClaims, RollbackClaims DEF Handle
    <2>3. ASSUME NEW r \in Request, Break(r) \/ Abort(r) PROVE ClaimedOnce'
      BY <2>3, RollbackClaims
    <2> QED
      BY <1>1, <2>1, <2>2, <2>3, EnvironmentClaims DEF Next, Step
  <1>2. CASE UNCHANGED vars
    BY <1>2, RecordClaims DEF vars
  <1> QED
    BY <1>1, <1>2

\* No name is ever claimed twice.
THEOREM ClaimsInductive == Spec => []ClaimedOnce
  <1>1. Init => ClaimedOnce
    BY DEF Init, ClaimedOnce, Claim, SessionClaim, Live, Given, Idle
  <1> QED
    BY <1>1, RInductive, ClaimsNext, PTL DEF Spec

\* Two answers never name the same ARK, but for the same client item.
THEOREM NoNameTwice == Spec => []AnswersNeverClash
  <1>1. RInv /\ ClaimedOnce => AnswersNeverClash
    <2> SUFFICES ASSUME RInv, ClaimedOnce,
                        NEW r \in Request, NEW q \in Request,
                        NEW j \in Given(r), NEW k \in Given(q),
                        answer[r][j] = answer[q][k]
                 PROVE  \/ r = q /\ j = k
                        \/ wanted[r][j] = wanted[q][k] /\ wanted[r][j] # None
      BY DEF AnswersNeverClash
    <2>1. /\ Claim(answer[r][j], wanted[r][j], Owner(r, wanted[r][j]))
          /\ Claim(answer[q][k], wanted[q][k], Owner(q, wanted[q][k]))
      BY DEF Claim, SessionClaim
    <2>2. /\ wanted[r][j] = wanted[q][k]
          /\ Owner(r, wanted[r][j]) = Owner(q, wanted[q][k])
      BY <2>1 DEF ClaimedOnce
    <2>3. CASE wanted[r][j] = None
      <3>1. r = q
        BY <2>2, <2>3 DEF Owner
      <3>2. \A p \in Given(r) : p \in 1..Len(wanted[r])
        <4>1. /\ answer[r] \in Seq(Nat \cup {Failed})
              /\ Len(answer[r]) <= Len(wanted[r])
          BY DEF RInv, TypeOK, Within
        <4>2. Len(answer[r]) \in Nat /\ Len(wanted[r]) \in Nat
              /\ DOMAIN answer[r] = 1..Len(answer[r])
          BY <4>1, WantedType
        <4> QED
          BY <4>1, <4>2 DEF Given
      <3>3. j \in 1..Len(wanted[r]) /\ k \in 1..Len(wanted[r])
        BY <3>1, <3>2
      <3>4. r \in Single
        <4>1. j \in DOMAIN wanted[r]
          BY <3>3, WantedType
        <4> QED
          BY <2>3, <4>1, RequestAssumption
      <3>5. Len(wanted[r]) = 1
        <4>1. wanted[r] = <<None>>
          BY <3>4, RequestAssumption
        <4> QED
          BY <4>1
      <3> QED
        BY <3>1, <3>3, <3>5
    <2> QED
      BY <2>2, <2>3
  <1> QED
    BY <1>1, RInductive, ClaimsInductive, PTL

=============================================================================
