-------------------------- MODULE Published_proofs --------------------------
(***************************************************************************)
(* What an ARK's row says is published is on the chain, for every number   *)
(* of ARKs, authorities and documents.  If the ARK ever had another owner, *)
(* it is enough that what was confirmed has been written, by a request,    *)
(* and that an entry is never removed.  If it had not, the entry is that   *)
(* of the row: this needs an invariant over the contents of the owner's    *)
(* nonce queue, since an older transaction that was given up for lost may  *)
(* still be mined.                                                         *)
(***************************************************************************)
EXTENDS Lifecycle_proofs

USE DEF NONE, METADATA, AVAILABILITY, CHAIN, REPLICATION, COMPLETE

\* The row, the image of a session and the item of a that belong to w.
HasRow(w, a)  == Exists(a) /\ rows[a].authority = w
HasTask(w, a) == Locked(a) /\ task[a].row.authority = w
HasItem(w, a) == pipeline[a] # None /\ pipeline[a].authority = w

\* The transactions for a in a queue.
Ops(q, a) == {i \in 1..Len(q) : q[i].ark = a}

\* Operations, items, rows and entries all have a target and a CID.
Carries(x, y) == x.target = y.target /\ x.cids = y.cids

Shows(entry, x) == entry # None /\ Carries(entry, x)

Written(a) == chain[a] # None /\ chain[a].cids # None

\* Whoever shares the contract: what is published was written, by a request.
WrittenArk(a) ==
    /\ Exists(a) /\ rows[a].state = "P" => Written(a)
    /\ Locked(a) /\ task[a].row.state = "P" => Written(a)
    /\ pipeline[a] # None /\ pipeline[a].phase = "confirmed" => Written(a)
    /\ Written(a) =>
        \E w \in owned[a] : <<a, w, chain[a].target, chain[a].cids>> \in Offers

\* What is still queued for an ARK either repeats its entry or carries the
\* content of the row; once a transaction with that content is queued or mined,
\* nothing else follows it.
Settled(a, q, entry, row) ==
    /\ row.state = "R" => Ops(q, a) = {}
    /\ row.state \in {"D", "U", "P"} =>
        /\ \A i \in Ops(q, a) : Carries(q[i], row) \/ Shows(entry, q[i])
        /\ \A i, j \in Ops(q, a) : i < j /\ Carries(q[i], row) => Carries(q[j], row)
        /\ Shows(entry, row) => \A i \in Ops(q, a) : Carries(q[i], row)
    /\ row.state = "P" => Shows(entry, row) /\ row.cids # None

\* A row whose publication the chain worker may be working on.
InFlight(x, row) ==
    \/ row.state = "T"
    \/ row.state \in Pending /\ row.stage = CHAIN /\ Carries(x, row)

\* An item: it is confirmed only if nothing for its ARK is left in the queue.
SoloItem(a, item, q) ==
    /\ InFlight(item, rows[a])
    /\ Locked(a) => InFlight(item, task[a].row)
    /\ item.phase = "sent" =>
        \A i \in Ops(q, a) : (\A j \in Ops(q, a) : j <= i) => Carries(q[i], item)
    /\ item.phase = "confirmed" => Ops(q, a) = {} /\ Shows(chain[a], item)

SoloTask(w, a, held, q) ==
    /\ Settled(a, q, chain[a], held.row)
    /\ HasItem(w, a) => held.by # "chain"
    /\ (HasRow(w, a) /\ rows[a].state \in Pending /\ rows[a].stage = CHAIN)
        => held.by = "chain" \/ InFlight(rows[a], held.row)

\* An ARK that nobody but w has ever owned.
SoloArk(w, a) ==
    /\ chain[a] # None => chain[a].owner = w
    /\ ~HasRow(w, a) => Ops(mempool[w], a) = {} /\ ~HasItem(w, a)
    /\ HasRow(w, a) => Settled(a, mempool[w], chain[a], rows[a])
    /\ HasRow(w, a) /\ Locked(a) => HasTask(w, a)
    /\ HasTask(w, a) => SoloTask(w, a, task[a], mempool[w])
    /\ HasItem(w, a) => SoloItem(a, pipeline[a], mempool[w])

PubInv ==
    \A a \in Ark : /\ WrittenArk(a)
                   /\ \A w \in Authority : owned[a] \subseteq {w} => SoloArk(w, a)

----------------------------------------------------------------------------
(* Queues *)

LEMMA TailOps ==
    ASSUME NEW q \in Seq(Operation), q # <<>>, NEW a
    PROVE  /\ Tail(q) \in Seq(Operation)
           /\ \A i \in Ops(Tail(q), a) : i + 1 \in Ops(q, a) /\ Tail(q)[i] = q[i + 1]
           /\ \A i \in Ops(q, a) : i # 1 => i - 1 \in Ops(Tail(q), a)
           /\ 1 \in Ops(q, a) <=> Head(q).ark = a
           /\ Head(q) = q[1] /\ Head(q) \in Operation
<1>1. Len(q) \in Nat \ {0} /\ Len(Tail(q)) = Len(q) - 1
    OBVIOUS
<1>2. \A i \in 1..Len(Tail(q)) : Tail(q)[i] = q[i + 1]
    OBVIOUS
<1>3. Head(q) = q[1] /\ Head(q) \in Operation /\ Tail(q) \in Seq(Operation)
    OBVIOUS
<1>4. \A i \in Ops(Tail(q), a) : i + 1 \in Ops(q, a) /\ Tail(q)[i] = q[i + 1]
    BY <1>1, <1>2 DEF Ops
<1>5. ASSUME NEW i \in Ops(q, a), i # 1
      PROVE  i - 1 \in Ops(Tail(q), a)
    <2>1. i - 1 \in 1..Len(Tail(q)) /\ (i - 1) + 1 = i
        BY <1>1, <1>5 DEF Ops
    <2> QED
        BY <1>2, <1>5, <2>1 DEF Ops
<1> QED
    BY <1>1, <1>3, <1>4, <1>5 DEF Ops

LEMMA AppendOps ==
    ASSUME NEW q \in Seq(Operation), NEW op \in Operation, NEW a
    PROVE  /\ Append(q, op) \in Seq(Operation)
           /\ \A i \in Ops(Append(q, op), a) :
                \/ i \in Ops(q, a) /\ Append(q, op)[i] = q[i] /\ i <= Len(q)
                \/ i = Len(q) + 1 /\ op.ark = a /\ Append(q, op)[i] = op
           /\ op.ark = a => Len(q) + 1 \in Ops(Append(q, op), a)
           /\ \A i \in Ops(q, a) : i \in Ops(Append(q, op), a) /\ Append(q, op)[i] = q[i]
<1>1. Len(q) \in Nat /\ Len(Append(q, op)) = Len(q) + 1 /\ Append(q, op) \in Seq(Operation)
    OBVIOUS
<1>2. /\ \A i \in 1..Len(q) : Append(q, op)[i] = q[i]
      /\ Append(q, op)[Len(q) + 1] = op
    OBVIOUS
<1> QED
    BY <1>1, <1>2 DEF Ops

LEMMA OpTyped ==
    ASSUME NEW q \in Seq(Operation), NEW a, NEW i \in Ops(q, a)
    PROVE  q[i] \in Operation /\ q[i].cids \in Payload /\ q[i].cids # None /\ i \in Nat
<1>1. i \in 1..Len(q) /\ Len(q) \in Nat
    BY DEF Ops
<1>2. q[i] \in Operation
    BY <1>1
<1> QED
    BY <1>1, <1>2, RecordAssumption DEF Operation

\* The queue moves on: the entry is left alone, or gets what was mined.
LEMMA SettledMined ==
    ASSUME NEW a, NEW q \in Seq(Operation), q # <<>>, NEW entry, NEW entry2, NEW row,
           Settled(a, q, entry, row),
           \/ entry2 = entry
           \/ Head(q).ark = a /\ Shows(entry2, Head(q))
    PROVE  Settled(a, Tail(q), entry2, row)
<1>0. /\ \A i \in Ops(Tail(q), a) : i + 1 \in Ops(q, a) /\ Tail(q)[i] = q[i + 1] /\ i > 0
      /\ \A i \in Ops(Tail(q), a) : i \in Nat
      /\ 1 \in Ops(q, a) <=> Head(q).ark = a
      /\ Head(q) = q[1]
    BY TailOps DEF Ops
<1>1. row.state = "R" => Ops(Tail(q), a) = {}
    BY <1>0 DEF Settled
<1>2. ASSUME row.state \in {"D", "U", "P"}
      PROVE  /\ \A i \in Ops(Tail(q), a) : Carries(Tail(q)[i], row) \/ Shows(entry2, Tail(q)[i])
             /\ \A i, j \in Ops(Tail(q), a) :
                    i < j /\ Carries(Tail(q)[i], row) => Carries(Tail(q)[j], row)
             /\ Shows(entry2, row) => \A i \in Ops(Tail(q), a) : Carries(Tail(q)[i], row)
             /\ row.state = "P" => Shows(entry2, row)
    <2>1. \A i, j \in Ops(Tail(q), a) :
                i < j /\ Carries(Tail(q)[i], row) => Carries(Tail(q)[j], row)
        <3> SUFFICES ASSUME NEW i \in Ops(Tail(q), a), NEW j \in Ops(Tail(q), a),
                            i < j, Carries(Tail(q)[i], row)
                     PROVE  Carries(Tail(q)[j], row)
            OBVIOUS
        <3>1. i + 1 < j + 1 /\ i + 1 \in Ops(q, a) /\ j + 1 \in Ops(q, a)
            BY <1>0
        <3>2. Carries(q[i + 1], row)
            BY <1>0
        <3>3. Carries(q[j + 1], row)
            BY <1>2, <3>1, <3>2 DEF Settled
        <3> QED
            BY <1>0, <3>3
    <2>2. CASE entry2 = entry
        BY <1>0, <1>2, <2>1, <2>2 DEF Settled
    <2>3. CASE Head(q).ark = a /\ Shows(entry2, Head(q))
        <3>1. 1 \in Ops(q, a) /\ Shows(entry2, q[1])
            BY <1>0, <2>3
        <3>2. CASE Carries(q[1], row)
            <4>1. \A i \in Ops(Tail(q), a) : 1 < i + 1 /\ i + 1 \in Ops(q, a)
                BY <1>0
            <4>2. \A i \in Ops(Tail(q), a) : Carries(q[i + 1], row)
                BY <1>2, <3>1, <3>2, <4>1 DEF Settled
            <4>3. Shows(entry2, row)
                BY <3>1, <3>2 DEF Shows, Carries
            <4> QED
                BY <1>0, <2>1, <4>2, <4>3
        <3>3. CASE ~Carries(q[1], row)
            <4>1. Shows(entry, q[1]) /\ row.state # "P"
                BY <1>2, <3>1, <3>3 DEF Settled
            <4>2. ~Shows(entry2, row)
                BY <3>1, <3>3 DEF Shows, Carries
            <4>3. \A i \in Ops(q, a) : Carries(q[i], row) \/ Shows(entry2, q[i])
                BY <1>2, <3>1, <4>1 DEF Settled, Shows, Carries
            <4> QED
                BY <1>0, <2>1, <4>1, <4>2, <4>3
        <3> QED
            BY <3>2, <3>3
    <2> QED
        BY <2>2, <2>3
<1>3. row.state = "P" => row.cids # None
    BY DEF Settled
<1> QED
    BY <1>1, <1>2, <1>3 DEF Settled

\* A transaction for another ARK, or with the content of the row, is queued.
LEMMA SettledSent ==
    ASSUME NEW a, NEW q \in Seq(Operation), NEW op \in Operation, NEW entry, NEW row,
           Settled(a, q, entry, row),
           op.ark = a => row.state # "R" /\ (row.state = "T" \/ Carries(op, row))
    PROVE  Settled(a, Append(q, op), entry, row)
<1> DEFINE new == Append(q, op)
<1>1. \A i \in Ops(new, a) : \/ i \in Ops(q, a) /\ new[i] = q[i] /\ i <= Len(q)
                             \/ i = Len(q) + 1 /\ op.ark = a /\ new[i] = op
    BY AppendOps, ZenonT(60)
<1>2. Len(q) \in Nat
    OBVIOUS
<1> HIDE DEF new
<1>3. row.state = "R" => Ops(new, a) = {}
    BY <1>1 DEF Settled
<1>4. ASSUME row.state \in {"D", "U", "P"}
      PROVE  /\ \A i \in Ops(new, a) : Carries(new[i], row) \/ Shows(entry, new[i])
             /\ \A i, j \in Ops(new, a) :
                    i < j /\ Carries(new[i], row) => Carries(new[j], row)
             /\ Shows(entry, row) => \A i \in Ops(new, a) : Carries(new[i], row)
    <2>1. \A i \in Ops(new, a) : Carries(new[i], row) \/ Shows(entry, new[i])
        BY <1>1, <1>4 DEF Settled
    <2>2. \A i, j \in Ops(new, a) : i < j /\ Carries(new[i], row) => Carries(new[j], row)
        BY <1>1, <1>2, <1>4 DEF Settled, Ops
    <2>3. Shows(entry, row) => \A i \in Ops(new, a) : Carries(new[i], row)
        BY <1>1, <1>4 DEF Settled
    <2> QED
        BY <2>1, <2>2, <2>3
<1> QED
    BY <1>3, <1>4 DEF Settled, new

----------------------------------------------------------------------------
(* Rows and images *)

\* No transaction carries a content without CID.
LEMMA SettledKept ==
    ASSUME NEW a, NEW q \in Seq(Operation), NEW entry, NEW row \in Row, NEW new \in Row,
           Kept(row, new), Settled(a, q, entry, row)
    PROVE  Settled(a, q, entry, new)
<1>1. CASE row.cids # None
    BY <1>1 DEF Settled, Kept, Carries, Shows
<1>2. CASE row.cids = None
    <2>1. \A i \in Ops(q, a) : ~Carries(q[i], row)
        BY <1>2, OpTyped DEF Carries
    <2>2. row.state \in {"D", "U", "P"} => \A i \in Ops(q, a) : Shows(entry, q[i])
        BY <2>1 DEF Settled
    <2>3. row.state # "P" /\ new.state = row.state
        BY <1>2 DEF Settled, Kept
    <2>4. new.state \in {"D", "U"} =>
            /\ \A i \in Ops(q, a) : Shows(entry, q[i])
            /\ \A i, j \in Ops(q, a) : Carries(q[i], new) => Carries(q[j], new)
            /\ Shows(entry, new) => \A i \in Ops(q, a) : Carries(q[i], new)
        BY <2>2, <2>3 DEF Shows, Carries
    <2>5. row.state = "R" => Ops(q, a) = {}
        BY DEF Settled
    <2> QED
        BY <2>3, <2>4, <2>5 DEF Settled
<1> QED
    BY <1>1, <1>2

\* A request that replaces published content finds the queue repeating it.
LEMMA SettledFresh ==
    ASSUME NEW a, NEW q \in Seq(Operation), NEW entry, NEW new,
           new.state \in Pending, new.cids = None,
           \/ Ops(q, a) = {}
           \/ \E row : row.state \in {"R", "P"} /\ Settled(a, q, entry, row)
    PROVE  Settled(a, q, entry, new)
<1>1. CASE Ops(q, a) = {}
    BY <1>1 DEF Settled, Pending
<1>2. CASE Ops(q, a) # {}
    <2>1. PICK row : row.state = "P" /\ Settled(a, q, entry, row)
        BY <1>2 DEF Settled
    <2>2. \A i \in Ops(q, a) : Shows(entry, q[i]) /\ Carries(q[i], row)
        BY <2>1 DEF Settled, Shows, Carries
    <2>3. \A i \in Ops(q, a) : ~Carries(q[i], new)
        BY OpTyped DEF Carries
    <2>4. ~Shows(entry, new)
        BY <2>1 DEF Settled, Shows, Carries
    <2> QED
        BY <2>2, <2>3, <2>4 DEF Settled, Pending
<1> QED
    BY <1>1, <1>2

LEMMA SettledPublished ==
    ASSUME NEW a, NEW q, NEW entry, NEW row, NEW new, Settled(a, q, entry, row),
           row.state \in Pending, new.state = "P", Carries(row, new), row.cids # None,
           Shows(entry, row)
    PROVE  Settled(a, q, entry, new)
    BY DEF Settled, Pending, Carries, Shows

\* Pending content in the chain stage stays there until it is published.
LEMMA InFlightKept ==
    ASSUME NEW a, NEW h, NEW h2, NEW row \in Row, NEW new \in Row,
           RowInv(a, row, h), RowInv(a, new, h2), Kept(row, new), NEW x, InFlight(x, row)
    PROVE  InFlight(x, new)
<1>1. CASE row.state = "T"
    BY <1>1 DEF InFlight, Kept
<1>2. CASE row.state \in Pending /\ row.stage = CHAIN /\ Carries(x, row)
    <2>1. new.state \in Pending /\ new.stage >= CHAIN /\ new.stage \in METADATA..CHAIN
        BY <1>2 DEF Kept, RowInv, Pending
    <2>2. new.target = row.target /\ new.cids = row.cids
        <3>1. row.cids # None
            BY <1>2 DEF RowInv
        <3> QED
            BY <3>1 DEF Kept
    <2>3. new.stage = CHAIN
        BY <2>1
    <2> QED
        BY <1>2, <2>1, <2>2, <2>3 DEF InFlight, Carries
<1> QED
    BY <1>1, <1>2 DEF InFlight

----------------------------------------------------------------------------
(* Steps of the lock holders *)

\* What a step does to the row of a.
RowMoves(a) ==
    \/ rows'[a] = rows[a]
    \/ ~Exists(a) /\ task'[a] = None /\ rows'[a] # None /\ rows'[a].state = "R"
    \/ Locked(a) /\ task'[a] = None /\ rows'[a] = task[a].row

\* The item is kept or forgotten, and forgotten when the chain worker handles it.
ItemRests(a) ==
    /\ pipeline'[a] \in {pipeline[a], None}
    /\ (~Locked(a) /\ task'[a] # None /\ task'[a].by = "chain") => pipeline'[a] = None

LEMMA Typed ==
    ASSUME IInv, NEW a \in Ark, NEW w \in Authority
    PROVE  /\ mempool[w] \in Seq(Operation)
           /\ Exists(a) => rows[a] \in Row /\ RowInv(a, rows[a], peak)
           /\ Locked(a) => task[a].row \in Row /\ RowInv(a, task[a].row, peak)
           /\ pipeline[a] # None => pipeline[a] \in Item
           /\ chain[a] # None => chain[a] \in Entry
<1>1. mempool[w] \in Seq(Operation) /\ (chain[a] # None => chain[a] \in Entry)
    BY DEF IInv, LedgerInv, ChainTypeOK
<1>2. pipeline[a] # None => pipeline[a] \in Item
    BY DEF IInv, ItemsInv
<1> QED
    BY <1>1, <1>2, RowGood, TaskGood DEF GoodRow

\* A lock that a step takes, or keeps with another image, for w.
LEMMA SoloImage ==
    ASSUME IInv, IInv', NEW a \in Ark, NEW w \in Authority, SoloArk(w, a),
           rows'[a] = rows[a], ItemRests(a), HasTask(w, a)',
           IF Locked(a) THEN Kept(task[a].row, task'[a].row) /\ task'[a].by = task[a].by
           ELSE Turn(a, task'[a].by, task'[a].row)
    PROVE  /\ Settled(a, mempool[w], chain[a], task'[a].row)
           /\ HasItem(w, a)' => task'[a].by # "chain" /\ InFlight(pipeline[a], task'[a].row)
           /\ (HasRow(w, a) /\ rows[a].state \in Pending /\ rows[a].stage = CHAIN)
                => task'[a].by = "chain" \/ InFlight(rows[a], task'[a].row)
<1> DEFINE image == task'[a].row
<1>1. mempool[w] \in Seq(Operation)
    BY Typed
<1>2. task'[a] # None /\ image \in Row /\ RowInv(a, image, peak') /\ image.authority = w
    BY DEF IInv, TasksInv, Locked, Task, HasTask
<1>3. HasRow(w, a) => Exists(a) /\ rows[a] \in Row /\ RowInv(a, rows[a], peak)
    BY Typed DEF HasRow
<1>4. /\ ~HasRow(w, a) => Ops(mempool[w], a) = {} /\ ~HasItem(w, a)
      /\ HasRow(w, a) => Settled(a, mempool[w], chain[a], rows[a])
      /\ HasItem(w, a) => /\ InFlight(pipeline[a], rows[a])
                          /\ pipeline[a].phase = "confirmed" => Shows(chain[a], pipeline[a])
    BY DEF SoloArk, SoloItem
<1>5. HasItem(w, a)' => HasItem(w, a) /\ pipeline'[a] = pipeline[a]
    BY DEF ItemRests, HasItem
<1> HIDE DEF image
<1>6. CASE Locked(a) /\ Kept(task[a].row, image) /\ task'[a].by = task[a].by
    <2>0. HasTask(w, a)
        BY <1>2, <1>6 DEF Kept, HasTask
    <2>1. /\ task[a].row \in Row /\ RowInv(a, task[a].row, peak)
          /\ SoloTask(w, a, task[a], mempool[w])
          /\ HasItem(w, a) => InFlight(pipeline[a], task[a].row)
        BY <1>6, <2>0, Typed DEF SoloArk, SoloItem
    <2>2. Settled(a, mempool[w], chain[a], image)
        BY <1>1, <1>2, <1>6, <2>1, SettledKept DEF SoloTask
    <2>3. \A x : InFlight(x, task[a].row) => InFlight(x, image)
        BY <1>2, <1>6, <2>1, InFlightKept
    <2> QED
        BY <1>5, <1>6, <2>1, <2>2, <2>3 DEF SoloTask, image
<1>7. CASE ~Locked(a) /\ Turn(a, task'[a].by, image)
    <2>1. HasItem(w, a)' => task'[a].by # "chain"
        BY <1>2, <1>7 DEF ItemRests, HasItem
    <2>2. CASE task'[a].by # "chain" /\ image.state = "T"
        BY <2>1, <2>2 DEF Settled, InFlight, image
    <2>3. CASE /\ image.state \in Pending /\ image.cids = None
               /\ \/ ~Exists(a)
                  \/ rows[a].state \in {"R", "P"}
                  \/ image.authority # rows[a].authority
        <3>1. HasRow(w, a) => rows[a].state \in {"R", "P"}
            BY <1>2, <2>3 DEF HasRow
        <3>2. Settled(a, mempool[w], chain[a], image)
            <4>1. \/ Ops(mempool[w], a) = {}
                  \/ \E row : row.state \in {"R", "P"} /\ Settled(a, mempool[w], chain[a], row)
                BY <1>4, <3>1
            <4> QED
                BY <1>1, <2>3, <4>1, SettledFresh
        <3>3. ~(HasRow(w, a) /\ rows[a].state \in Pending)
            BY <3>1 DEF Pending
        <3>4. ~HasItem(w, a)
            BY <1>4, <3>1 DEF InFlight, Pending
        <3> QED
            BY <1>5, <3>2, <3>3, <3>4 DEF image
    <2>4. CASE Exists(a) /\ Kept(rows[a], image)
        <3>0. HasRow(w, a)
            BY <1>2, <2>4 DEF Kept, HasRow
        <3>1. Settled(a, mempool[w], chain[a], image)
            BY <1>1, <1>2, <1>3, <1>4, <2>4, <3>0, SettledKept
        <3>2. \A x : InFlight(x, rows[a]) => InFlight(x, image)
            BY <1>2, <1>3, <2>4, <3>0, InFlightKept
        <3>3. (rows[a].state \in Pending /\ rows[a].stage = CHAIN) => InFlight(rows[a], rows[a])
            BY DEF InFlight, Carries
        <3> QED
            BY <1>4, <1>5, <2>1, <3>1, <3>2, <3>3 DEF image
    <2>5. CASE /\ task'[a].by = "chain" /\ Exists(a) /\ rows[a].state \in Pending
               /\ image.state = "P" /\ image.authority = rows[a].authority
               /\ image.target = rows[a].target /\ image.cids = rows[a].cids
               /\ ItemIsCurrent(a) /\ pipeline[a] # None
               /\ pipeline[a].phase = "confirmed" \/ ChainMatches(a, image.target, image.cids)
        <3>0. HasRow(w, a) /\ HasItem(w, a)
            BY <1>2, <2>5 DEF HasRow, HasItem, ItemIsCurrent
        <3>1. Carries(rows[a], image) /\ Carries(pipeline[a], rows[a]) /\ rows[a].cids # None
            BY <1>3, <2>5, <3>0 DEF Carries, ItemIsCurrent, RowInv
        <3>2. Shows(chain[a], rows[a])
            BY <1>4, <2>5, <3>0, <3>1 DEF Shows, Carries, ChainMatches
        <3>3. Settled(a, mempool[w], chain[a], image)
            BY <1>4, <2>5, <3>0, <3>1, <3>2, SettledPublished
        <3> QED
            BY <2>1, <2>5, <3>3 DEF image
    <2> QED
        BY <1>7, <2>2, <2>3, <2>4, <2>5 DEF Turn
<1> QED
    BY <1>6, <1>7 DEF image

LEMMA SoloTurn ==
    ASSUME IInv, IInv', NEW a \in Ark, NEW w \in Authority, SoloArk(w, a),
           LockMoves(a), RowMoves(a), ItemRests(a),
           chain'[a] = chain[a], mempool'[w] = mempool[w]
    PROVE  SoloArk(w, a)'
<1>1. /\ chain[a] # None => chain[a].owner = w
      /\ ~HasRow(w, a) => Ops(mempool[w], a) = {} /\ ~HasItem(w, a)
      /\ HasRow(w, a) => Settled(a, mempool[w], chain[a], rows[a])
      /\ HasRow(w, a) /\ Locked(a) => HasTask(w, a)
      /\ HasTask(w, a) => SoloTask(w, a, task[a], mempool[w])
      /\ HasItem(w, a) => SoloItem(a, pipeline[a], mempool[w])
    BY DEF SoloArk
<1>2. Locked(a) => task[a].row # None
    BY Typed, NullAssumption
<1>3. /\ HasItem(w, a)' => HasItem(w, a) /\ pipeline'[a] = pipeline[a]
      /\ HasRow(w, a) => HasRow(w, a)'
    BY <1>1, <1>2 DEF RowMoves, HasRow, HasTask, HasItem, Exists, ItemRests
<1>4. HasRow(w, a)' => Settled(a, mempool[w], chain[a], rows'[a])
    <2> SUFFICES ASSUME HasRow(w, a)'
                 PROVE  Settled(a, mempool[w], chain[a], rows'[a])
        OBVIOUS
    <2>1. CASE rows'[a] = rows[a]
        BY <1>1, <2>1 DEF HasRow, Exists
    <2>2. CASE Locked(a) /\ rows'[a] = task[a].row
        BY <1>1, <2>2 DEF HasRow, HasTask, SoloTask
    <2>3. CASE ~Exists(a) /\ rows'[a].state = "R"
        BY <1>1, <2>3 DEF Settled, HasRow
    <2> QED
        BY <2>1, <2>2, <2>3 DEF RowMoves
<1>5. ASSUME task'[a] # None
      PROVE  /\ rows'[a] = rows[a]
             /\ HasRow(w, a)' => HasTask(w, a)'
             /\ HasTask(w, a)' => SoloTask(w, a, task[a], mempool[w])'
             /\ HasItem(w, a)' => InFlight(pipeline[a], task'[a].row)
    <2>1. rows'[a] = rows[a] /\ (HasRow(w, a)' <=> HasRow(w, a))
        BY <1>5 DEF LockMoves, RowMoves, Locked, HasRow, Exists
    <2>2. CASE task'[a] = task[a]
        <3>1. Locked(a) /\ (HasTask(w, a)' <=> HasTask(w, a))
            BY <1>5, <2>2 DEF Locked, HasTask
        <3>2. HasTask(w, a)' => SoloTask(w, a, task[a], mempool[w])'
            BY <1>1, <1>3, <2>1, <2>2, <3>1 DEF SoloTask
        <3> QED
            BY <1>1, <1>3, <2>1, <2>2, <3>1, <3>2 DEF SoloItem
    <2>3. CASE IF Locked(a) THEN Kept(task[a].row, task'[a].row) /\ task'[a].by = task[a].by
               ELSE Turn(a, task'[a].by, task'[a].row)
        <3>1. HasRow(w, a) => HasTask(w, a)'
            BY <1>1, <1>5, <2>3 DEF HasRow, HasTask, Locked, Kept, Turn, Entitled
        <3>2. HasTask(w, a)' =>
                /\ Settled(a, mempool[w], chain[a], task'[a].row)
                /\ HasItem(w, a)' => task'[a].by # "chain" /\ InFlight(pipeline[a], task'[a].row)
                /\ (HasRow(w, a) /\ rows[a].state \in Pending /\ rows[a].stage = CHAIN)
                        => task'[a].by = "chain" \/ InFlight(rows[a], task'[a].row)
            BY <2>1, <2>3, SoloImage
        <3>3. HasTask(w, a)' => SoloTask(w, a, task[a], mempool[w])'
            BY <2>1, <3>2 DEF SoloTask
        <3> QED
            BY <1>1, <1>3, <2>1, <3>1, <3>2, <3>3
    <2> QED
        BY <1>5, <2>1, <2>2, <2>3 DEF LockMoves
<1>6. HasItem(w, a)' => SoloItem(a, pipeline[a], mempool[w])'
    <2> SUFFICES ASSUME HasItem(w, a)'
                 PROVE  SoloItem(a, pipeline[a], mempool[w])'
        OBVIOUS
    <2>1. /\ pipeline'[a] = pipeline[a] /\ SoloItem(a, pipeline[a], mempool[w])
          /\ HasRow(w, a)
        BY <1>1, <1>3
    <2>2. InFlight(pipeline[a], rows'[a])
        BY <2>1 DEF SoloItem, RowMoves, HasRow
    <2> QED
        BY <1>5, <2>1, <2>2 DEF SoloItem, Locked
<1> QED
    BY <1>1, <1>3, <1>4, <1>5, <1>6 DEF SoloArk, Locked, HasTask

----------------------------------------------------------------------------
(* Steps of the queue and of the chain worker without a lock *)

\* The transaction at the head is mined.
LEMMA MineEffect ==
    ASSUME IInv, NEW a \in Ark, NEW w \in Authority, Mine(w)
    PROVE  LET q == mempool[w]  op == Head(mempool[w])
               entry == [owner |-> w, target |-> op.target, cids |-> op.cids] IN
           /\ q # <<>> /\ mempool'[w] = Tail(q) /\ UNCHANGED <<rows, task>>
           /\ \A v \in Authority : v # w => mempool'[v] = mempool[v]
           /\ \/ chain'[a] = chain[a] /\ owned'[a] = owned[a]
              \/ op.ark = a /\ chain'[a] = entry /\ owned'[a] = owned[a] \cup {w}
           /\ \/ pipeline'[a] = pipeline[a]
              \/ /\ op.ark = a /\ HasItem(w, a) /\ pipeline[a].phase = "sent"
                 /\ \A i \in 2..Len(q) : q[i].ark # a
                 /\ \E phase \in {"confirmed", "reverted"} :
                      /\ pipeline'[a] = [pipeline[a] EXCEPT !.phase = phase]
                      /\ phase = "confirmed" => chain'[a] = entry
<1> DEFINE q == mempool[w]
           op == Head(q)
           entry == [owner |-> w, target |-> op.target, cids |-> op.cids]
           awaited == /\ op.ark \in InPhase({"sent"})
                      /\ pipeline[op.ark].authority = w
                      /\ \A i \in 2..Len(q) : q[i].ark # op.ark
           phase == IF Accepts(w, op) THEN "confirmed" ELSE "reverted"
<1>1. q # <<>> /\ mempool'[w] = Tail(q) /\ UNCHANGED <<rows, task>>
      /\ \A v \in Authority : v # w => mempool'[v] = mempool[v]
    BY DEF Mine, Execute, IInv, LedgerInv, ChainTypeOK
<1>2. IF Accepts(w, op)
      THEN /\ chain' = [chain EXCEPT ![op.ark] = entry]
           /\ owned' = [owned EXCEPT ![op.ark] = owned[op.ark] \cup {w}]
      ELSE UNCHANGED <<chain, owned>>
    BY DEF Mine, Execute
<1>3. pipeline' = IF awaited THEN [pipeline EXCEPT ![op.ark].phase = phase] ELSE pipeline
    BY DEF Mine, SetPhase
<1>4. chain \in [Ark -> Entry \cup {None}] /\ pipeline \in [Ark -> Item \cup {None}]
      /\ owned \in [Ark -> SUBSET Authority]
    BY DEF IInv, LedgerInv, ChainTypeOK, ItemsInv
<1> HIDE DEF q, op, entry
<1>5. \/ chain'[a] = chain[a] /\ owned'[a] = owned[a]
      \/ op.ark = a /\ chain'[a] = entry /\ owned'[a] = owned[a] \cup {w}
    BY <1>2, <1>4
<1>6. CASE awaited /\ op.ark = a
    <2>1. HasItem(w, a) /\ pipeline[a].phase = "sent" /\ \A i \in 2..Len(q) : q[i].ark # a
        BY <1>6 DEF InPhase, HasItem
    <2>2. pipeline'[a] = [pipeline[a] EXCEPT !.phase = phase] /\ phase \in {"confirmed", "reverted"}
        BY <1>3, <1>4, <1>6
    <2>3. phase = "confirmed" => chain'[a] = entry
        BY <1>2, <1>4, <1>6
    <2> HIDE DEF phase, awaited
    <2> QED
        BY <1>1, <1>5, <1>6, <2>1, <2>2, <2>3 DEF q, op, entry
<1>7. CASE ~(awaited /\ op.ark = a)
    <2>1. pipeline'[a] = pipeline[a]
        BY <1>3, <1>4, <1>7
    <2> QED
        BY <1>1, <1>5, <2>1 DEF q, op, entry
<1> QED
    BY <1>6, <1>7

\* What it leaves alone: the queues and the items of others, and the entry unless
\* the signer comes to own it.
LEMMA MineFrame ==
    ASSUME IInv, NEW a \in Ark, NEW w \in Authority, Mine(w)
    PROVE  /\ UNCHANGED <<rows, task>>
           /\ \A v \in Authority : v # w => mempool'[v] = mempool[v]
           /\ owned[a] \subseteq owned'[a]
           /\ chain'[a] = chain[a] \/ w \in owned'[a]
           /\ \/ pipeline'[a] = pipeline[a]
              \/ HasItem(w, a) /\ \E phase : pipeline'[a] = [pipeline[a] EXCEPT !.phase = phase]
<1> DEFINE q == mempool[w]
           op == Head(q)
           entry == [owner |-> w, target |-> op.target, cids |-> op.cids]
<1>1. /\ q # <<>> /\ mempool'[w] = Tail(q) /\ UNCHANGED <<rows, task>>
      /\ \A v \in Authority : v # w => mempool'[v] = mempool[v]
      /\ \/ chain'[a] = chain[a] /\ owned'[a] = owned[a]
         \/ op.ark = a /\ chain'[a] = entry /\ owned'[a] = owned[a] \cup {w}
      /\ \/ pipeline'[a] = pipeline[a]
         \/ /\ op.ark = a /\ HasItem(w, a) /\ pipeline[a].phase = "sent"
            /\ \A i \in 2..Len(q) : q[i].ark # a
            /\ \E phase \in {"confirmed", "reverted"} :
                  /\ pipeline'[a] = [pipeline[a] EXCEPT !.phase = phase]
                  /\ phase = "confirmed" => chain'[a] = entry
    BY MineEffect
<1> HIDE DEF q, op, entry
<1> QED
    BY <1>1

\* The transaction is one of w itself.
LEMMA SoloMine ==
    ASSUME IInv, NEW a \in Ark, NEW w \in Authority, SoloArk(w, a), Mine(w)
    PROVE  SoloArk(w, a)'
<1> DEFINE q == mempool[w]
           op == Head(q)
           entry == [owner |-> w, target |-> op.target, cids |-> op.cids]
<1>1. /\ q # <<>> /\ mempool'[w] = Tail(q) /\ UNCHANGED <<rows, task>>
      /\ chain'[a] = chain[a] \/ (op.ark = a /\ chain'[a] = entry)
      /\ \/ pipeline'[a] = pipeline[a]
         \/ /\ op.ark = a /\ HasItem(w, a) /\ pipeline[a].phase = "sent"
            /\ \A i \in 2..Len(q) : q[i].ark # a
            /\ \E phase \in {"confirmed", "reverted"} :
                  /\ pipeline'[a] = [pipeline[a] EXCEPT !.phase = phase]
                  /\ phase = "confirmed" => chain'[a] = entry
    BY MineEffect
<1>2. q \in Seq(Operation) /\ (pipeline[a] # None => pipeline[a] \in Item)
    BY Typed
<1>3. entry.target = op.target /\ entry.cids = op.cids /\ entry # None /\ entry.owner = w
    <2>1. op \in Operation
        BY <1>1, <1>2, TailOps
    <2>2. entry \in Entry
        BY <2>1 DEF Entry, Operation
    <2> QED
        BY <2>2, EntryAssumption
<1> HIDE DEF q, op, entry
<1>4. \/ chain'[a] = chain[a]
      \/ op.ark = a /\ Shows(chain'[a], op)
    BY <1>1, <1>3 DEF Shows, Carries
<1>5. \A row : Settled(a, q, chain[a], row) => Settled(a, Tail(q), chain'[a], row)
    BY <1>1, <1>2, <1>4, SettledMined DEF op
<1>6. Ops(q, a) = {} => Ops(Tail(q), a) = {} /\ chain'[a] = chain[a]
    BY <1>1, <1>2, TailOps DEF op
<1>7. /\ HasRow(w, a)' <=> HasRow(w, a)
      /\ HasTask(w, a)' <=> HasTask(w, a)
    BY <1>1 DEF HasRow, HasTask, Exists, Locked
<1>8. HasItem(w, a)' => HasItem(w, a)
    BY <1>1 DEF HasItem
<1>9. ASSUME HasItem(w, a)
      PROVE  SoloItem(a, pipeline[a], q)'
    <2>1. pipeline[a] # None /\ SoloItem(a, pipeline[a], q) /\ pipeline[a] \in Item
        BY <1>2, <1>9 DEF SoloArk, HasItem, q
    <2>2. CASE pipeline'[a] = pipeline[a]
        <3>1. ASSUME NEW i \in Ops(Tail(q), a), \A j \in Ops(Tail(q), a) : j <= i,
                     pipeline[a].phase = "sent"
              PROVE  Carries(Tail(q)[i], pipeline[a])
            <4>1. i + 1 \in Ops(q, a) /\ Tail(q)[i] = q[i + 1] /\ i \in Nat /\ i > 0
                BY <1>1, <1>2, TailOps DEF Ops
            <4>2. \A j \in Ops(q, a) : j \in Nat /\ j <= i + 1
                <5>1. \A j \in Ops(q, a) : j \in Nat /\ (j # 1 => j - 1 \in Ops(Tail(q), a))
                    BY <1>1, <1>2, TailOps DEF Ops
                <5> QED
                    BY <3>1, <4>1, <5>1
            <4> QED
                BY <2>1, <3>1, <4>1, <4>2 DEF SoloItem
        <3>2. pipeline[a].phase = "confirmed" => Ops(Tail(q), a) = {} /\ Shows(chain'[a], pipeline[a])
            BY <1>6, <2>1 DEF SoloItem
        <3> QED
            BY <1>1, <2>1, <2>2, <3>1, <3>2 DEF SoloItem, Locked, q
    <2>3. CASE /\ op.ark = a /\ pipeline[a].phase = "sent"
               /\ \A i \in 2..Len(q) : q[i].ark # a
               /\ \E phase \in {"confirmed", "reverted"} :
                    /\ pipeline'[a] = [pipeline[a] EXCEPT !.phase = phase]
                    /\ phase = "confirmed" => chain'[a] = entry
        <3>1. 1 \in Ops(q, a) /\ op = q[1] /\ Ops(Tail(q), a) = {} /\ \A j \in Ops(q, a) : j <= 1
            <4>1. 1 \in Ops(q, a) /\ op = q[1]
                BY <1>1, <1>2, <2>3, TailOps DEF op
            <4>2. \A j \in Ops(q, a) : j = 1
                BY <1>2, <2>3 DEF Ops
            <4>3. \A i \in Ops(Tail(q), a) : i \in Nat /\ i > 0 /\ i + 1 \in Ops(q, a)
                BY <1>1, <1>2, TailOps DEF Ops
            <4> QED
                BY <4>1, <4>2, <4>3
        <3>2. Carries(op, pipeline[a])
            BY <2>1, <2>3, <3>1 DEF SoloItem
        <3>3. PICK phase \in {"confirmed", "reverted"} :
                /\ pipeline'[a] = [pipeline[a] EXCEPT !.phase = phase]
                /\ phase = "confirmed" => chain'[a] = entry
            BY <2>3
        <3>4. /\ pipeline'[a].phase = phase
              /\ pipeline'[a].target = pipeline[a].target /\ pipeline'[a].cids = pipeline[a].cids
            BY <2>1, <3>3 DEF Item
        <3>5. phase = "confirmed" => Shows(chain'[a], pipeline'[a])
            BY <1>3, <3>2, <3>3, <3>4 DEF Shows, Carries
        <3>6. \A row : InFlight(pipeline[a], row) => InFlight(pipeline'[a], row)
            BY <3>4 DEF InFlight, Carries
        <3> QED
            BY <1>1, <2>1, <3>1, <3>3, <3>4, <3>5, <3>6 DEF SoloItem, Locked, q
    <2> QED
        BY <1>1, <2>1, <2>2, <2>3
<1>10. (chain[a] # None => chain[a].owner = w) => (chain'[a] # None => chain'[a].owner = w)
    BY <1>1, <1>3
<1>11. HasTask(w, a) /\ SoloTask(w, a, task[a], q) => SoloTask(w, a, task[a], q)'
    BY <1>1, <1>5, <1>7, <1>8 DEF SoloTask, q
<1> QED
    BY <1>1, <1>5, <1>6, <1>7, <1>8, <1>9, <1>10, <1>11 DEF SoloArk, Locked, q

\* The items of w are sent, or given up: what it has queued for a is what its
\* item says.  Nothing happens to what w has for a if the items are not its own.
LEMMA SoloQueue ==
    ASSUME IInv, NEW a \in Ark, NEW w \in Authority, SoloArk(w, a),
           UNCHANGED <<rows, task>>, chain'[a] = chain[a],
           \/ mempool'[w] = mempool[w]
           \/ \E b \in Ark : /\ HasItem(w, b) /\ mempool'[w] = Append(mempool[w], OperationOf(b))
                             /\ b = a => pipeline'[a] # pipeline[a],
           \/ pipeline'[a] = pipeline[a]
           \/ /\ HasItem(w, a)
              /\ \E phase \in {"sent", "unknown"} :
                    /\ pipeline'[a] = [pipeline[a] EXCEPT !.phase = phase]
                    /\ phase = "sent" => mempool'[w] = Append(mempool[w], OperationOf(a))
           \/ ~HasItem(w, a) /\ ~HasItem(w, a)'
    PROVE  SoloArk(w, a)'
<1> DEFINE q == mempool[w]
<1>1. q \in Seq(Operation) /\ \A b \in Ark : HasItem(w, b) => pipeline[b] \in Item
    BY Typed DEF HasItem
<1>2. \A b \in Ark : HasItem(w, b) =>
        /\ OperationOf(b) \in Operation /\ OperationOf(b).ark = b
        /\ Carries(OperationOf(b), pipeline[b])
    BY <1>1 DEF OperationOf, Operation, Item, Carries
<1> HIDE DEF q
<1>3. ASSUME NEW b \in Ark, HasItem(w, b)
      PROVE  LET op == OperationOf(b)  new == Append(q, OperationOf(b)) IN
             /\ \A i \in Ops(new, a) : \/ i \in Ops(q, a) /\ new[i] = q[i] /\ i <= Len(q)
                                       \/ b = a /\ new[i] = op
             /\ b = a => Len(q) + 1 \in Ops(new, a)
             /\ Ops(q, a) \subseteq Ops(new, a)
    <2> DEFINE op == OperationOf(b)
    <2>1. op \in Operation /\ op.ark = b
        BY <1>2, <1>3
    <2> HIDE DEF op
    <2>2. /\ \A i \in Ops(Append(q, op), a) :
                \/ i \in Ops(q, a) /\ Append(q, op)[i] = q[i] /\ i <= Len(q)
                \/ b = a /\ Append(q, op)[i] = op
          /\ b = a => Len(q) + 1 \in Ops(Append(q, op), a)
          /\ Ops(q, a) \subseteq Ops(Append(q, op), a)
        <3>1. /\ \A i \in Ops(Append(q, op), a) :
                    \/ i \in Ops(q, a) /\ Append(q, op)[i] = q[i] /\ i <= Len(q)
                    \/ i = Len(q) + 1 /\ op.ark = a /\ Append(q, op)[i] = op
              /\ op.ark = a => Len(q) + 1 \in Ops(Append(q, op), a)
              /\ \A i \in Ops(q, a) : i \in Ops(Append(q, op), a)
            BY <1>1, <2>1, AppendOps
        <3> DEFINE new == Append(q, op)
        <3> HIDE DEF new
        <3> QED
            BY <2>1, <3>1 DEF new
    <2> QED
        BY <2>2 DEF op
<1>4. /\ chain[a] # None => chain[a].owner = w
      /\ ~HasRow(w, a) => Ops(q, a) = {} /\ ~HasItem(w, a)
      /\ HasRow(w, a) => Settled(a, q, chain[a], rows[a])
      /\ HasRow(w, a) /\ Locked(a) => HasTask(w, a)
      /\ HasTask(w, a) => SoloTask(w, a, task[a], q)
      /\ HasItem(w, a) => SoloItem(a, pipeline[a], q) /\ HasRow(w, a)
    BY DEF SoloArk, q
<1>5. ASSUME NEW b \in Ark, HasItem(w, b), NEW row,
             Settled(a, q, chain[a], row), b = a => InFlight(pipeline[a], row)
      PROVE  Settled(a, Append(q, OperationOf(b)), chain[a], row)
    <2>1. b = a => row.state # "R" /\ (row.state = "T" \/ Carries(OperationOf(b), row))
        BY <1>2, <1>5 DEF InFlight, Pending, Carries
    <2> QED
        BY <1>1, <1>2, <1>5, <2>1, SettledSent
<1> DEFINE Fine ==
        /\ ~HasRow(w, a) => Ops(mempool'[w], a) = {}
        /\ HasRow(w, a) => Settled(a, mempool'[w], chain[a], rows[a])
        /\ HasTask(w, a) => Settled(a, mempool'[w], chain[a], task[a].row)
<1>6. Fine
    <2>1. CASE mempool'[w] = mempool[w]
        BY <1>4, <2>1 DEF SoloTask, q
    <2>2. ASSUME NEW b \in Ark, HasItem(w, b), mempool'[w] = Append(q, OperationOf(b))
          PROVE  Fine
        <3>1. ~HasRow(w, a) => b # a /\ Ops(q, a) = {}
            BY <1>4, <2>2
        <3>2. ~HasRow(w, a) => Ops(Append(q, OperationOf(b)), a) = {}
            BY <1>3, <2>2, <3>1
        <3>3. HasRow(w, a) => Settled(a, Append(q, OperationOf(b)), chain[a], rows[a])
            BY <1>4, <1>5, <2>2 DEF SoloItem
        <3>4. HasTask(w, a) => Settled(a, Append(q, OperationOf(b)), chain[a], task[a].row)
            BY <1>4, <1>5, <2>2 DEF SoloTask, SoloItem, HasTask
        <3> QED
            BY <2>2, <3>2, <3>3, <3>4
    <2> QED
        BY <2>1, <2>2 DEF q
<1>7. ASSUME HasItem(w, a)'
      PROVE  HasItem(w, a) /\ SoloItem(a, pipeline[a], mempool[w])'
    <2>1. HasItem(w, a)
        BY <1>7 DEF HasItem
    <2>2. pipeline[a] # None /\ SoloItem(a, pipeline[a], q) /\ pipeline[a] \in Item
        BY <1>1, <1>4, <2>1 DEF HasItem
    <2>3. CASE pipeline'[a] = pipeline[a]
        <3>1. CASE mempool'[w] = mempool[w]
            BY <2>1, <2>2, <2>3, <3>1 DEF SoloItem, Locked, q
        <3>2. ASSUME NEW b \in Ark, b # a, HasItem(w, b),
                     mempool'[w] = Append(q, OperationOf(b))
              PROVE  SoloItem(a, pipeline[a], mempool[w])'
            <4>1. \A i \in Ops(Append(q, OperationOf(b)), a) :
                    i \in Ops(q, a) /\ Append(q, OperationOf(b))[i] = q[i]
                BY <1>3, <3>2
            <4>2. Ops(q, a) \subseteq Ops(Append(q, OperationOf(b)), a)
                BY <1>3, <3>2
            <4> QED
                BY <2>1, <2>2, <2>3, <3>2, <4>1, <4>2 DEF SoloItem, Locked
        <3> QED
            BY <2>1, <2>3, <3>1, <3>2 DEF q
    <2>4. ASSUME NEW phase \in {"sent", "unknown"},
                 pipeline'[a] = [pipeline[a] EXCEPT !.phase = phase],
                 phase = "sent" => mempool'[w] = Append(q, OperationOf(a))
          PROVE  SoloItem(a, pipeline[a], mempool[w])'
        <3>1. /\ pipeline'[a].phase = phase
              /\ pipeline'[a].target = pipeline[a].target /\ pipeline'[a].cids = pipeline[a].cids
            BY <2>2, <2>4 DEF Item
        <3>2. \A row : InFlight(pipeline[a], row) => InFlight(pipeline'[a], row)
            BY <3>1 DEF InFlight, Carries
        <3>3. ASSUME phase = "sent",
                     NEW i \in Ops(mempool'[w], a), \A j \in Ops(mempool'[w], a) : j <= i
              PROVE  Carries(mempool'[w][i], pipeline'[a])
            <4>1. Len(q) + 1 \in Ops(mempool'[w], a) /\ Len(q) \in Nat
                <5>1. Len(q) \in Nat
                    BY <1>1
                <5>2. Len(q) + 1 \in Ops(Append(q, OperationOf(a)), a)
                    BY <1>3, <2>1
                <5> QED
                    BY <2>4, <3>3, <5>1, <5>2
            <4>2. \/ i <= Len(q) /\ i \in Nat
                  \/ mempool'[w][i] = OperationOf(a)
                BY <1>3, <2>1, <2>4, <3>3 DEF Ops
            <4>3. Len(q) + 1 <= i
                BY <3>3, <4>1
            <4>4. mempool'[w][i] = OperationOf(a)
                BY <4>1, <4>2, <4>3
            <4> QED
                BY <1>2, <2>1, <3>1, <4>4 DEF Carries
        <3> QED
            BY <2>2, <3>1, <3>2, <3>3 DEF SoloItem, Locked
    <2> QED
        BY <1>7, <2>1, <2>3, <2>4 DEF q
<1>8. /\ HasRow(w, a)' <=> HasRow(w, a)
      /\ HasTask(w, a)' <=> HasTask(w, a)
    BY DEF HasRow, HasTask, Exists, Locked
<1>9. HasTask(w, a) => SoloTask(w, a, task[a], mempool[w])'
    BY <1>4, <1>6, <1>7, <1>8 DEF SoloTask
<1> QED
    BY <1>4, <1>6, <1>7, <1>8, <1>9 DEF SoloArk, Locked

LEMMA SoloSelect ==
    ASSUME IInv, NEW a \in Ark, NEW w \in Authority, SoloArk(w, a),
           NEW page \in SUBSET Publishable, SelectPage(page)
    PROVE  SoloArk(w, a)'
<1>1. /\ UNCHANGED <<rows, task, chain, mempool>>
      /\ pipeline'[a] = IF a \in page THEN ItemOf(rows[a]) ELSE None
    BY DEF SelectPage, chainVars
<1>2. Locked(a) => task[a].by # "chain"
    BY DEF SelectPage, Busy
<1>3. /\ HasRow(w, a)' <=> HasRow(w, a)
      /\ HasTask(w, a)' <=> HasTask(w, a)
    BY <1>1 DEF HasRow, HasTask, Exists, Locked
<1>4. ASSUME HasItem(w, a)'
      PROVE  HasRow(w, a) /\ SoloItem(a, pipeline[a], mempool[w])'
    <2>1. /\ Exists(a) /\ rows[a].state \in Pending /\ rows[a].stage = CHAIN
          /\ pipeline'[a] = ItemOf(rows[a])
        BY <1>1, <1>4 DEF Publishable, HasItem
    <2>2. /\ pipeline'[a].phase = "selected" /\ Carries(pipeline'[a], rows[a])
          /\ pipeline'[a].authority = rows[a].authority
        BY <2>1 DEF ItemOf, Carries
    <2>3. HasRow(w, a)
        BY <1>4, <2>1, <2>2 DEF HasRow, HasItem
    <2>4. Locked(a) => InFlight(rows[a], task[a].row)
        BY <1>2, <2>1, <2>3 DEF SoloArk, SoloTask
    <2> QED
        BY <1>1, <2>1, <2>2, <2>3, <2>4 DEF SoloItem, InFlight, Carries, Locked
<1>5. HasTask(w, a) => SoloTask(w, a, task[a], mempool[w])'
    BY <1>1, <1>2, <1>3 DEF SoloArk, SoloTask, HasTask
<1> QED
    BY <1>1, <1>3, <1>4, <1>5 DEF SoloArk, Locked

----------------------------------------------------------------------------
(* Every step *)

Untouched(a) == chain'[a] = chain[a] /\ owned'[a] = owned[a]

ChangesHands(a) ==
    /\ chain[a] # None /\ Shows(chain'[a], chain[a])
    /\ chain'[a].owner # chain[a].owner
    /\ owned'[a] = owned[a] \cup {chain'[a].owner}

\* The queues and the content of the entries stay as they are.
Calm ==
    /\ UNCHANGED mempool
    /\ \A a \in Ark : ItemRests(a) /\ (Untouched(a) \/ ChangesHands(a))

Publishing ==
    \/ \E page \in SUBSET Publishable : SelectPage(page)
    \/ \E w \in Authority : Mine(w)
    \/ \E b \in Ark : Send(b) \/ SendFails(b) \/ ReceiptTimeout(b)

LEMMA AcquireRests ==
    ASSUME IInv, NEW b \in Ark, NEW by, NEW step, NEW image, Acquire(b, by, step, image),
           \A a \in Ark : pipeline'[a] \in {pipeline[a], None},
           by = "chain" => pipeline'[b] = None
    PROVE  \A a \in Ark : ItemRests(a)
<1> DEFINE new == [by |-> by, step |-> step, row |-> image]
<1>1. task' = [task EXCEPT ![b] = new] /\ new.by = by
    BY DEF Acquire
<1> HIDE DEF new
<1>2. task'[b] = new /\ \A a \in Ark : a # b => task'[a] = task[a]
    BY <1>1 DEF IInv, TasksInv
<1> QED
    BY <1>1, <1>2 DEF ItemRests, Locked

LEMMA DropRests ==
    ASSUME \A a \in Ark : task'[a] \in {task[a], None},
           \A a \in Ark : pipeline'[a] \in {pipeline[a], None}
    PROVE  \A a \in Ark : ItemRests(a)
    BY DEF ItemRests, Locked

LEMMA ApiCalm == IInv /\ ApiNext => Calm
<1> SUFFICES ASSUME IInv, ApiNext
             PROVE  Calm
    OBVIOUS
<1>1. PICK b \in Ark, w \in Authority :
        \/ Reserve(b, w) \/ Delete(b, w) \/ RetryFailed(b, w)
        \/ \E target \in Target, payload \in Payload : PutMetadata(b, w, target, payload)
    BY DEF ApiNext
<1>2. UNCHANGED <<pipeline, mempool, chain, owned>>
    BY <1>1 DEF Reserve, Delete, RetryFailed, PutMetadata, chainVars
<1>3. UNCHANGED task \/ \E image : Acquire(b, "api", "commit", image)
    BY <1>1 DEF Reserve, Delete, RetryFailed, PutMetadata, Write
<1>4. \A a \in Ark : ItemRests(a)
    BY <1>2, <1>3, AcquireRests, DropRests
<1> QED
    BY <1>2, <1>4 DEF Calm, Untouched

LEMMA MetadataCalm == IInv /\ MetadataNext => Calm
<1> SUFFICES ASSUME IInv, MetadataNext
             PROVE  Calm
    OBVIOUS
<1>1. PICK b \in Ark : \/ PersistBegin(b) \/ StoreLevel2(b)
                       \/ StoreLevel1(b)  \/ PersistFails(b)
    BY DEF MetadataNext
<1>2. UNCHANGED <<pipeline, mempool, chain, owned>>
    BY <1>1 DEF PersistBegin, StoreLevel2, StoreLevel1, PersistFails, chainVars
<1>3. CASE PersistBegin(b)
    <2>1. \A a \in Ark : ItemRests(a)
        BY <1>2, <1>3, AcquireRests DEF PersistBegin
    <2> QED
        BY <1>2, <2>1 DEF Calm, Untouched
<1>4. CASE StoreLevel2(b) \/ StoreLevel1(b) \/ PersistFails(b)
    <2>1. Locked(b) /\ \E step, image : Advance(b, step, image)
        BY <1>4 DEF StoreLevel2, StoreLevel1, PersistFails, Persisting
    <2>2. \A a \in Ark : a # b => task'[a] = task[a]
        BY <2>1 DEF Advance, IInv, TasksInv
    <2>3. \A a \in Ark : ItemRests(a)
        BY <1>2, <2>1, <2>2 DEF ItemRests, Locked
    <2> QED
        BY <1>2, <2>3 DEF Calm, Untouched
<1> QED
    BY <1>1, <1>3, <1>4

LEMMA ReplicationCalm == IInv /\ ReplicationNext => Calm
<1> SUFFICES ASSUME IInv, ReplicationNext
             PROVE  Calm
    OBVIOUS
<1>1. CASE \/ FirstPinCycle \/ MaintenanceCycle
           \/ \E b \in Ark : SkipReconcile(b)
    <2>1. UNCHANGED <<task, pipeline, mempool, chain, owned>>
        BY <1>1 DEF FirstPinCycle, MaintenanceCycle, Observe, SkipReconcile, chainVars
    <2> QED
        BY <2>1, DropRests DEF Calm, Untouched
<1>2. CASE CrashReplicationWorker
    <2>1. UNCHANGED <<pipeline, mempool, chain, owned>> /\ \A a \in Ark : task'[a] \in {task[a], None}
        BY <1>2 DEF CrashReplicationWorker, Released, chainVars
    <2> QED
        BY <2>1, DropRests DEF Calm, Untouched
<1>3. ASSUME NEW b \in Ark, \/ ReconcileUnassigned(b) \/ ReconcileUnanswered(b)
                            \/ ReconcileObserved(b)   \/ ReconcileRepair(b)
      PROVE  Calm
    <2>1. PICK image : Reconcile(b, image)
        BY <1>3 DEF ReconcileUnassigned, ReconcileUnanswered, ReconcileObserved, ReconcileRepair
    <2>2. UNCHANGED <<pipeline, mempool, chain, owned>> /\ Acquire(b, "replication", "commit", image)
        BY <2>1 DEF Reconcile, Write, chainVars
    <2>3. \A a \in Ark : ItemRests(a)
        BY <2>2, AcquireRests
    <2> QED
        BY <2>2, <2>3 DEF Calm, Untouched
<1> QED
    BY <1>1, <1>2, <1>3 DEF ReplicationNext

LEMMA ChainCalm == IInv /\ ChainNext => Calm \/ Publishing
<1> SUFFICES ASSUME IInv, ChainNext, ~Publishing
             PROVE  Calm
    OBVIOUS
<1>0. pipeline \in [Ark -> Item \cup {None}]
    BY DEF IInv, ItemsInv
<1>1. CASE CrashChainWorker
    <2>1. /\ UNCHANGED <<mempool, chain, owned>>
          /\ \A a \in Ark : task'[a] \in {task[a], None} /\ pipeline'[a] = None
        BY <1>1 DEF CrashChainWorker, Released, chainVars
    <2> QED
        BY <2>1, DropRests DEF Calm, Untouched
<1>2. ASSUME NEW b \in Ark,
             \/ RejectUnassigned(b) \/ DropResult(b) \/ FinalizeConfirmed(b)
             \/ FailLostIdentity(b) \/ ReconcileOnChain(b) \/ FailReverted(b)
             \/ DeferUncertain(b)
      PROVE  Calm
    <2>1. /\ UNCHANGED <<mempool, chain, owned>> /\ Forget(b)
          /\ UNCHANGED task \/ \E image : Acquire(b, "chain", "commit", image)
        BY <1>2 DEF RejectUnassigned, DropResult, FinalizeConfirmed, FailLostIdentity,
           ReconcileOnChain, FailReverted, DeferUncertain, Handle, Write, workVars, chainVars
    <2>2. pipeline'[b] = None /\ \A a \in Ark : pipeline'[a] \in {pipeline[a], None}
        BY <1>0, <2>1 DEF Forget
    <2>3. \A a \in Ark : ItemRests(a)
        BY <2>1, <2>2, AcquireRests, DropRests
    <2> QED
        BY <2>1, <2>3 DEF Calm, Untouched
<1> QED
    BY <1>1, <1>2 DEF ChainNext, Publishing

LEMMA OtherCalm == IInv /\ (LockNext \/ EnvironmentNext \/ UNCHANGED vars) => Calm
<1> SUFFICES ASSUME IInv, LockNext \/ EnvironmentNext \/ UNCHANGED vars
             PROVE  Calm
    OBVIOUS
<1>1. CASE LockNext
    <2>1. /\ UNCHANGED <<pipeline, mempool, chain, owned>>
          /\ \A a \in Ark : task'[a] \in {task[a], None}
        BY <1>1 DEF LockNext, CommitAndUnlock, LoseConnection, chainVars, IInv, TasksInv
    <2> QED
        BY <2>1, DropRests DEF Calm, Untouched
<1>2. CASE UNCHANGED <<task, pipeline, mempool, chain, owned>>
    BY <1>2, DropRests DEF Calm, Untouched
<1>3. ASSUME NEW b \in Ark, NEW v \in Authority, TransferOwner(b, v), UNCHANGED <<task, pipeline>>
      PROVE  Calm
    <2>1. /\ chain \in [Ark -> Entry \cup {None}] /\ chain[b] \in Entry /\ UNCHANGED mempool
          /\ owned \in [Ark -> SUBSET Authority]
        BY <1>3 DEF TransferOwner, IInv, LedgerInv, ChainTypeOK
    <2>2. \A a \in Ark : a # b => Untouched(a)
        BY <1>3, <2>1 DEF TransferOwner, Untouched
    <2>3. chain'[b] = [chain[b] EXCEPT !.owner = v]
        BY <1>3, <2>1 DEF TransferOwner
    <2>4. /\ chain'[b] \in Entry /\ Carries(chain'[b], chain[b])
          /\ chain'[b].owner = v /\ v # chain[b].owner
        BY <1>3, <2>1, <2>3 DEF TransferOwner, Entry, Carries
    <2>5. owned'[b] = owned[b] \cup {v}
        BY <1>3, <2>1 DEF TransferOwner
    <2>6. ChangesHands(b)
        BY <1>3, <2>4, <2>5, EntryAssumption DEF TransferOwner, ChangesHands, Shows
    <2>7. \A a \in Ark : ItemRests(a)
        BY <1>3, DropRests
    <2> QED
        BY <2>1, <2>2, <2>6, <2>7 DEF Calm
<1> QED
    BY <1>1, <1>2, <1>3 DEF EnvironmentNext, Revoke, Grant, vars, workVars, chainVars

LEMMA StepKinds == IInv /\ [Next]_vars => Calm \/ Publishing
    BY ApiCalm, MetadataCalm, ReplicationCalm, ChainCalm, OtherCalm DEF Next

LEMMA RowsMoved ==
    ASSUME IInv, [Next]_vars, NEW a \in Ark
    PROVE  RowMoves(a)
<1>1. CASE UNCHANGED rows
    BY <1>1 DEF RowMoves
<1>2. ASSUME NEW b \in Ark, NEW w \in Authority, Reserve(b, w)
      PROVE  RowMoves(a)
    <2>1. CreateReserved(w) # None /\ CreateReserved(w).state = "R"
        BY NewRowGood, NullAssumption DEF CreateReserved, NewRow, GoodRow
    <2>2. rows'[b] = CreateReserved(w) /\ \A c \in Ark : c # b => rows'[c] = rows[c]
        BY <1>2 DEF Reserve, IInv, RowsInv
    <2> QED
        BY <1>2, <2>1, <2>2 DEF RowMoves, Reserve, Locked
<1>3. ASSUME NEW b \in Ark, CommitAndUnlock(b)
      PROVE  RowMoves(a)
    BY <1>3 DEF RowMoves, CommitAndUnlock, IInv, RowsInv, TasksInv
<1> QED
    BY <1>1, <1>2, <1>3, RowsMove

----------------------------------------------------------------------------
(* The invariant *)

LEMMA SoloPublishing ==
    ASSUME IInv, NEW a \in Ark, NEW w \in Authority, SoloArk(w, a),
           owned'[a] \subseteq {w}, Publishing
    PROVE  SoloArk(w, a)'
<1>1. /\ pipeline \in [Ark -> Item \cup {None}] /\ mempool \in [Authority -> Seq(Operation)]
      /\ \A b \in Ark : pipeline[b] # None => pipeline[b] \in Item
    BY DEF IInv, ItemsInv, LedgerInv, ChainTypeOK
<1>2. \A b \in Ark, phase \in ItemPhase : pipeline[b] # None =>
        [pipeline[b] EXCEPT !.phase = phase].phase = phase
    BY <1>1 DEF Item
<1> DEFINE Marked(b) ==
                /\ HasItem(w, b)
                /\ \E phase \in {"sent", "unknown"} :
                      /\ pipeline'[b] = [pipeline[b] EXCEPT !.phase = phase]
                      /\ phase = "sent" => mempool'[w] = Append(mempool[w], OperationOf(b))
           Foreigner(b) == ~HasItem(w, b) /\ ~HasItem(w, b)'
<1>3. ASSUME NEW b \in Ark, CanSend(b)
      PROVE  /\ pipeline[b] # None /\ pipeline[b].phase = "selected"
             /\ Submit(b) => /\ ~HasItem(w, b) => mempool'[w] = mempool[w]
                             /\ HasItem(w, b) => mempool'[w] = Append(mempool[w], OperationOf(b))
    BY <1>1, <1>3 DEF CanSend, InPhase, Submit, HasItem
<1>4. ASSUME NEW b \in Ark, pipeline[b] # None, ~HasItem(w, b), NEW phase,
             pipeline'[b] = [pipeline[b] EXCEPT !.phase = phase]
      PROVE  Foreigner(b)
    BY <1>1, <1>4 DEF HasItem, Item
<1>5. ASSUME NEW b \in Ark, Send(b)
      PROVE  SoloArk(w, a)'
    <2>1. /\ pipeline[b] # None /\ pipeline[b].phase = "selected"
          /\ ~HasItem(w, b) => mempool'[w] = mempool[w]
          /\ HasItem(w, b) => mempool'[w] = Append(mempool[w], OperationOf(b))
          /\ UNCHANGED <<rows, task, chain>>
        BY <1>3, <1>5 DEF Send
    <2>2. /\ pipeline'[b] = [pipeline[b] EXCEPT !.phase = "sent"]
          /\ \A c \in Ark : c # b => pipeline'[c] = pipeline[c]
        BY <1>1, <1>5 DEF Send, SetPhase
    <2>3. pipeline'[b] # pipeline[b]
        BY <1>2, <2>1, <2>2 DEF ItemPhase
    <2>4. pipeline'[a] = pipeline[a] \/ Marked(a) \/ Foreigner(a)
        BY <1>4, <2>1, <2>2
    <2> QED
        BY <2>1, <2>3, <2>4, SoloQueue
<1>6. ASSUME NEW b \in Ark, SendFails(b)
      PROVE  SoloArk(w, a)'
    <2>1. /\ pipeline[b] # None /\ pipeline[b].phase = "selected"
          /\ \/ mempool'[w] = mempool[w]
             \/ HasItem(w, b) /\ mempool'[w] = Append(mempool[w], OperationOf(b))
          /\ UNCHANGED <<rows, task, chain>>
        BY <1>3, <1>6 DEF SendFails
    <2>2. PICK skipped \in SUBSET {c \in InPhase({"selected"}) :
                                        pipeline[c].authority = pipeline[b].authority} :
            pipeline' = [c \in Ark |-> IF c = b \/ c \in skipped
                                       THEN [pipeline[c] EXCEPT !.phase = "unknown"]
                                       ELSE pipeline[c]]
        BY <1>6 DEF SendFails
    <2>3. pipeline'[b] # pipeline[b]
        BY <1>2, <2>1, <2>2 DEF ItemPhase
    <2>4. \/ pipeline'[a] = pipeline[a]
          \/ pipeline[a] # None /\ pipeline'[a] = [pipeline[a] EXCEPT !.phase = "unknown"]
        BY <2>1, <2>2 DEF InPhase
    <2>5. pipeline'[a] = pipeline[a] \/ Marked(a) \/ Foreigner(a)
        BY <1>4, <2>4
    <2> QED
        BY <2>1, <2>3, <2>5, SoloQueue
<1>7. ASSUME NEW b \in Ark, ReceiptTimeout(b)
      PROVE  SoloArk(w, a)'
    <2>1. mempool'[w] = mempool[w] /\ UNCHANGED <<rows, task, chain>> /\ pipeline[b] # None
        BY <1>7 DEF ReceiptTimeout, chainVars, InPhase
    <2>2. \/ pipeline'[a] = pipeline[a]
          \/ pipeline[a] # None /\ pipeline'[a] = [pipeline[a] EXCEPT !.phase = "unknown"]
        BY <1>1, <1>7, <2>1 DEF ReceiptTimeout, SetPhase
    <2>3. pipeline'[a] = pipeline[a] \/ Marked(a) \/ Foreigner(a)
        BY <1>4, <2>2
    <2> QED
        BY <2>1, <2>3, SoloQueue
<1>8. ASSUME NEW v \in Authority, Mine(v)
      PROVE  SoloArk(w, a)'
    <2>1. CASE v = w
        BY <1>8, <2>1, SoloMine
    <2>2. CASE v # w
        <3>1. /\ UNCHANGED <<rows, task>> /\ mempool'[w] = mempool[w] /\ chain'[a] = chain[a]
              /\ \/ pipeline'[a] = pipeline[a]
                 \/ /\ HasItem(v, a)
                    /\ \E phase : pipeline'[a] = [pipeline[a] EXCEPT !.phase = phase]
            BY <1>8, <2>2, MineFrame
        <3>2. pipeline'[a] = pipeline[a] \/ Foreigner(a)
            BY <1>4, <2>2, <3>1 DEF HasItem
        <3> QED
            BY <3>1, <3>2, SoloQueue
    <2> QED
        BY <2>1, <2>2
<1> QED
    BY <1>5, <1>6, <1>7, <1>8, SoloSelect DEF Publishing

\* Who owned an ARK once has owned it ever after.
LEMMA OwnedGrows ==
    ASSUME IInv, [Next]_vars, NEW a \in Ark
    PROVE  owned[a] \subseteq owned'[a]
<1>1. CASE Calm
    BY <1>1 DEF Calm, Untouched, ChangesHands
<1>2. ASSUME NEW w \in Authority, Mine(w)
      PROVE  owned[a] \subseteq owned'[a]
    BY <1>2, MineFrame
<1>3. CASE UNCHANGED owned
    BY <1>3
<1> QED
    BY <1>1, <1>2, <1>3, StepKinds
    DEF Publishing, SelectPage, Send, SendFails, ReceiptTimeout, chainVars

LEMMA SoloStep ==
    ASSUME IInv, IInv', TasksForward, [Next]_vars, NEW a \in Ark, NEW w \in Authority,
           owned[a] \subseteq {w} => SoloArk(w, a), owned'[a] \subseteq {w}
    PROVE  SoloArk(w, a)'
<1>1. SoloArk(w, a)
    BY OwnedGrows
<1>2. CASE Calm
    <2>1. ItemRests(a) /\ mempool'[w] = mempool[w] /\ (Untouched(a) \/ ChangesHands(a))
        BY <1>2 DEF Calm
    <2>2. ~ChangesHands(a)
        BY <1>1 DEF ChangesHands, SoloArk
    <2> QED
        BY <1>1, <2>1, <2>2, Steps, RowsMoved, SoloTurn DEF Untouched
<1> QED
    BY <1>1, <1>2, StepKinds, SoloPublishing

\* An entry that was written is written over at most.
LEMMA WrittenGrows ==
    ASSUME IInv, [Next]_vars, NEW a \in Ark, WrittenArk(a)
    PROVE  /\ Written(a) => Written(a)'
           /\ Written(a)' => \E w \in owned'[a] :
                    <<a, w, chain'[a].target, chain'[a].cids>> \in Offers
           /\ (pipeline'[a] # None /\ pipeline'[a].phase = "confirmed") => Written(a)'
<1>1. CASE Calm
    <2>1. /\ Written(a)' <=> Written(a)
          /\ Written(a) => /\ chain'[a].target = chain[a].target
                           /\ chain'[a].cids = chain[a].cids
        BY <1>1 DEF Calm, Untouched, ChangesHands, Written, Shows, Carries
    <2>2. pipeline'[a] \in {pipeline[a], None}
        BY <1>1 DEF Calm, ItemRests
    <2> QED
        BY <2>1, <2>2, OwnedGrows DEF WrittenArk
<1>2. ASSUME NEW w \in Authority, Mine(w)
      PROVE  /\ Written(a) => Written(a)'
             /\ Written(a)' => \E v \in owned'[a] :
                    <<a, v, chain'[a].target, chain'[a].cids>> \in Offers
             /\ (pipeline'[a] # None /\ pipeline'[a].phase = "confirmed") => Written(a)'
    <2> DEFINE q == mempool[w]
               op == Head(q)
               entry == [owner |-> w, target |-> op.target, cids |-> op.cids]
    <2>1. /\ q # <<>>
          /\ \/ chain'[a] = chain[a] /\ owned'[a] = owned[a]
             \/ op.ark = a /\ chain'[a] = entry /\ w \in owned'[a]
          /\ \/ pipeline'[a] = pipeline[a]
             \/ /\ pipeline[a] # None
                /\ \E phase \in {"confirmed", "reverted"} :
                      /\ pipeline'[a] = [pipeline[a] EXCEPT !.phase = phase]
                      /\ phase = "confirmed" => chain'[a] = entry
        BY <1>2, MineEffect DEF HasItem
    <2>2. q \in Seq(Operation) /\ (pipeline[a] # None => pipeline[a] \in Item)
        BY Typed
    <2>3. op \in Operation /\ op = q[1] /\ 1 \in 1..Len(q)
        BY <2>1, <2>2, TailOps
    <2>4. <<op.ark, w, op.target, op.cids>> \in Offers
        BY <2>3 DEF IInv, LedgerInv
    <2>5. entry \in Entry /\ entry.target = op.target /\ entry.cids = op.cids /\ entry.cids # None
        BY <2>3, RecordAssumption DEF Entry, Operation
    <2> HIDE DEF q, op, entry
    <2>6. chain'[a] = entry => Written(a)'
        BY <2>5, EntryAssumption DEF Written
    <2>7. chain'[a] = chain[a] => (Written(a)' <=> Written(a))
        BY DEF Written
    <2>8. (pipeline'[a] # None /\ pipeline'[a].phase = "confirmed") => Written(a)'
        <3>1. CASE pipeline'[a] = pipeline[a]
            BY <2>1, <2>6, <2>7, <3>1 DEF WrittenArk
        <3>2. ASSUME NEW phase \in {"confirmed", "reverted"}, pipeline[a] # None,
                     pipeline'[a] = [pipeline[a] EXCEPT !.phase = phase],
                     phase = "confirmed" => chain'[a] = entry
              PROVE  pipeline'[a].phase = "confirmed" => Written(a)'
            BY <2>2, <2>6, <3>2 DEF Item
        <3> QED
            BY <2>1, <3>1, <3>2
    <2> QED
        BY <2>1, <2>4, <2>5, <2>6, <2>7, <2>8 DEF WrittenArk
<1>3. CASE UNCHANGED <<chain, owned>> /\ (\/ pipeline'[a] \in {pipeline[a], None}
                                          \/ pipeline'[a] # None /\ pipeline'[a].phase # "confirmed")
    BY <1>3 DEF WrittenArk, Written
<1>4. ASSUME NEW b \in Ark, Send(b) \/ SendFails(b) \/ ReceiptTimeout(b)
      PROVE  /\ UNCHANGED <<chain, owned>>
             /\ pipeline'[a] = pipeline[a] \/ pipeline'[a].phase \in {"sent", "unknown"}
    <2>1. /\ pipeline \in [Ark -> Item \cup {None}]
          /\ \A c \in Ark : pipeline[c] # None => pipeline[c] \in Item
        BY DEF IInv, ItemsInv
    <2>2. \A c \in Ark : \A phase \in {"sent", "unknown"} : pipeline[c] # None =>
                [pipeline[c] EXCEPT !.phase = phase].phase = phase
        BY <2>1 DEF Item
    <2>3. UNCHANGED <<chain, owned>>
        BY <1>4 DEF Send, SendFails, ReceiptTimeout, chainVars
    <2>4. CASE Send(b) \/ ReceiptTimeout(b)
        <3>1. /\ pipeline[b] # None
              /\ \E phase \in {"sent", "unknown"} : pipeline' = [pipeline EXCEPT ![b].phase = phase]
            BY <2>4 DEF Send, ReceiptTimeout, CanSend, InPhase, SetPhase
        <3> QED
            BY <2>1, <2>2, <2>3, <3>1
    <2>5. CASE SendFails(b)
        <3>1. /\ pipeline[b] # None
              /\ \E skipped \in SUBSET InPhase({"selected"}) :
                    pipeline' = [c \in Ark |-> IF c = b \/ c \in skipped
                                               THEN [pipeline[c] EXCEPT !.phase = "unknown"]
                                               ELSE pipeline[c]]
            BY <2>5 DEF SendFails, CanSend, InPhase
        <3> QED
            BY <2>2, <2>3, <3>1 DEF InPhase
    <2> QED
        BY <1>4, <2>4, <2>5
<1>5. ASSUME NEW page \in SUBSET Publishable, SelectPage(page)
      PROVE  UNCHANGED <<chain, owned>> /\ (pipeline'[a] = None \/ pipeline'[a].phase = "selected")
    BY <1>5 DEF SelectPage, ItemOf, chainVars
<1> QED
    BY <1>1, <1>2, <1>3, <1>4, <1>5, StepKinds DEF Publishing

LEMMA WrittenStep ==
    ASSUME IInv, IInv', TasksForward, [Next]_vars, NEW a \in Ark, WrittenArk(a)
    PROVE  WrittenArk(a)'
<1>1. /\ Written(a) => Written(a)'
      /\ Written(a)' => \E w \in owned'[a] :
                <<a, w, chain'[a].target, chain'[a].cids>> \in Offers
      /\ (pipeline'[a] # None /\ pipeline'[a].phase = "confirmed") => Written(a)'
    BY WrittenGrows
<1>2. (rows'[a] # None /\ rows'[a].state = "P") => Written(a)
    BY RowsMoved DEF RowMoves, WrittenArk, Exists
<1>3. ASSUME task'[a] # None, task'[a].row.state = "P"
      PROVE  Written(a)
    <2>1. LockMoves(a)
        BY Steps
    <2>2. CASE task'[a] = task[a]
        BY <1>3, <2>2 DEF WrittenArk, Locked
    <2>3. CASE Locked(a) /\ Kept(task[a].row, task'[a].row)
        BY <1>3, <2>3 DEF WrittenArk, Kept
    <2>4. CASE Exists(a) /\ Kept(rows[a], task'[a].row)
        BY <1>3, <2>4 DEF WrittenArk, Kept
    <2>5. CASE /\ pipeline[a] # None /\ ItemIsCurrent(a)
               /\ task'[a].row.cids = rows[a].cids
               /\ pipeline[a].phase = "confirmed"
                    \/ ChainMatches(a, task'[a].row.target, task'[a].row.cids)
        <3>1. pipeline[a].cids # None
            <4>1. pipeline[a] \in Item
                BY <2>5 DEF IInv, ItemsInv
            <4> QED
                BY <4>1, RecordAssumption DEF Item
        <3> QED
            BY <2>5, <3>1 DEF WrittenArk, ItemIsCurrent, ChainMatches, Written
    <2> QED
        BY <1>3, <2>1, <2>2, <2>3, <2>4, <2>5 DEF LockMoves, Turn, Pending
<1> QED
    BY <1>1, <1>2, <1>3 DEF WrittenArk, Exists, Locked, Written

\* What is published was written to the chain by a request; and as long as the
\* ARK has had one owner, what is queued never overwrites it with anything else.
THEOREM PublishedInductive == Spec => []PubInv
<1>1. Init => PubInv
    <2> SUFFICES ASSUME Init, NEW a \in Ark
                 PROVE  /\ WrittenArk(a)
                        /\ \A w \in Authority : owned[a] \subseteq {w} => SoloArk(w, a)
        BY DEF PubInv
    <2>1. rows[a] = None /\ task[a] = None /\ pipeline[a] = None
        BY DEF Init
    <2>2. ~Written(a)
        BY DEF Init, ChainInit, Written
    <2>3. \A w \in Authority : mempool[w] = <<>>
        BY DEF Init, ChainInit
    <2>4. \A w \in Authority : Ops(mempool[w], a) = {}
        BY <2>3 DEF Ops
    <2>5. chain[a] # None => chain[a].owner \in owned[a]
        BY DEF Init, ChainInit
    <2> QED
        BY <2>1, <2>2, <2>4, <2>5
        DEF WrittenArk, SoloArk, HasRow, HasTask, HasItem, Exists, Locked
<1>2. IInv /\ IInv' /\ TasksForward /\ PubInv /\ [Next]_vars => PubInv'
    BY WrittenStep, SoloStep DEF PubInv
<1> QED
    BY <1>1, <1>2, Inductive, ImagesForward, PTL DEF Spec

\* The entry of a published ARK, and who wrote it.
LEMMA PublishedEntry ==
    ASSUME PubInv, IInv, NEW a \in Ark, Exists(a), rows[a].state = "P"
    PROVE  /\ chain[a] # None
           /\ \E w \in owned[a] : <<a, w, chain[a].target, chain[a].cids>> \in Offers
           /\ owned[a] = {rows[a].authority}
                => ChainMatches(a, rows[a].target, rows[a].cids) /\ rows[a].cids # None
<1> DEFINE w == rows[a].authority
<1>1. Written(a) /\ w \in Authority
    BY RowGood DEF PubInv, WrittenArk, GoodRow, Row
<1>2. \E v \in owned[a] : <<a, v, chain[a].target, chain[a].cids>> \in Offers
    BY <1>1 DEF PubInv, WrittenArk
<1>3. ASSUME owned[a] = {w}
      PROVE  ChainMatches(a, rows[a].target, rows[a].cids) /\ rows[a].cids # None
    <2>1. SoloArk(w, a) /\ HasRow(w, a)
        BY <1>1, <1>3 DEF PubInv, HasRow
    <2> QED
        BY <2>1 DEF SoloArk, Settled, Shows, Carries, ChainMatches
<1> QED
    BY <1>1, <1>2, <1>3 DEF Written

\* Whatever is lost, sent again or mined late, the entry of a published ARK that
\* has always had one owner has the target and the CID of its row.
THEOREM Published == Spec => []PublishedIsOnChain
<1>1. PubInv /\ IInv => PublishedIsOnChain
    <2>1. IInv => \A a \in Ark : owned[a] \subseteq Authority
        BY DEF IInv, LedgerInv, ChainTypeOK
    <2> QED
        BY <2>1, PublishedEntry DEF PublishedIsOnChain
<1> QED
    BY <1>1, Inductive, PublishedInductive, PTL

\* The row and the contract hold the target, the CID and the metadata of one
\* document in every state, if the ARK has always had one owner.
THEOREM StoresFit == Spec => []StoresFitTogether
<1>1. PubInv /\ IInv => StoresFitTogether
    <2> SUFFICES ASSUME PubInv, IInv, NEW a \in Ark,
                        NEW answer \in StatusAnswers(rows[a], rows[a], chain[a]),
                        answer.state = "P", answer.cid # None, answer.metadata # None,
                        owned[a] = {rows[a].authority}
                 PROVE  /\ answer.metadata = answer.cid
                        /\ <<a, rows[a].authority, answer.target, answer.cid>> \in Offers
        BY DEF StoresFitTogether
    <2>1. /\ Exists(a)
          /\ \/ answer \in LocalAnswers(rows[a], rows[a])
             \/ rows[a].state = "P" /\ answer \in ChainAnswers(rows[a], chain[a])
        <3>1. CASE ~Exists(a)
            BY <3>1 DEF StatusAnswers, Answer, Exists
        <3>2. CASE Exists(a)
            <4>1. CASE chain[a] # None /\ rows[a].state = "P"
                <5>1. StatusAnswers(rows[a], rows[a], chain[a])
                        = LocalAnswers(rows[a], rows[a]) \cup ChainAnswers(rows[a], chain[a])
                    BY <3>2, <4>1 DEF StatusAnswers, Exists
                <5> QED
                    BY <3>2, <4>1, <5>1
            <4>2. CASE ~(chain[a] # None /\ rows[a].state = "P")
                <5>1. StatusAnswers(rows[a], rows[a], chain[a])
                        = LocalAnswers(rows[a], rows[a]) \cup {}
                    BY <3>2, <4>2 DEF StatusAnswers, Exists
                <5> QED
                    BY <3>2, <5>1
            <4> QED
                BY <4>1, <4>2
        <3> QED
            BY <3>1, <3>2
    <2>2. rows[a].state = "P"
        BY <2>1 DEF LocalAnswers, Answer
    <2>3. /\ chain[a].target = rows[a].target /\ chain[a].cids = rows[a].cids
          /\ rows[a].cids # None
          /\ <<a, rows[a].authority, chain[a].target, chain[a].cids>> \in Offers
        BY <2>1, <2>2, PublishedEntry DEF ChainMatches
    <2>4. rows[a].payload \in {None, rows[a].cids}
        <3>1. RowInv(a, rows[a], peak)
            BY <2>1, RowGood DEF GoodRow
        <3> QED
            BY <2>3, <3>1 DEF RowInv
    <2>5. answer.target = rows[a].target /\ answer.cid = rows[a].cids
          /\ answer.metadata = rows[a].cids
        BY <2>1, <2>3, <2>4 DEF LocalAnswers, ChainAnswers, Answer, MinimalMetadata
    <2> QED
        BY <2>3, <2>5
<1> QED
    BY <1>1, Inductive, PublishedInductive, PTL

=============================================================================
