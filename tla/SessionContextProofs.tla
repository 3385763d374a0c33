------------------------ MODULE SessionContextProofs ------------------------
(***************************************************************************)
(* SessionContext keeps its invariants for every set of sessions and turns *)
(* and every thread it may begin with: checkpoints are sound, what was     *)
(* committed is in the context of a turn, and a session leaves no turn     *)
(* open behind it.                                                         *)
(*                                                                         *)
(* The argument is about the log.  LegalEvent says what a session may add  *)
(* to it, and the first part shows that a sound log stays sound by such an *)
(* event, and that what a session knows of the log stays true when another *)
(* one adds it.  The second part shows that every action adds nothing else *)
(* and keeps what its own session knows.                                   *)
(***************************************************************************)
EXTENDS SessionContext, WellFoundedInduction, TLAPS

-----------------------------------------------------------------------------
(* Least and greatest members.                                             *)

\* A set of numbers has a least member.
LEMMA HasLeast ==
  ASSUME NEW S, S \subseteq Nat, S # {}
  PROVE  Least(S) \in S /\ \A m \in S : Least(S) <= m
<1>1. PICK R : R = {ss \in Nat \X Nat : ss[1] < ss[2]}
  OBVIOUS
<1>2. IsWellFoundedOn(R, Nat)
  BY <1>1, NatLessThanWellFounded DEF OpToRel
<1>3. PICK n \in S : \A m \in S : ~(<<m, n>> \in R)
  BY <1>2, WFMin
<1>4. \A m \in S : <<m, n>> \in R <=> m < n
  BY <1>1
<1>5. \A m \in S : ~(m < n) /\ m \in Nat /\ n \in Nat
  BY <1>3, <1>4
<1>6. \A m \in S : n <= m
  BY <1>5
<1> QED
  BY <1>6 DEF Least

\* A bounded one has a greatest, too: the least of its bounds.
LEMMA HasGreatest ==
  ASSUME NEW S, NEW k \in Nat, S \subseteq 0 .. k, S # {}
  PROVE  Greatest(S) \in S /\ \A m \in S : Greatest(S) >= m
<1>1. PICK T : T = {n \in Nat : \A m \in S : m <= n}
  OBVIOUS
<1>2. T # {} /\ T \subseteq Nat
  BY <1>1
<1>3. PICK n \in T : \A m \in T : n <= m
  BY <1>2, HasLeast
<1>4. n \in S
  <2> SUFFICES ASSUME n \notin S PROVE FALSE
    OBVIOUS
  <2>1. n \in Nat /\ \A m \in S : m \in Nat /\ m < n
    BY <1>1, <1>3
  <2>2. PICK m \in S : TRUE
    OBVIOUS
  <2>3. n - 1 \in Nat /\ \A x \in S : x <= n - 1
    BY <2>1, <2>2
  <2>4. n - 1 \in T
    BY <1>1, <2>3
  <2> QED
    BY <1>3, <2>1, <2>4
<1>5. \A m \in S : n >= m
  BY <1>1, <1>3
<1> QED
  BY <1>4, <1>5 DEF Greatest

-----------------------------------------------------------------------------
(* What a log holds, and what may be added to it.                          *)

HasEvent(l, kind, t) == \E i \in DOMAIN l : l[i].kind = kind /\ l[i].turn = t
IsOpen(l, t) ==
  HasEvent(l, "started", t) /\ ~HasEvent(l, "committed", t) /\ ~HasEvent(l, "failed", t)

\* Sources and tail of a checkpoint that may come next.
Remaining(l, P, t) == t \notin CoveredIn(l, Len(l)) \cup P
Fits(l, P, tail) ==
  /\ P \cap CoveredIn(l, Len(l)) = {}
  /\ \A t \in P : \E j \in DOMAIN l : l[j] = Event("committed", t)
  /\ \A t \in P, j \in DOMAIN l : l[j].kind = "committed" /\ Remaining(l, P, l[j].turn) =>
       StartsBefore(l, t, l[j].turn)
  /\ tail \in 0 .. Len(l)
  /\ \A k \in DOMAIN l :
       l[k].kind = "started" /\ Remaining(l, P, l[k].turn) /\ HasEvent(l, "committed", l[k].turn) =>
         tail # 0 /\ tail <= k
Undisturbed(l, op) ==
  op \in 1 .. Len(l) /\ l[op].kind = "compacting" /\ \A j \in op + 1 .. Len(l) : l[j] = Charge(op)

IsPlain(l, e) ==
  /\ e \in LogEvent
  /\ e.kind \notin {"started", "committed", "failed", "compacted"}
  /\ e.turn # None => HasEvent(l, "started", e.turn)
IsStart(l, e) ==
  \E t \in Turns : e = Event("started", t) /\ ~HasEvent(l, "started", t) /\ \A u \in Turns : ~IsOpen(l, u)
IsEnd(l, e) ==
  \E t \in Turns : e \in {Event("committed", t), Event("failed", t)} /\ IsOpen(l, t)
IsCheckpoint(l, e) ==
  \E op \in Nat, P \in SUBSET Turns, tail \in Nat :
    e = Compacted(op, P, tail) /\ Undisturbed(l, op) /\ Fits(l, P, tail)

LegalEvent(l, e) == IsPlain(l, e) \/ IsStart(l, e) \/ IsEnd(l, e) \/ IsCheckpoint(l, e)

\* The fields of the events.
LEMMA EventFields ==
  ASSUME NEW kind, NEW t
  PROVE  LET e == Event(kind, t) IN
           e.kind = kind /\ e.turn = t /\ e.op = 0 /\ e.sources = {} /\ e.tail = 0
  BY DEF Event

LEMMA EventIsEvent ==
  ASSUME NEW kind \in Kinds, NEW t \in Turns \cup {None}
  PROVE  Event(kind, t) \in LogEvent
  BY DEF Event, LogEvent

LEMMA ChargeFields ==
  ASSUME NEW op \in Nat
  PROVE  /\ Charge(op) \in LogEvent /\ Charge(op).kind = "charge" /\ Charge(op).turn = None
         /\ Charge(op).op = op
<1>1. Event("charge", None) \in LogEvent
  BY EventIsEvent DEF Kinds
<1>2. Event("charge", None).kind = "charge" /\ Event("charge", None).turn = None
  BY EventFields
<1> QED
  BY <1>1, <1>2 DEF Charge, LogEvent

LEMMA AbandonedFields ==
  ASSUME NEW op \in Nat
  PROVE  /\ Abandoned(op) \in LogEvent /\ Abandoned(op).kind = "abandoned" /\ Abandoned(op).turn = None
<1>1. Event("abandoned", None) \in LogEvent
  BY EventIsEvent DEF Kinds
<1>2. Event("abandoned", None).kind = "abandoned" /\ Event("abandoned", None).turn = None
  BY EventFields
<1> QED
  BY <1>1, <1>2 DEF Abandoned, LogEvent

LEMMA CompactedFields ==
  ASSUME NEW op \in Nat, NEW P \in SUBSET Turns, NEW tail \in Nat
  PROVE  LET e == Compacted(op, P, tail) IN
           /\ e \in LogEvent /\ e.kind = "compacted" /\ e.turn = None
           /\ e.op = op /\ e.sources = P /\ e.tail = tail
<1>1. Event("compacted", None) \in LogEvent
  BY EventIsEvent DEF Kinds
<1>2. Event("compacted", None).kind = "compacted" /\ Event("compacted", None).turn = None
  BY EventFields
<1>3. PICK a : a = [Event("compacted", None) EXCEPT !.op = op]
  OBVIOUS
<1>4. a \in LogEvent /\ a.kind = "compacted" /\ a.turn = None /\ a.op = op
  BY <1>1, <1>2, <1>3 DEF LogEvent
<1>5. PICK b : b = [a EXCEPT !.sources = P]
  OBVIOUS
<1>6. b \in LogEvent /\ b.kind = "compacted" /\ b.turn = None /\ b.op = op /\ b.sources = P
  BY <1>4, <1>5 DEF LogEvent
<1>7. PICK c : c = [b EXCEPT !.tail = tail]
  OBVIOUS
<1>8. c \in LogEvent /\ c.kind = "compacted" /\ c.turn = None /\ c.op = op /\ c.sources = P /\ c.tail = tail
  BY <1>6, <1>7 DEF LogEvent
<1>9. Compacted(op, P, tail) = c
  BY <1>3, <1>5, <1>7 DEF Compacted
<1> QED
  BY <1>8, <1>9

\* A legal event is an event.
LEMMA LegalIsEvent ==
  ASSUME NEW l, NEW e, LegalEvent(l, e)
  PROVE  e \in LogEvent
<1>1. CASE IsPlain(l, e)
  BY <1>1 DEF IsPlain
<1>2. CASE IsStart(l, e)
  BY <1>2, EventIsEvent DEF IsStart, Kinds
<1>3. CASE IsEnd(l, e)
  BY <1>3, EventIsEvent DEF IsEnd, Kinds
<1>4. CASE IsCheckpoint(l, e)
  BY <1>4, CompactedFields DEF IsCheckpoint
<1> QED
  BY <1>1, <1>2, <1>3, <1>4 DEF LegalEvent

\* What Append does to a log.
LEMMA Appended ==
  ASSUME NEW l \in Seq(LogEvent), NEW e \in LogEvent, NEW m, m = Append(l, e)
  PROVE  /\ m \in Seq(LogEvent) /\ Len(m) = Len(l) + 1 /\ Len(l) \in Nat
         /\ DOMAIN l = 1 .. Len(l) /\ DOMAIN m = 1 .. Len(l) + 1
         /\ \A i \in 1 .. Len(l) : m[i] = l[i]
         /\ m[Len(l) + 1] = e
  OBVIOUS

\* Coverage up to an event stays, and the last one adds its sources.
SameCover(l, m) == \A i \in 0 .. Len(l) : CoveredIn(m, i) = CoveredIn(l, i)
AddedCover(l, e, m) ==
  CoveredIn(m, Len(m)) = CoveredIn(l, Len(l)) \cup (IF e.kind = "compacted" THEN e.sources ELSE {})

LEMMA AppendedCover ==
  ASSUME NEW l \in Seq(LogEvent), NEW e \in LogEvent, NEW m, m = Append(l, e)
  PROVE  SameCover(l, m) /\ AddedCover(l, e, m)
<1>0. /\ Len(m) = Len(l) + 1 /\ Len(l) \in Nat
      /\ \A i \in 1 .. Len(l) : m[i] = l[i]
      /\ m[Len(l) + 1] = e
  BY Appended
<1>1. ASSUME NEW i \in 0 .. Len(l) PROVE CoveredIn(m, i) = CoveredIn(l, i)
  <2>1. \A j \in 1 .. i : m[j] = l[j]
    BY <1>0
  <2> QED
    BY <2>1 DEF CoveredIn
<1>2. CoveredIn(m, Len(m)) =
        CoveredIn(m, Len(l)) \cup (IF e.kind = "compacted" THEN e.sources ELSE {})
  BY <1>0 DEF CoveredIn
<1>3. CoveredIn(m, Len(l)) = CoveredIn(l, Len(l))
  BY <1>0, <1>1
<1> QED
  BY <1>1, <1>2, <1>3 DEF SameCover, AddedCover

\* Coverage grows along the log.
LEMMA CoverGrows ==
  ASSUME NEW l \in Seq(LogEvent), NEW i \in Nat, NEW j \in Nat, i <= j
  PROVE  CoveredIn(l, i) \subseteq CoveredIn(l, j)
<1>1. 1 .. i \subseteq 1 .. j
  OBVIOUS
<1> QED
  BY <1>1 DEF CoveredIn


\* A legal event by its kind.
LEMMA LegalFacts ==
  ASSUME NEW l, NEW e, LegalEvent(l, e), None \notin Turns
  PROVE  /\ e.kind = "started" =>
              /\ e = Event("started", e.turn) /\ e.turn \in Turns
              /\ ~HasEvent(l, "started", e.turn)
              /\ \A u \in Turns : ~IsOpen(l, u)
         /\ e.kind \in {"committed", "failed"} =>
              e = Event(e.kind, e.turn) /\ e.turn \in Turns /\ IsOpen(l, e.turn)
         /\ e.kind = "compacted" => Undisturbed(l, e.op) /\ Fits(l, e.sources, e.tail)
         /\ e.kind # "started" /\ e.turn # None => HasEvent(l, "started", e.turn)
<1>1. CASE IsPlain(l, e)
  BY <1>1 DEF IsPlain
<1>2. CASE IsStart(l, e)
  <2>1. PICK t \in Turns : e = Event("started", t) /\ ~HasEvent(l, "started", t)
                           /\ \A u \in Turns : ~IsOpen(l, u)
    BY <1>2 DEF IsStart
  <2>2. e.kind = "started" /\ e.turn = t
    BY <2>1, EventFields
  <2> QED
    BY <2>1, <2>2
<1>3. CASE IsEnd(l, e)
  <2>1. PICK t \in Turns : e \in {Event("committed", t), Event("failed", t)} /\ IsOpen(l, t)
    BY <1>3 DEF IsEnd
  <2>2. e.turn = t /\ e.kind \in {"committed", "failed"} /\ e = Event(e.kind, t)
    BY <2>1, EventFields
  <2> QED
    BY <2>1, <2>2 DEF IsOpen
<1>4. CASE IsCheckpoint(l, e)
  BY <1>4, CompactedFields DEF IsCheckpoint
<1> QED
  BY <1>1, <1>2, <1>3, <1>4 DEF LegalEvent

\* Which turns have which events afterwards.
LEMMA AppendedEvents ==
  ASSUME NEW l \in Seq(LogEvent), NEW e \in LogEvent, NEW m, m = Append(l, e),
         NEW kind, NEW t
  PROVE  HasEvent(m, kind, t) <=> HasEvent(l, kind, t) \/ (e.kind = kind /\ e.turn = t)
<1>1. /\ DOMAIN l = 1 .. Len(l) /\ DOMAIN m = 1 .. Len(l) + 1 /\ Len(l) \in Nat
      /\ \A i \in 1 .. Len(l) : m[i] = l[i]
      /\ m[Len(l) + 1] = e
  BY Appended
<1> QED
  BY <1>1 DEF HasEvent

\* The open turn is the last that was started.
LEMMA OpenIsLast ==
  ASSUME NEW l \in Seq(LogEvent), TurnsInOrder(l), NEW t, IsOpen(l, t),
         NEW k \in DOMAIN l, l[k].kind = "started",
         NEW p \in DOMAIN l, Starts(l[p], t)
  PROVE  k <= p
<1> SUFFICES ASSUME p < k PROVE FALSE
  OBVIOUS
<1>1. l[p].kind = "started" /\ l[p].turn = t
  BY DEF Starts
<1>2. PICK n \in p + 1 .. k - 1 : Closes(l[n], t)
  BY <1>1 DEF TurnsInOrder
<1>3. n \in DOMAIN l
  OBVIOUS
<1> QED
  BY <1>2, <1>3 DEF Closes, IsOpen, HasEvent

LEMMA OneOpenTurn ==
  ASSUME NEW l \in Seq(LogEvent), TurnsInOrder(l), NEW t, NEW u, IsOpen(l, t), IsOpen(l, u)
  PROVE  t = u
<1>1. PICK k \in DOMAIN l : Starts(l[k], t)
  BY DEF IsOpen, HasEvent, Starts
<1>2. PICK p \in DOMAIN l : Starts(l[p], u)
  BY DEF IsOpen, HasEvent, Starts
<1>3. k <= p /\ p <= k
  BY <1>1, <1>2, OpenIsLast DEF Starts
<1> QED
  BY <1>1, <1>2, <1>3 DEF Starts

\* A turn whose end is in the log was started before.
LEMMA StartsOnce ==
  ASSUME NEW l \in Seq(LogEvent), TurnsInOrder(l), NEW i \in DOMAIN l, l[i].turn # None
  PROVE  \E k \in DOMAIN l : Starts(l[k], l[i].turn) /\ k <= i
<1>1. \E k \in 1 .. i : Starts(l[k], l[i].turn)
  BY DEF TurnsInOrder
<1> QED
  BY <1>1

LEMMA KeepsTurnsInOrder ==
  ASSUME None \notin Turns, NEW l \in Seq(LogEvent), TurnsInOrder(l),
         NEW e \in LogEvent, LegalEvent(l, e), NEW m, m = Append(l, e)
  PROVE  TurnsInOrder(m)
<1>1. /\ m \in Seq(LogEvent) /\ Len(m) = Len(l) + 1 /\ Len(l) \in Nat
      /\ DOMAIN l = 1 .. Len(l) /\ DOMAIN m = 1 .. Len(l) + 1
      /\ \A i \in 1 .. Len(l) : m[i] = l[i]
      /\ m[Len(l) + 1] = e
  BY Appended
<1>2. /\ e.kind = "started" =>
              /\ e = Event("started", e.turn) /\ e.turn \in Turns
              /\ ~HasEvent(l, "started", e.turn)
              /\ \A u \in Turns : ~IsOpen(l, u)
      /\ e.kind \in {"committed", "failed"} =>
              e = Event(e.kind, e.turn) /\ e.turn \in Turns /\ IsOpen(l, e.turn)
      /\ e.kind # "started" /\ e.turn # None => HasEvent(l, "started", e.turn)
  BY LegalFacts
<1>3. ASSUME NEW i \in DOMAIN m, m[i].kind = "started", NEW j \in DOMAIN m, m[j].turn = m[i].turn
      PROVE  i <= j
  <2>1. CASE i \in DOMAIN l /\ j \in DOMAIN l
    BY <1>1, <1>3, <2>1 DEF TurnsInOrder
  <2>2. CASE j = Len(l) + 1
    BY <1>1, <2>2
  <2>3. CASE i = Len(l) + 1 /\ j \in DOMAIN l
    <3>1. l[j].turn = e.turn /\ e.turn # None
      BY <1>1, <1>2, <1>3, <2>3
    <3>2. PICK k \in 1 .. j : Starts(l[k], l[j].turn)
      BY <3>1, <2>3 DEF TurnsInOrder
    <3>3. k \in DOMAIN l
      BY <2>3, <1>1
    <3>4. HasEvent(l, "started", e.turn)
      BY <3>1, <3>2, <3>3 DEF Starts, HasEvent
    <3> QED
      BY <1>1, <1>2, <1>3, <2>3, <3>4
  <2> QED
    BY <1>1, <2>1, <2>2, <2>3
<1>4. ASSUME NEW i \in DOMAIN m, m[i].kind = "started", NEW j \in DOMAIN m, i < j, m[j].kind = "started"
      PROVE  \E n \in i + 1 .. j - 1 : Closes(m[n], m[i].turn)
  <2>0. i \in DOMAIN l /\ m[i] = l[i]
    BY <1>1, <1>4
  <2>1. CASE j \in DOMAIN l
    <3>1. PICK n \in i + 1 .. j - 1 : Closes(l[n], l[i].turn)
      BY <1>1, <1>4, <2>0, <2>1 DEF TurnsInOrder
    <3>2. m[n] = l[n]
      BY <1>1, <2>0, <2>1
    <3> QED
      BY <3>1, <3>2, <2>0
  <2>2. CASE j = Len(l) + 1
    <3>1. l[i].turn \in Turns /\ HasEvent(l, "started", l[i].turn)
      <4>1. l[i] \in LogEvent
        BY <2>0
      <4>2. l[i].turn # None
        BY <1>4, <2>0 DEF TurnsInOrder
      <4> QED
        BY <4>1, <4>2, <1>4, <2>0 DEF HasEvent, LogEvent
    <3>2. e.kind = "started"
      BY <1>1, <1>4, <2>2
    <3>3. ~IsOpen(l, l[i].turn)
      BY <1>2, <3>1, <3>2
    <3>4. PICK n \in DOMAIN l : Closes(l[n], l[i].turn)
      BY <3>1, <3>3 DEF IsOpen, HasEvent, Closes
    <3>5. i <= n /\ n # i
      BY <3>4, <2>0, <1>4 DEF TurnsInOrder, Closes
    <3>6. n \in i + 1 .. j - 1 /\ m[n] = l[n]
      BY <3>5, <2>0, <2>2, <1>1
    <3> QED
      BY <3>4, <3>6, <2>0
  <2> QED
    BY <1>1, <2>1, <2>2
<1>5. ASSUME NEW j \in DOMAIN m, m[j].turn # None
      PROVE  \E i \in 1 .. j : Starts(m[i], m[j].turn)
  <2>1. CASE j \in DOMAIN l
    <3>1. PICK i \in 1 .. j : Starts(l[i], l[j].turn)
      BY <1>1, <1>5, <2>1 DEF TurnsInOrder
    <3>2. m[i] = l[i] /\ m[j] = l[j]
      BY <1>1, <2>1
    <3> QED
      BY <3>1, <3>2
  <2>2. CASE j = Len(l) + 1 /\ e.kind = "started"
    BY <1>1, <2>2 DEF Starts
  <2>3. CASE j = Len(l) + 1 /\ e.kind # "started"
    <3>1. PICK i \in DOMAIN l : Starts(l[i], e.turn)
      BY <1>1, <1>2, <1>5, <2>3 DEF HasEvent, Starts
    <3>2. m[i] = l[i] /\ m[j] = e /\ i \in 1 .. j
      BY <1>1, <2>3
    <3> QED
      BY <3>1, <3>2
  <2> QED
    BY <1>1, <2>1, <2>2, <2>3
<1>6. ASSUME NEW i \in DOMAIN m, m[i].kind \in {"started", "committed", "failed"}
      PROVE  m[i] = Event(m[i].kind, m[i].turn) /\ m[i].turn # None
  <2>1. CASE i \in DOMAIN l
    BY <1>1, <1>6, <2>1 DEF TurnsInOrder
  <2>2. CASE i = Len(l) + 1
    BY <1>1, <1>2, <1>6, <2>2
  <2> QED
    BY <1>1, <2>1, <2>2
<1>7. ASSUME NEW i \in DOMAIN m, NEW j \in DOMAIN m, m[i].kind = "committed", m[j].kind = "failed"
      PROVE  m[i].turn # m[j].turn
  <2>1. CASE i \in DOMAIN l /\ j \in DOMAIN l
    BY <1>1, <1>7, <2>1 DEF TurnsInOrder
  <2>2. CASE i = Len(l) + 1 /\ j \in DOMAIN l
    BY <1>1, <1>2, <1>7, <2>2 DEF IsOpen, HasEvent
  <2>3. CASE j = Len(l) + 1 /\ i \in DOMAIN l
    BY <1>1, <1>2, <1>7, <2>3 DEF IsOpen, HasEvent
  <2> QED
    BY <1>1, <1>7, <2>1, <2>2, <2>3
<1>8. \A i \in DOMAIN m : m[i].kind = "started" =>
        /\ \A j \in DOMAIN m : m[j].turn = m[i].turn => i <= j
        /\ \A j \in DOMAIN m : i < j /\ m[j].kind = "started" =>
             \E n \in i + 1 .. j - 1 : Closes(m[n], m[i].turn)
  BY <1>3, <1>4
<1>9. \A i, j \in DOMAIN m :
        m[i].kind = "committed" /\ m[j].kind = "failed" => m[i].turn # m[j].turn
  BY <1>7
<1> QED
  BY <1>5, <1>6, <1>8, <1>9 DEF TurnsInOrder

\* An event that starts neither of two turns does not change their order.
LEMMA StartsStayInOrder ==
  ASSUME NEW l \in Seq(LogEvent), NEW e \in LogEvent, NEW m, m = Append(l, e),
         NEW t, NEW u, StartsBefore(l, t, u), ~Starts(e, t), ~Starts(e, u)
  PROVE  StartsBefore(m, t, u)
<1>1. /\ Len(l) \in Nat
      /\ DOMAIN l = 1 .. Len(l) /\ DOMAIN m = 1 .. Len(l) + 1
      /\ \A i \in 1 .. Len(l) : m[i] = l[i]
      /\ m[Len(l) + 1] = e
  BY Appended
<1>2. ASSUME NEW k \in DOMAIN m, NEW p \in DOMAIN m, Starts(m[k], t), Starts(m[p], u)
      PROVE  k < p
  <2>1. k \in DOMAIN l /\ p \in DOMAIN l
    BY <1>1, <1>2
  <2>2. Starts(l[k], t) /\ Starts(l[p], u)
    BY <1>1, <1>2, <2>1
  <2> QED
    BY <2>1, <2>2 DEF StartsBefore
<1> QED
  BY <1>2 DEF StartsBefore

\* A turn with an end in the log is not started again.
LEMMA EndedStaysEnded ==
  ASSUME None \notin Turns, NEW l \in Seq(LogEvent), TurnsInOrder(l),
         NEW e, LegalEvent(l, e), NEW t, NEW kind \in {"started", "committed", "failed"},
         HasEvent(l, kind, t)
  PROVE  ~Starts(e, t)
<1>1. PICK i \in DOMAIN l : l[i].kind = kind /\ l[i].turn = t
  BY DEF HasEvent
<1>2. l[i].turn # None
  BY <1>1 DEF TurnsInOrder
<1>3. PICK k \in DOMAIN l : Starts(l[k], t)
  BY <1>1, <1>2, StartsOnce
<1>4. HasEvent(l, "started", t)
  BY <1>3 DEF HasEvent, Starts
<1> QED
  BY <1>4, LegalFacts DEF Starts

\* The order of a committed turn and a turn still open.
LEMMA CommittedBeforeOpen ==
  ASSUME NEW l \in Seq(LogEvent), TurnsInOrder(l), NEW t, HasEvent(l, "committed", t),
         NEW u, IsOpen(l, u)
  PROVE  StartsBefore(l, t, u)
<1>1. ASSUME NEW k \in DOMAIN l, NEW p \in DOMAIN l, Starts(l[k], t), Starts(l[p], u)
      PROVE  k < p
  <2>1. k <= p
    BY <1>1, OpenIsLast DEF Starts
  <2>2. t # u
    BY DEF IsOpen
  <2>3. k # p
    BY <2>2, <1>1 DEF Starts
  <2> QED
    BY <2>1, <2>3
<1> QED
  BY <1>1 DEF StartsBefore

\* One checkpoint's part of CheckpointsInOrder.
CheckpointInOrder(l, i) ==
  /\ l[i].op \in 1 .. i - 1 /\ l[l[i].op].kind = "compacting" /\ l[i].tail <= i
  /\ \A j \in l[i].op + 1 .. i - 1 : l[j] = Charge(l[i].op)
  /\ l[i].sources \cap CoveredIn(l, i - 1) = {}
  /\ \A t \in l[i].sources :
       /\ \E j \in 1 .. i : l[j] = Event("committed", t)
       /\ \A j \in DOMAIN l : l[j].kind = "committed" /\ l[j].turn \notin CoveredIn(l, i) =>
            StartsBefore(l, t, l[j].turn)

LEMMA CheckpointsOneByOne ==
  ASSUME NEW l
  PROVE  CheckpointsInOrder(l) <=> \A i \in DOMAIN l : l[i].kind = "compacted" => CheckpointInOrder(l, i)
  BY DEF CheckpointsInOrder, CheckpointInOrder

\* A checkpoint that is there stays in order.
LEMMA KeepsOldCheckpoint ==
  ASSUME None \notin Turns, NEW l \in Seq(LogEvent), TurnsInOrder(l),
         NEW e \in LogEvent, LegalEvent(l, e), NEW m, m = Append(l, e),
         NEW i \in DOMAIN l, l[i].kind = "compacted", CheckpointInOrder(l, i)
  PROVE  CheckpointInOrder(m, i)
<1>1. /\ Len(l) \in Nat
      /\ DOMAIN l = 1 .. Len(l) /\ DOMAIN m = 1 .. Len(l) + 1
      /\ \A j \in 1 .. Len(l) : m[j] = l[j]
      /\ m[Len(l) + 1] = e
  BY Appended
<1>2. CoveredIn(m, i) = CoveredIn(l, i) /\ CoveredIn(m, i - 1) = CoveredIn(l, i - 1)
  <2>1. i \in 0 .. Len(l) /\ i - 1 \in 0 .. Len(l)
    BY <1>1
  <2>2. \A n \in 0 .. Len(l) : CoveredIn(m, n) = CoveredIn(l, n)
    BY AppendedCover DEF SameCover
  <2> QED
    BY <2>1, <2>2
<1>3. m[i] = l[i]
  BY <1>1
<1>4. l[i].op \in 1 .. i - 1 /\ l[l[i].op].kind = "compacting" /\ l[i].tail <= i
  BY DEF CheckpointInOrder
<1>5. m[i].op \in 1 .. i - 1 /\ m[m[i].op].kind = "compacting" /\ m[i].tail <= i
  BY <1>1, <1>3, <1>4
<1>6. ASSUME NEW j \in m[i].op + 1 .. i - 1 PROVE m[j] = Charge(m[i].op)
  <2>1. j \in 1 .. Len(l)
    BY <1>1, <1>3, <1>4
  <2> QED
    BY <1>1, <1>3, <2>1 DEF CheckpointInOrder
<1>7. m[i].sources \cap CoveredIn(m, i - 1) = {}
  BY <1>2, <1>3 DEF CheckpointInOrder
<1>8. ASSUME NEW t \in m[i].sources PROVE \E j \in 1 .. i : m[j] = Event("committed", t)
  <2>1. PICK j \in 1 .. i : l[j] = Event("committed", t)
    BY <1>3 DEF CheckpointInOrder
  <2> QED
    BY <1>1, <2>1
<1>9. ASSUME NEW t \in m[i].sources, NEW j \in DOMAIN m,
             m[j].kind = "committed", m[j].turn \notin CoveredIn(m, i)
      PROVE  StartsBefore(m, t, m[j].turn)
  <2>1. HasEvent(l, "committed", t)
    <3>1. PICK k \in 1 .. i : l[k] = Event("committed", t)
      BY <1>3 DEF CheckpointInOrder
    <3> QED
      BY <1>1, <3>1, EventFields DEF HasEvent
  <2>2. ~Starts(e, t)
    BY <2>1, EndedStaysEnded
  <2>3. CASE j \in DOMAIN l
    <3>1. m[j] = l[j]
      BY <1>1, <2>3
    <3>2. StartsBefore(l, t, l[j].turn)
      BY <1>2, <1>3, <1>9, <2>3, <3>1 DEF CheckpointInOrder
    <3>3. HasEvent(l, "committed", l[j].turn)
      BY <1>9, <2>3, <3>1 DEF HasEvent
    <3>4. ~Starts(e, l[j].turn)
      BY <3>3, EndedStaysEnded
    <3> QED
      BY <2>2, <3>1, <3>2, <3>4, StartsStayInOrder
  <2>4. CASE j = Len(l) + 1
    <3>1. m[j] = e /\ e.kind = "committed"
      BY <1>1, <1>9, <2>4
    <3>2. IsOpen(l, e.turn)
      BY <3>1, LegalFacts
    <3>3. StartsBefore(l, t, e.turn)
      BY <2>1, <3>2, CommittedBeforeOpen
    <3>4. ~Starts(e, e.turn)
      BY <3>1 DEF Starts
    <3> QED
      BY <2>2, <3>1, <3>3, <3>4, StartsStayInOrder
  <2> QED
    BY <1>1, <2>3, <2>4
<1> QED
  BY <1>5, <1>6, <1>7, <1>8, <1>9 DEF CheckpointInOrder

\* A new one is in order, because the operation was not disturbed and its
\* sources and tail fit.
LEMMA NewCheckpointInOrder ==
  ASSUME None \notin Turns, NEW l \in Seq(LogEvent), TurnsInOrder(l),
         NEW e \in LogEvent, LegalEvent(l, e), e.kind = "compacted", NEW m, m = Append(l, e)
  PROVE  CheckpointInOrder(m, Len(l) + 1)
<1>1. /\ Len(l) \in Nat
      /\ DOMAIN l = 1 .. Len(l) /\ DOMAIN m = 1 .. Len(l) + 1 /\ Len(m) = Len(l) + 1
      /\ \A j \in 1 .. Len(l) : m[j] = l[j]
      /\ m[Len(l) + 1] = e
  BY Appended
<1>2. Undisturbed(l, e.op) /\ Fits(l, e.sources, e.tail)
  BY LegalFacts
<1>3. /\ CoveredIn(m, Len(l)) = CoveredIn(l, Len(l))
      /\ CoveredIn(m, Len(l) + 1) = CoveredIn(l, Len(l)) \cup e.sources
  <2>1. \A n \in 0 .. Len(l) : CoveredIn(m, n) = CoveredIn(l, n)
    BY AppendedCover DEF SameCover
  <2>2. CoveredIn(m, Len(m)) = CoveredIn(l, Len(l)) \cup e.sources
    BY AppendedCover DEF AddedCover
  <2> QED
    BY <1>1, <2>1, <2>2
<1>4. PICK i : i = Len(l) + 1 /\ i \in Nat /\ i - 1 = Len(l)
  BY <1>1
<1>5. m[i] = e
  BY <1>1, <1>4
<1>6. e.op \in 1 .. i - 1 /\ m[e.op].kind = "compacting" /\ e.tail <= i
  BY <1>1, <1>2, <1>4 DEF Undisturbed, Fits
<1>7. \A j \in e.op + 1 .. i - 1 : m[j] = Charge(e.op)
  BY <1>1, <1>2, <1>4, <1>6 DEF Undisturbed
<1>8. e.sources \cap CoveredIn(m, i - 1) = {}
  BY <1>2, <1>3, <1>4 DEF Fits
<1>9. ASSUME NEW t \in e.sources PROVE \E j \in 1 .. i : m[j] = Event("committed", t)
  <2>1. PICK j \in DOMAIN l : l[j] = Event("committed", t)
    BY <1>2 DEF Fits
  <2> QED
    BY <1>1, <1>4, <2>1
<1>10. ASSUME NEW t \in e.sources, NEW j \in DOMAIN m,
              m[j].kind = "committed", m[j].turn \notin CoveredIn(m, i)
       PROVE  StartsBefore(m, t, m[j].turn)
  <2>1. j \in DOMAIN l /\ m[j] = l[j]
    BY <1>1, <1>10
  <2>2. Remaining(l, e.sources, l[j].turn)
    BY <1>3, <1>4, <1>10, <2>1 DEF Remaining
  <2>3. StartsBefore(l, t, l[j].turn)
    BY <1>2, <1>10, <2>1, <2>2 DEF Fits
  <2> QED
    BY <2>1, <2>3, StartsStayInOrder DEF Starts
<1>11. CheckpointInOrder(m, i)
  BY <1>5, <1>6, <1>7, <1>8, <1>9, <1>10 DEF CheckpointInOrder
<1> QED
  BY <1>4, <1>11

LEMMA KeepsCheckpointsInOrder ==
  ASSUME None \notin Turns, NEW l \in Seq(LogEvent), TurnsInOrder(l), CheckpointsInOrder(l),
         NEW e \in LogEvent, LegalEvent(l, e), NEW m, m = Append(l, e)
  PROVE  CheckpointsInOrder(m)
<1>1. /\ Len(l) \in Nat
      /\ DOMAIN l = 1 .. Len(l) /\ DOMAIN m = 1 .. Len(l) + 1
      /\ \A j \in 1 .. Len(l) : m[j] = l[j]
      /\ m[Len(l) + 1] = e
  BY Appended
<1>2. ASSUME NEW i \in DOMAIN m, m[i].kind = "compacted" PROVE CheckpointInOrder(m, i)
  <2>1. CASE i \in DOMAIN l
    <3>1. l[i].kind = "compacted" /\ CheckpointInOrder(l, i)
      BY <1>1, <1>2, <2>1, CheckpointsOneByOne
    <3> QED
      BY <2>1, <3>1, KeepsOldCheckpoint
  <2>2. CASE i = Len(l) + 1
    BY <1>1, <1>2, <2>2, NewCheckpointInOrder
  <2> QED
    BY <1>1, <2>1, <2>2
<1> QED
  BY <1>2, CheckpointsOneByOne

\* What a checkpoint does not cover and did not fail begins in its tail.
InTailOf(l, i, k) ==
  \/ k >= TailFrom(l[i], i) \/ l[k].turn \in CoveredIn(l, i)
  \/ \E j \in DOMAIN l : l[j].kind = "failed" /\ l[j].turn = l[k].turn

LEMMA TailsOneByOne ==
  ASSUME NEW l
  PROVE  TailsAreWhole(l) <=>
           (BetweenTurns(l) =>
              \A i, k \in DOMAIN l : l[i].kind = "compacted" /\ l[k].kind = "started" => InTailOf(l, i, k))
  BY DEF TailsAreWhole, InTailOf

LEMMA BetweenTurnsBefore ==
  ASSUME NEW l \in Seq(LogEvent), NEW e \in LogEvent, NEW m, m = Append(l, e), BetweenTurns(m)
  PROVE  BetweenTurns(l)
<1>1. /\ Len(l) \in Nat
      /\ DOMAIN l = 1 .. Len(l) /\ DOMAIN m = 1 .. Len(l) + 1
      /\ \A j \in 1 .. Len(l) : m[j] = l[j]
  BY Appended
<1>2. ASSUME NEW i \in DOMAIN l, NEW k \in DOMAIN l,
             l[i].kind = "compacting", k < i, l[k].kind = "started"
      PROVE  \E n \in k .. i : Closes(l[n], l[k].turn)
  <2>1. m[i] = l[i] /\ m[k] = l[k] /\ i \in DOMAIN m /\ k \in DOMAIN m
    BY <1>1
  <2>2. PICK n \in k .. i : Closes(m[n], m[k].turn)
    BY <1>2, <2>1 DEF BetweenTurns
  <2>3. m[n] = l[n]
    BY <1>1
  <2> QED
    BY <2>1, <2>2, <2>3
<1> QED
  BY <1>2 DEF BetweenTurns

\* The tail of a new checkpoint: a turn that is neither covered nor failed was
\* committed, as nothing was open where the operation began and nothing has
\* started since; then it begins in the tail, because the tail fits.
LEMMA NewTailIsWhole ==
  ASSUME None \notin Turns, NEW l \in Seq(LogEvent), TurnsInOrder(l), BetweenTurns(l),
         NEW e \in LogEvent, LegalEvent(l, e), e.kind = "compacted", NEW m, m = Append(l, e),
         NEW k \in DOMAIN l, l[k].kind = "started"
  PROVE  InTailOf(m, Len(l) + 1, k)
<1>1. /\ Len(l) \in Nat
      /\ DOMAIN l = 1 .. Len(l) /\ DOMAIN m = 1 .. Len(l) + 1 /\ Len(m) = Len(l) + 1
      /\ \A j \in 1 .. Len(l) : m[j] = l[j]
      /\ m[Len(l) + 1] = e
  BY Appended
<1>2. Undisturbed(l, e.op) /\ Fits(l, e.sources, e.tail)
  BY LegalFacts
<1>3. CoveredIn(m, Len(l) + 1) = CoveredIn(l, Len(l)) \cup e.sources
  <2>1. CoveredIn(m, Len(m)) = CoveredIn(l, Len(l)) \cup e.sources
    BY AppendedCover DEF AddedCover
  <2> QED
    BY <1>1, <2>1
<1>4. m[k] = l[k]
  BY <1>1
<1>5. PICK op : op = e.op /\ op \in 1 .. Len(l) /\ l[op].kind = "compacting"
  BY <1>2 DEF Undisturbed
<1>6. k < op
  <2>1. \A j \in op + 1 .. Len(l) : l[j] = Charge(op)
    BY <1>2, <1>5 DEF Undisturbed
  <2>2. \A j \in op + 1 .. Len(l) : l[j].kind = "charge"
    BY <1>5, <2>1, ChargeFields
  <2>3. k \in 1 .. Len(l)
    BY <1>1
  <2> QED
    BY <1>1, <1>5, <2>2, <2>3
<1>7. PICK n \in k .. op : Closes(l[n], l[k].turn)
  BY <1>1, <1>5, <1>6 DEF BetweenTurns
<1>8. n \in DOMAIN l
  BY <1>1, <1>5
<1>9. CASE l[n].kind = "failed"
  BY <1>1, <1>4, <1>7, <1>8, <1>9 DEF InTailOf, Closes
<1>10. CASE l[n].kind = "committed" /\ l[k].turn \in CoveredIn(l, Len(l)) \cup e.sources
  BY <1>3, <1>4, <1>10 DEF InTailOf
<1>11. CASE l[n].kind = "committed" /\ l[k].turn \notin CoveredIn(l, Len(l)) \cup e.sources
  <2>1. HasEvent(l, "committed", l[k].turn)
    BY <1>7, <1>8, <1>11 DEF HasEvent, Closes
  <2>2. e.tail # 0 /\ e.tail <= k
    BY <1>2, <1>11, <2>1 DEF Fits, Remaining
  <2>3. k >= TailFrom(m[Len(l) + 1], Len(l) + 1)
    BY <1>1, <1>2, <2>2 DEF TailFrom, Fits
  <2> QED
    BY <2>3 DEF InTailOf
<1> QED
  BY <1>7, <1>9, <1>10, <1>11 DEF Closes

LEMMA KeepsTailsWhole ==
  ASSUME None \notin Turns, NEW l \in Seq(LogEvent), TurnsInOrder(l), CheckpointsInOrder(l),
         TailsAreWhole(l), NEW e \in LogEvent, LegalEvent(l, e), NEW m, m = Append(l, e)
  PROVE  TailsAreWhole(m)
<1>1. /\ Len(l) \in Nat
      /\ DOMAIN l = 1 .. Len(l) /\ DOMAIN m = 1 .. Len(l) + 1
      /\ \A j \in 1 .. Len(l) : m[j] = l[j]
      /\ m[Len(l) + 1] = e
  BY Appended
<1>2. ASSUME BetweenTurns(m), NEW i \in DOMAIN m, NEW k \in DOMAIN m,
             m[i].kind = "compacted", m[k].kind = "started"
      PROVE  InTailOf(m, i, k)
  <2>0. BetweenTurns(l)
    BY <1>2, BetweenTurnsBefore
  <2>1. CASE i \in DOMAIN l /\ k \in DOMAIN l
    <3>1. m[i] = l[i] /\ m[k] = l[k]
      BY <1>1, <2>1
    <3>2. InTailOf(l, i, k)
      BY <1>2, <2>0, <2>1, <3>1, TailsOneByOne
    <3>3. CoveredIn(m, i) = CoveredIn(l, i)
      <4>1. \A n \in 0 .. Len(l) : CoveredIn(m, n) = CoveredIn(l, n)
        BY AppendedCover DEF SameCover
      <4> QED
        BY <1>1, <2>1, <4>1
    <3>4. \A j \in DOMAIN l : j \in DOMAIN m /\ m[j] = l[j]
      BY <1>1
    <3> QED
      BY <3>1, <3>2, <3>3, <3>4 DEF InTailOf
  <2>2. CASE i \in DOMAIN l /\ k = Len(l) + 1
    <3>1. m[i] = l[i]
      BY <1>1, <2>2
    <3>2. CheckpointInOrder(l, i)
      BY <1>2, <2>2, <3>1, CheckpointsOneByOne
    <3>3. l[i].tail <= i
      BY <3>2 DEF CheckpointInOrder
    <3>4. l[i].tail \in Nat
      <4>1. l[i] \in LogEvent
        BY <2>2
      <4> QED
        BY <4>1 DEF LogEvent
    <3>5. k >= TailFrom(m[i], i)
      BY <1>1, <2>2, <3>1, <3>3, <3>4 DEF TailFrom
    <3> QED
      BY <3>5 DEF InTailOf
  <2>3. CASE i = Len(l) + 1 /\ k \in DOMAIN l
    <3>1. e.kind = "compacted" /\ l[k].kind = "started"
      BY <1>1, <1>2, <2>3
    <3> QED
      BY <2>0, <2>3, <3>1, NewTailIsWhole
  <2>4. CASE i = Len(l) + 1 /\ k = Len(l) + 1
    BY <1>1, <1>2, <2>4
  <2> QED
    BY <1>1, <2>1, <2>2, <2>3, <2>4
<1> QED
  BY <1>2, TailsOneByOne

\* A sound log stays sound by a legal event.
LEMMA KeepsSoundLog ==
  ASSUME None \notin Turns, NEW l, SoundLog(l), NEW e, LegalEvent(l, e), NEW m, m = Append(l, e)
  PROVE  SoundLog(m)
<1>1. l \in Seq(LogEvent) /\ TurnsInOrder(l) /\ CheckpointsInOrder(l) /\ TailsAreWhole(l)
  BY DEF SoundLog
<1>2. e \in LogEvent
  BY LegalIsEvent
<1>3. m \in Seq(LogEvent)
  BY <1>1, <1>2
<1>4. TurnsInOrder(m)
  BY <1>1, <1>2, KeepsTurnsInOrder
<1>5. CheckpointsInOrder(m)
  BY <1>1, <1>2, KeepsCheckpointsInOrder
<1>6. TailsAreWhole(m)
  BY <1>1, <1>2, KeepsTailsWhole
<1> QED
  BY <1>3, <1>4, <1>5, <1>6 DEF SoundLog

-----------------------------------------------------------------------------
(* What a session knows of the log, and how long it stays true.            *)

\* A turn in its hands has started, and an operation works on it.
TurnOK(l, p, t) == t # None => HasEvent(l, "started", t) /\ p \in Working

\* A candidate that is not stale was undisturbed up to its revision, and fits
\* as long as the log is no longer.
CandidateOK(l, p, c) ==
  p = "compacting" /\ ~c.stale =>
    /\ c.rev <= Len(l) /\ c.op \in 1 .. c.rev /\ l[c.op].kind = "compacting"
    /\ \A j \in c.op + 1 .. c.rev : l[j] = Charge(c.op)
    /\ c.rev = Len(l) => Fits(l, c.sources, c.tail)

\* A prompt whose checkpoint is the last one holds what was committed, raw or
\* covered.
IsLast(l, cp) == cp \in 0 .. Len(l) /\ \A i \in DOMAIN l : l[i].kind = "compacted" => i <= cp
Holds(l, q) ==
  IsLast(l, q.checkpoint) /\ BetweenTurns(l) =>
    \A t \in Turns : HasEvent(l, "committed", t) => t \in q.groups \cup CoveredIn(l, q.checkpoint)
PromptOK(l, p, t, q) ==
  q # None =>
    /\ p \in {"running", "reconciling"} /\ q.checkpoint \in 0 .. Len(l)
    /\ IsOpen(l, t) => Holds(l, q)

Knowledge(l, p, t, c, q) == TurnOK(l, p, t) /\ CandidateOK(l, p, c) /\ PromptOK(l, p, t, q)

Candidate == [rev : Nat, op : Nat, sources : SUBSET Turns, tail : Nat, stale : BOOLEAN]

\* No session knows of a revision beyond n.
Bounds(n) ==
  /\ rev \in [Sessions -> 0 .. n] /\ checkpoint \in [Sessions -> 0 .. n]
  /\ recorder \in [Sessions -> 0 .. n]
  /\ returned \in [Sessions -> 0 .. n] /\ noted \in [Sessions -> 0 .. n]
Shapes ==
  /\ pc \in [Sessions -> Labels]
  /\ turn \in [Sessions -> Turns \cup {None}]
  /\ retry \in [Sessions -> Mutations \cup {"none"}]
  /\ broken \in [Sessions -> BOOLEAN]
  /\ plan \in [Sessions -> {"none", "active", "interrupted"}]
  /\ candidate \in [Sessions -> Candidate]
  /\ DOMAIN prompt = Sessions
CheckpointsKnown(l) == \A s \in Sessions : checkpoint[s] # 0 => l[checkpoint[s]].kind = "compacted"
LogKnown(l) == \A s \in Sessions : Knowledge(l, pc[s], turn[s], candidate[s], prompt[s])

\* The inductive invariant: the log is sound, and every session's knowledge
\* of it is true.
IInv == Shapes /\ SoundLog(log) /\ Bounds(Len(log)) /\ CheckpointsKnown(log) /\ LogKnown(log)

LEMMA KeepsTurnOK ==
  ASSUME NEW l \in Seq(LogEvent), NEW e \in LogEvent, LegalEvent(l, e), None \notin Turns,
         NEW m, m = Append(l, e), NEW p, NEW t, TurnOK(l, p, t)
  PROVE  TurnOK(m, p, t)
<1> SUFFICES ASSUME t # None PROVE TurnOK(m, p, t)
  BY DEF TurnOK
<1>1. HasEvent(l, "started", t) /\ p \in Working
  BY DEF TurnOK
<1>2. HasEvent(m, "started", t)
  BY <1>1, AppendedEvents
<1> QED
  BY <1>1, <1>2 DEF TurnOK

LEMMA KeepsCandidateOK ==
  ASSUME NEW l \in Seq(LogEvent), NEW e \in LogEvent,
         NEW m, m = Append(l, e), NEW p, NEW c \in Candidate, CandidateOK(l, p, c)
  PROVE  CandidateOK(m, p, c)
<1> SUFFICES ASSUME p = "compacting", ~c.stale PROVE CandidateOK(m, p, c)
  BY DEF CandidateOK
<1>1. /\ Len(l) \in Nat /\ Len(m) = Len(l) + 1
      /\ \A j \in 1 .. Len(l) : m[j] = l[j]
  BY Appended
<1>2. /\ c.rev <= Len(l) /\ c.op \in 1 .. c.rev /\ l[c.op].kind = "compacting"
      /\ \A j \in c.op + 1 .. c.rev : l[j] = Charge(c.op)
  BY DEF CandidateOK
<1>3. c.rev \in Nat /\ c.op \in Nat
  BY DEF Candidate
<1>4. c.rev <= Len(m) /\ m[c.op].kind = "compacting"
  BY <1>1, <1>2, <1>3
<1>5. \A j \in c.op + 1 .. c.rev : m[j] = Charge(c.op)
  BY <1>1, <1>2, <1>3
<1>6. c.rev # Len(m)
  BY <1>1, <1>2, <1>3
<1> QED
  BY <1>2, <1>4, <1>5, <1>6 DEF CandidateOK

\* A checkpoint that fits still fits after an event of another kind.
LEMMA KeepsFits ==
  ASSUME NEW l \in Seq(LogEvent), NEW e \in LogEvent,
         e.kind \notin {"started", "committed", "failed", "compacted"},
         NEW m, m = Append(l, e), NEW P, NEW tail, Fits(l, P, tail)
  PROVE  Fits(m, P, tail)
<1>1. /\ Len(l) \in Nat /\ Len(m) = Len(l) + 1
      /\ DOMAIN l = 1 .. Len(l) /\ DOMAIN m = 1 .. Len(l) + 1
      /\ \A j \in 1 .. Len(l) : m[j] = l[j]
      /\ m[Len(l) + 1] = e
  BY Appended
<1>2. CoveredIn(m, Len(m)) = CoveredIn(l, Len(l))
  BY AppendedCover DEF AddedCover
<1>3. \A t : Remaining(m, P, t) <=> Remaining(l, P, t)
  BY <1>2 DEF Remaining
<1>4. P \cap CoveredIn(m, Len(m)) = {}
  BY <1>2 DEF Fits
<1>5. \A t \in P : \E j \in DOMAIN m : m[j] = Event("committed", t)
  <2>1. ASSUME NEW t \in P PROVE \E j \in DOMAIN m : m[j] = Event("committed", t)
    <3>1. PICK j \in DOMAIN l : l[j] = Event("committed", t)
      BY DEF Fits
    <3> QED
      BY <1>1, <3>1
  <2> QED
    BY <2>1
<1>6. ASSUME NEW t \in P, NEW j \in DOMAIN m, m[j].kind = "committed", Remaining(m, P, m[j].turn)
      PROVE  StartsBefore(m, t, m[j].turn)
  <2>1. j \in DOMAIN l /\ m[j] = l[j]
    BY <1>1, <1>6
  <2>2. StartsBefore(l, t, l[j].turn)
    BY <1>3, <1>6, <2>1 DEF Fits
  <2> QED
    BY <2>1, <2>2, StartsStayInOrder DEF Starts
<1>7. tail \in 0 .. Len(m)
  BY <1>1 DEF Fits
<1>8. ASSUME NEW k \in DOMAIN m, m[k].kind = "started", Remaining(m, P, m[k].turn),
             HasEvent(m, "committed", m[k].turn)
      PROVE  tail # 0 /\ tail <= k
  <2>1. k \in DOMAIN l /\ m[k] = l[k]
    BY <1>1, <1>8
  <2>2. PICK u : u = l[k].turn /\ HasEvent(m, "committed", u)
    BY <1>8, <2>1
  <2>3. HasEvent(m, "committed", u) <=> HasEvent(l, "committed", u) \/ (e.kind = "committed" /\ e.turn = u)
    BY AppendedEvents
  <2>4. e.kind # "committed"
    OBVIOUS
  <2>5. HasEvent(l, "committed", u)
    BY <2>2, <2>3, <2>4
  <2> QED
    BY <1>3, <1>8, <2>1, <2>2, <2>5 DEF Fits
<1> QED
  BY <1>4, <1>5, <1>6, <1>7, <1>8 DEF Fits

\* What is committed while a turn is open is that turn.
LEMMA KeepsPromptOK ==
  ASSUME None \notin Turns, NEW l \in Seq(LogEvent), TurnsInOrder(l), NEW e \in LogEvent,
         LegalEvent(l, e), NEW m, m = Append(l, e), NEW p, NEW t, NEW q,
         t # None => HasEvent(l, "started", t), t \in Turns \cup {None}, PromptOK(l, p, t, q)
  PROVE  PromptOK(m, p, t, q)
<1> SUFFICES ASSUME q # None PROVE PromptOK(m, p, t, q)
  BY DEF PromptOK
<1>1. /\ Len(l) \in Nat /\ Len(m) = Len(l) + 1
      /\ DOMAIN l = 1 .. Len(l) /\ DOMAIN m = 1 .. Len(l) + 1
      /\ \A j \in 1 .. Len(l) : m[j] = l[j]
      /\ m[Len(l) + 1] = e
  BY Appended
<1>2. p \in {"running", "reconciling"} /\ q.checkpoint \in 0 .. Len(l)
  BY DEF PromptOK
<1>3. ASSUME IsOpen(m, t), IsLast(m, q.checkpoint), BetweenTurns(m),
             NEW u \in Turns, HasEvent(m, "committed", u)
      PROVE  u \in q.groups \cup CoveredIn(m, q.checkpoint)
  <2>1. HasEvent(l, "started", t)
    <3>1. CASE t = None
      <4>1. HasEvent(m, "started", None)
        BY <1>3, <3>1 DEF IsOpen
      <4>2. TurnsInOrder(m)
        BY KeepsTurnsInOrder
      <4> QED
        BY <4>1, <4>2 DEF TurnsInOrder, HasEvent
    <3>2. CASE t # None
      BY <3>2
    <3> QED
      BY <3>1, <3>2
  <2>2. IsOpen(l, t)
    BY <1>3, <2>1, AppendedEvents DEF IsOpen
  <2>3. e.kind # "compacted"
    BY <1>1, <1>2, <1>3 DEF IsLast
  <2>4. IsLast(l, q.checkpoint)
    BY <1>1, <1>2, <1>3 DEF IsLast
  <2>5. BetweenTurns(l)
    BY <1>3, BetweenTurnsBefore
  <2>6. HasEvent(l, "committed", u)
    <3> SUFFICES ASSUME ~HasEvent(l, "committed", u) PROVE FALSE
      OBVIOUS
    <3>1. e.kind = "committed" /\ e.turn = u
      BY <1>3, AppendedEvents
    <3>2. IsOpen(l, u)
      BY <3>1, LegalFacts
    <3>3. u = t
      BY <2>2, <3>2, OneOpenTurn
    <3>4. HasEvent(m, "committed", t)
      BY <3>1, <3>3, AppendedEvents
    <3> QED
      BY <1>3, <3>4 DEF IsOpen
  <2>7. u \in q.groups \cup CoveredIn(l, q.checkpoint)
    BY <2>2, <2>4, <2>5, <2>6 DEF PromptOK, Holds
  <2>8. CoveredIn(m, q.checkpoint) = CoveredIn(l, q.checkpoint)
    BY <1>2, AppendedCover DEF SameCover
  <2> QED
    BY <2>7, <2>8
<1>4. q.checkpoint \in 0 .. Len(m)
  BY <1>1, <1>2
<1> QED
  BY <1>2, <1>3, <1>4 DEF PromptOK, Holds

\* Whoever writes, what a session knows stays true.
LEMMA KeepsKnowledge ==
  ASSUME None \notin Turns, NEW l, SoundLog(l), NEW e, LegalEvent(l, e), NEW m, m = Append(l, e),
         NEW p, NEW t \in Turns \cup {None}, NEW c \in Candidate, NEW q, Knowledge(l, p, t, c, q)
  PROVE  Knowledge(m, p, t, c, q)
<1>1. l \in Seq(LogEvent) /\ TurnsInOrder(l)
  BY DEF SoundLog
<1>2. e \in LogEvent
  BY LegalIsEvent
<1>3. TurnOK(l, p, t) /\ CandidateOK(l, p, c) /\ PromptOK(l, p, t, q)
  BY DEF Knowledge
<1>4. TurnOK(m, p, t)
  BY <1>1, <1>2, <1>3, KeepsTurnOK
<1>5. CandidateOK(m, p, c)
  BY <1>1, <1>2, <1>3, KeepsCandidateOK
<1>6. t # None => HasEvent(l, "started", t)
  BY <1>3 DEF TurnOK
<1>7. PromptOK(m, p, t, q)
  BY <1>1, <1>2, <1>3, <1>6, KeepsPromptOK
<1> QED
  BY <1>4, <1>5, <1>7 DEF Knowledge

-----------------------------------------------------------------------------
(* What the store computes from a sound log.                               *)

LEMMA OpenTurns ==
  /\ OpenTurn = {t \in Turns : IsOpen(log, t)}
  /\ Committed = {t \in Turns : HasEvent(log, "committed", t)}
  /\ \A t : Has("started", t) <=> HasEvent(log, "started", t)
  BY DEF OpenTurn, Committed, Ended, Has, IsOpen, HasEvent

\* What a log covers, its last checkpoint covers.
LEMMA CoveredByLast ==
  ASSUME NEW l \in Seq(LogEvent), NEW cp \in 0 .. Len(l), IsLast(l, cp)
  PROVE  CoveredIn(l, cp) = CoveredIn(l, Len(l))
<1>1. DOMAIN l = 1 .. Len(l) /\ Len(l) \in Nat
  OBVIOUS
<1>2. {j \in 1 .. cp : l[j].kind = "compacted"} = {j \in 1 .. Len(l) : l[j].kind = "compacted"}
  BY <1>1 DEF IsLast
<1> QED
  BY <1>2 DEF CoveredIn

LEMMA ActiveIsLast ==
  ASSUME SoundLog(log)
  PROVE  /\ ActiveCheckpoint \in 0 .. Len(log) /\ IsLast(log, ActiveCheckpoint)
         /\ ActiveCheckpoint # 0 => log[ActiveCheckpoint].kind = "compacted"
         /\ CoveredIn(log, ActiveCheckpoint) = CoveredIn(log, Len(log))
<1>0. log \in Seq(LogEvent) /\ Len(log) \in Nat /\ DOMAIN log = 1 .. Len(log)
  BY DEF SoundLog
<1>1. PICK S : S = {0} \cup {i \in DOMAIN log : log[i].kind = "compacted"}
  OBVIOUS
<1>2. S \subseteq 0 .. Len(log) /\ S # {}
  BY <1>0, <1>1
<1>3. Greatest(S) \in S /\ \A m \in S : Greatest(S) >= m
  BY <1>0, <1>2, HasGreatest
<1>4. PICK cp : cp = Greatest(S)
  OBVIOUS
<1>5. ActiveCheckpoint = cp
  BY <1>1, <1>4 DEF ActiveCheckpoint
<1>6. cp \in 0 .. Len(log) /\ (cp # 0 => log[cp].kind = "compacted")
  BY <1>0, <1>1, <1>3, <1>4
<1>7. IsLast(log, cp)
  BY <1>0, <1>1, <1>3, <1>4, <1>6 DEF IsLast
<1>8. CoveredIn(log, cp) = CoveredIn(log, Len(log))
  BY <1>0, <1>6, <1>7, CoveredByLast
<1> QED
  BY <1>5, <1>6, <1>7, <1>8

LEMMA PendingIsNumber ==
  ASSUME SoundLog(log)
  PROVE  Pending \in Nat
<1>0. Len(log) \in Nat /\ DOMAIN log = 1 .. Len(log)
  BY DEF SoundLog
<1>1. PICK S : S = {i \in DOMAIN log : log[i].kind \in {"compacting", "compacted", "abandoned"}}
  OBVIOUS
<1>2. S \subseteq 0 .. Len(log)
  BY <1>0, <1>1
<1>3. Pending = IF S # {} /\ log[Greatest(S)].kind = "compacting" THEN Greatest(S) ELSE 0
  BY <1>1 DEF Pending
<1>4. CASE S = {}
  BY <1>3, <1>4
<1>5. CASE S # {}
  <2>1. PICK g : g = Greatest(S) /\ g \in S
    BY <1>0, <1>2, <1>5, HasGreatest
  <2>2. g \in Nat
    BY <1>0, <1>2, <2>1
  <2> QED
    BY <1>3, <2>1, <2>2
<1> QED
  BY <1>4, <1>5

\* A turn starts where it first appears.
LEMMA StartIsFirst ==
  ASSUME SoundLog(log), NEW t, NEW k \in DOMAIN log, Starts(log[k], t)
  PROVE  StartOf(t) = k
<1>0. Len(log) \in Nat /\ DOMAIN log = 1 .. Len(log) /\ TurnsInOrder(log)
  BY DEF SoundLog
<1>1. PICK S : S = {i \in DOMAIN log : log[i].turn = t}
  OBVIOUS
<1>2. k \in S /\ S \subseteq Nat
  BY <1>0, <1>1 DEF Starts
<1>3. \A i \in S : k <= i
  BY <1>0, <1>1 DEF TurnsInOrder, Starts
<1>4. Least(S) \in S /\ Least(S) <= k
  BY <1>2, HasLeast
<1>5. k <= Least(S) /\ Least(S) \in Nat /\ k \in Nat
  BY <1>2, <1>3, <1>4
<1>6. StartOf(t) = Least(S)
  BY <1>1 DEF StartOf
<1> QED
  BY <1>4, <1>5, <1>6

\* Every turn in the log has such a place.
LEMMA StartExists ==
  ASSUME SoundLog(log), SessionAssumption, NEW t \in Turns, NEW kind, HasEvent(log, kind, t)
  PROVE  /\ StartOf(t) \in DOMAIN log /\ Starts(log[StartOf(t)], t) /\ StartOf(t) \in 1 .. Len(log)
<1>0. log \in Seq(LogEvent) /\ TurnsInOrder(log) /\ DOMAIN log = 1 .. Len(log)
  BY DEF SoundLog
<1>1. PICK i \in DOMAIN log : log[i].turn = t
  BY DEF HasEvent
<1>2. t # None
  BY DEF SessionAssumption
<1>3. PICK k \in DOMAIN log : Starts(log[k], t)
  BY <1>0, <1>1, <1>2, StartsOnce
<1>4. StartOf(t) = k
  BY <1>3, StartIsFirst
<1> QED
  BY <1>0, <1>3, <1>4

\* What a session may cover next, and the tail for it, fit the log.
LEMMA CandidatesFit ==
  ASSUME SoundLog(log), SessionAssumption, NEW s \in Sessions, NEW P \in Candidates(s)
  PROVE  P \in SUBSET Turns /\ Fits(log, P, TailAfter(P))
<1>0. log \in Seq(LogEvent) /\ TurnsInOrder(log) /\ DOMAIN log = 1 .. Len(log) /\ Len(log) \in Nat
  BY DEF SoundLog
<1>1. PICK C : C = CoveredIn(log, Len(log)) /\ Uncovered = Committed \ C
  BY ActiveIsLast DEF Uncovered, Covered
<1>2. /\ P \subseteq Uncovered /\ P # {}
      /\ \A p \in P, q \in Uncovered \ P : StartOf(p) < StartOf(q)
  BY DEF Candidates
<1>3. P \subseteq Turns /\ P \cap C = {} /\ P \subseteq Committed
  BY <1>1, <1>2, OpenTurns
<1>4. ASSUME NEW t \in Committed
      PROVE  StartOf(t) \in 1 .. Len(log) /\ StartOf(t) \in DOMAIN log /\ Starts(log[StartOf(t)], t)
  <2>1. t \in Turns /\ HasEvent(log, "committed", t)
    BY OpenTurns
  <2> QED
    BY <2>1, StartExists
<1>5. \A t : Remaining(log, P, t) /\ t \in Committed => t \in Uncovered \ P
  BY <1>1 DEF Remaining
<1>6. ASSUME NEW j \in DOMAIN log, log[j].kind = "committed" PROVE log[j].turn \in Committed
  <2>1. HasEvent(log, "committed", log[j].turn)
    BY <1>6 DEF HasEvent
  <2>2. log[j] \in LogEvent /\ log[j].turn # None
    BY <1>0, <1>6 DEF TurnsInOrder
  <2>3. log[j].turn \in Turns
    BY <2>2 DEF LogEvent
  <2> QED
    BY <2>1, <2>3, OpenTurns
<1>7. ASSUME NEW t \in P PROVE \E j \in DOMAIN log : log[j] = Event("committed", t)
  <2>1. PICK j \in DOMAIN log : log[j].kind = "committed" /\ log[j].turn = t
    BY <1>3, OpenTurns DEF HasEvent
  <2>2. log[j] = Event("committed", t)
    BY <1>0, <2>1 DEF TurnsInOrder
  <2> QED
    BY <2>2
<1>8. ASSUME NEW t \in P, NEW j \in DOMAIN log, log[j].kind = "committed", Remaining(log, P, log[j].turn)
      PROVE  StartsBefore(log, t, log[j].turn)
  <2>1. PICK u : u = log[j].turn /\ u \in Uncovered \ P
    BY <1>5, <1>6, <1>8
  <2>2. StartOf(t) < StartOf(u)
    BY <1>2, <2>1
  <2>3. ASSUME NEW k \in DOMAIN log, NEW p \in DOMAIN log, Starts(log[k], t), Starts(log[p], u)
        PROVE  k < p
    <3>1. StartOf(t) = k /\ StartOf(u) = p
      BY <2>3, StartIsFirst
    <3> QED
      BY <2>2, <3>1
  <2> QED
    BY <2>1, <2>3 DEF StartsBefore
<1>9. PICK starts : starts = {StartOf(p) : p \in P}
  OBVIOUS
<1>10. starts \subseteq 0 .. Len(log) /\ starts # {}
  BY <1>2, <1>3, <1>4, <1>9
<1>11. PICK top : top = Greatest(starts) /\ top \in starts
  BY <1>0, <1>10, HasGreatest
<1>12. PICK later : later = {t \in Committed : StartOf(t) > top}
  OBVIOUS
<1>13. PICK next : next = {StartOf(t) : t \in later}
  OBVIOUS
<1>14. PICK tail : tail = IF later = {} THEN 0 ELSE Least(next)
  OBVIOUS
<1>15. TailAfter(P) = tail
  BY <1>9, <1>11, <1>12, <1>13, <1>14 DEF TailAfter
<1>16. next \subseteq 1 .. Len(log)
  BY <1>4, <1>12, <1>13
<1>17. later # {} => tail \in next /\ \A n \in next : tail <= n
  <2>1. SUFFICES ASSUME later # {} PROVE tail \in next /\ \A n \in next : tail <= n
    OBVIOUS
  <2>2. next # {} /\ next \subseteq Nat
    BY <1>13, <1>16, <2>1
  <2>3. Least(next) \in next /\ \A n \in next : Least(next) <= n
    BY <2>2, HasLeast
  <2> QED
    BY <1>14, <2>1, <2>3
<1>18. tail \in 0 .. Len(log)
  BY <1>0, <1>14, <1>16, <1>17
<1>19. ASSUME NEW k \in DOMAIN log, log[k].kind = "started", Remaining(log, P, log[k].turn),
              HasEvent(log, "committed", log[k].turn)
       PROVE  tail # 0 /\ tail <= k
  <2>1. PICK j \in DOMAIN log : log[j].kind = "committed" /\ log[j].turn = log[k].turn
    BY <1>19 DEF HasEvent
  <2>2. PICK u : u = log[k].turn /\ u \in Committed
    BY <1>6, <2>1
  <2>3. u \in Uncovered \ P
    BY <1>5, <1>19, <2>2
  <2>4. StartOf(u) = k
    BY <1>19, <2>2, StartIsFirst DEF Starts
  <2>5. PICK p \in P : StartOf(p) = top
    BY <1>9, <1>11
  <2>6. k > top /\ k \in Nat
    BY <1>0, <1>2, <1>3, <1>4, <2>3, <2>4, <2>5
  <2>7. u \in later /\ k \in next
    BY <1>12, <1>13, <2>2, <2>4, <2>6
  <2>8. tail \in next /\ tail <= k
    BY <1>17, <2>7
  <2> QED
    BY <1>16, <2>8
<1>20. /\ P \cap CoveredIn(log, Len(log)) = {}
       /\ \A t \in P : \E j \in DOMAIN log : log[j] = Event("committed", t)
       /\ \A t \in P, j \in DOMAIN log : log[j].kind = "committed" /\ Remaining(log, P, log[j].turn) =>
            StartsBefore(log, t, log[j].turn)
  BY <1>1, <1>3, <1>7, <1>8
<1>21. Fits(log, P, tail)
  BY <1>18, <1>19, <1>20 DEF Fits
<1> QED
  BY <1>3, <1>15, <1>21

\* The tail every snapshot reads has all that is neither covered nor failed.
LEMMA TailIsWhole ==
  ASSUME SoundLog(log), SessionAssumption, BetweenTurns(log),
         NEW t \in Turns, NEW kind, HasEvent(log, kind, t),
         t \notin CoveredIn(log, ActiveCheckpoint), ~HasEvent(log, "failed", t)
  PROVE  InTail(t)
<1>0. log \in Seq(LogEvent) /\ TailsAreWhole(log) /\ DOMAIN log = 1 .. Len(log) /\ Len(log) \in Nat
  BY DEF SoundLog
<1>1. PICK k \in DOMAIN log : k = StartOf(t) /\ Starts(log[k], t)
  BY StartExists
<1>2. PICK cp : cp = ActiveCheckpoint
  OBVIOUS
<1>3. cp \in 0 .. Len(log) /\ (cp # 0 => log[cp].kind = "compacted")
  BY <1>2, ActiveIsLast
<1>4. CASE cp = 0
  BY <1>0, <1>1, <1>2, <1>4 DEF InTail, TailStart
<1>5. CASE cp # 0
  <2>1. cp \in DOMAIN log /\ log[cp].kind = "compacted"
    BY <1>0, <1>3, <1>5
  <2>2. InTailOf(log, cp, k)
    BY <1>0, <1>1, <2>1, TailsOneByOne DEF Starts
  <2>3. k >= TailFrom(log[cp], cp)
    BY <1>1, <1>2, <2>2 DEF InTailOf, HasEvent, Starts
  <2>4. TailStart = TailFrom(log[cp], cp)
    BY <1>2, <1>5 DEF TailStart, TailFrom
  <2> QED
    BY <1>1, <2>3, <2>4 DEF InTail
<1> QED
  BY <1>4, <1>5

\* So that a prompt built from it holds what was committed.
LEMMA PromptHolds ==
  ASSUME SoundLog(log), SessionAssumption, NEW cp \in 0 .. Len(log),
         NEW q, q = [checkpoint |-> cp, groups |-> TailGroups \ Covered(cp)]
  PROVE  Holds(log, q)
<1>0. log \in Seq(LogEvent) /\ TurnsInOrder(log) /\ DOMAIN log = 1 .. Len(log) /\ Len(log) \in Nat
  BY DEF SoundLog
<1>1. q.checkpoint = cp /\ q.groups = TailGroups \ CoveredIn(log, cp)
  BY DEF Covered
<1>2. ASSUME IsLast(log, cp), BetweenTurns(log), NEW t \in Turns, HasEvent(log, "committed", t)
      PROVE  t \in q.groups \cup CoveredIn(log, cp)
  <2> SUFFICES ASSUME t \notin CoveredIn(log, cp) PROVE t \in TailGroups
    BY <1>1
  <2>1. CoveredIn(log, ActiveCheckpoint) = CoveredIn(log, cp)
    BY <1>0, <1>2, CoveredByLast, ActiveIsLast
  <2>2. ~HasEvent(log, "failed", t)
    BY <1>0, <1>2 DEF HasEvent, TurnsInOrder
  <2>3. InTail(t)
    BY <1>2, <2>1, <2>2, TailIsWhole
  <2>4. t \in Committed
    BY <1>2, OpenTurns
  <2> QED
    BY <2>3, <2>4 DEF TailGroups
<1> QED
  BY <1>1, <1>2 DEF Holds

-----------------------------------------------------------------------------
(* The actions.  Each leaves the log alone or adds one legal event, and    *)
(* then changes what its own session has.                                  *)

Grows == log' = log \/ \E e : LegalEvent(log, e) /\ log' = Append(log, e)

\* What the log's growth alone leaves: everything but the values that the
\* session's own step changes, measured by the new log.
Settled(l) ==
  /\ SoundLog(l) /\ Len(l) \in Nat /\ Len(log) <= Len(l)
  /\ Bounds(Len(l)) /\ CheckpointsKnown(l) /\ LogKnown(l)

LEMMA GrowthSettles ==
  ASSUME IInv, SessionAssumption, Grows
  PROVE  Settled(log')
<1>0. None \notin Turns /\ Len(log) \in Nat
  BY DEF SessionAssumption, IInv, SoundLog
<1>1. CASE log' = log
  BY <1>0, <1>1 DEF Settled, IInv
<1>2. CASE \E e : LegalEvent(log, e) /\ log' = Append(log, e)
  <2>1. PICK e : LegalEvent(log, e) /\ log' = Append(log, e)
    BY <1>2
  <2>2. PICK m : m = log'
    OBVIOUS
  <2>3. log \in Seq(LogEvent) /\ e \in LogEvent
    BY <2>1, LegalIsEvent DEF IInv, SoundLog
  <2>4. Len(m) = Len(log) + 1 /\ \A i \in 1 .. Len(log) : m[i] = log[i]
    BY <2>1, <2>2, <2>3
  <2>5. SoundLog(m)
    BY <1>0, <2>1, <2>2, KeepsSoundLog DEF IInv
  <2>6. Bounds(Len(m))
    <3>1. 0 .. Len(log) \subseteq 0 .. Len(m)
      BY <1>0, <2>4
    <3>2. \A f \in [Sessions -> 0 .. Len(log)] : f \in [Sessions -> 0 .. Len(m)]
      BY <3>1
    <3> QED
      BY <3>2 DEF IInv, Bounds
  <2>7. CheckpointsKnown(m)
    <3>1. ASSUME NEW s \in Sessions, checkpoint[s] # 0 PROVE m[checkpoint[s]].kind = "compacted"
      <4>1. checkpoint[s] \in 0 .. Len(log)
        BY DEF IInv, Bounds
      <4>2. m[checkpoint[s]] = log[checkpoint[s]]
        BY <1>0, <2>4, <3>1, <4>1
      <4> QED
        BY <3>1, <4>2 DEF IInv, CheckpointsKnown
    <3> QED
      BY <3>1 DEF CheckpointsKnown
  <2>8. LogKnown(m)
    <3>1. ASSUME NEW s \in Sessions
          PROVE  Knowledge(m, pc[s], turn[s], candidate[s], prompt[s])
      <4>1. turn[s] \in Turns \cup {None} /\ candidate[s] \in Candidate
        BY DEF IInv, Shapes
      <4>2. Knowledge(log, pc[s], turn[s], candidate[s], prompt[s])
        BY DEF IInv, LogKnown
      <4>3. SoundLog(log)
        BY DEF IInv
      <4> QED
        BY <1>0, <2>1, <2>2, <4>1, <4>2, <4>3, KeepsKnowledge
    <3> QED
      BY <3>1 DEF LogKnown
  <2>9. Settled(m)
    BY <1>0, <2>4, <2>5, <2>6, <2>7, <2>8 DEF Settled
  <2> QED
    BY <2>2, <2>9
<1> QED
  BY <1>1, <1>2 DEF Grows

\* What a session writes is legal.
LEMMA PlainGrows ==
  ASSUME IInv, SessionAssumption, NEW kind \in {"interrupted", "compacting"}, Write(Event(kind, None))
  PROVE  Grows
<1>1. Event(kind, None) \in LogEvent
  BY EventIsEvent DEF Kinds
<1>2. IsPlain(log, Event(kind, None))
  BY <1>1, EventFields DEF IsPlain
<1> QED
  BY <1>2 DEF LegalEvent, Grows, Write

LEMMA WorkGrows ==
  ASSUME IInv, SessionAssumption, NEW kind \in {"tool", "planned", "usage"}, NEW t \in OpenTurn,
         Write(Event(kind, t))
  PROVE  Grows
<1>1. t \in Turns /\ HasEvent(log, "started", t)
  BY OpenTurns DEF IsOpen
<1>2. Event(kind, t) \in LogEvent
  BY <1>1, EventIsEvent DEF Kinds
<1>3. IsPlain(log, Event(kind, t))
  BY <1>1, <1>2, EventFields DEF IsPlain
<1> QED
  BY <1>3 DEF LegalEvent, Grows, Write

LEMMA EndGrows ==
  ASSUME IInv, SessionAssumption, NEW kind \in {"committed", "failed"}, NEW t \in OpenTurn,
         Write(Event(kind, t))
  PROVE  Grows /\ ~IsOpen(log', t)
<1>1. t \in Turns /\ IsOpen(log, t)
  BY OpenTurns
<1>2. IsEnd(log, Event(kind, t))
  BY <1>1 DEF IsEnd
<1>3. Event(kind, t) \in LogEvent
  BY <1>1, EventIsEvent DEF Kinds
<1>4. PICK m : m = log' /\ m = Append(log, Event(kind, t))
  BY DEF Write
<1>5. HasEvent(m, kind, t)
  <2>1. PICK e \in LogEvent : e = Event(kind, t) /\ e.kind = kind /\ e.turn = t
    BY <1>3, EventFields
  <2>2. log \in Seq(LogEvent) /\ m = Append(log, e)
    BY <1>4, <2>1 DEF IInv, SoundLog
  <2>3. HasEvent(m, kind, t) <=> HasEvent(log, kind, t) \/ (e.kind = kind /\ e.turn = t)
    BY <2>2, AppendedEvents
  <2> QED
    BY <2>1, <2>3
<1> QED
  BY <1>2, <1>4, <1>5 DEF LegalEvent, Grows, Write, IsOpen

LEMMA ChargeGrows ==
  ASSUME IInv, SessionAssumption, NEW op \in Nat, Write(Charge(op)) \/ Write(Abandoned(op))
  PROVE  Grows
<1>1. IsPlain(log, Charge(op)) /\ IsPlain(log, Abandoned(op))
  BY ChargeFields, AbandonedFields DEF IsPlain
<1> QED
  BY <1>1 DEF LegalEvent, Grows, Write

\* A step that changes nothing a session knows of the log by.
LEMMA OnlyBounds ==
  ASSUME Settled(log'), Shapes', Bounds(Len(log))', CheckpointsKnown(log)',
         UNCHANGED <<pc, turn, candidate, prompt>>
  PROVE  IInv'
  BY DEF Settled, IInv, LogKnown

LEMMA OnlyBoundsAndCheckpoints ==
  ASSUME Settled(log'), Shapes', Bounds(Len(log))',
         UNCHANGED <<pc, turn, candidate, prompt, checkpoint>>
  PROVE  IInv'
  BY DEF Settled, IInv, LogKnown, CheckpointsKnown

\* A step after which one session knows something else.
LEMMA OneKnows ==
  ASSUME Settled(log'), Shapes', Bounds(Len(log))', NEW s \in Sessions,
         \A r \in Sessions \ {s} :
           /\ pc'[r] = pc[r] /\ turn'[r] = turn[r] /\ candidate'[r] = candidate[r]
           /\ prompt'[r] = prompt[r] /\ checkpoint'[r] = checkpoint[r],
         checkpoint'[s] # 0 => log'[checkpoint'[s]].kind = "compacted",
         Knowledge(log', pc'[s], turn'[s], candidate'[s], prompt'[s])
  PROVE  IInv'
<1>1. \A r \in Sessions : Knowledge(log', pc'[r], turn'[r], candidate'[r], prompt'[r])
  BY DEF Settled, LogKnown
<1>2. \A r \in Sessions : checkpoint'[r] # 0 => log'[checkpoint'[r]].kind = "compacted"
  BY DEF Settled, CheckpointsKnown
<1>3. SoundLog(log')
  BY DEF Settled
<1> QED
  BY <1>1, <1>2, <1>3 DEF IInv, LogKnown, CheckpointsKnown

\* Recovery writes and changes nothing else.
LEMMA RecoverTurnStep ==
  ASSUME IInv, SessionAssumption, NEW s \in Sessions, RecoverTurn(s)
  PROVE  IInv'
<1>1. Grows
  BY EndGrows DEF RecoverTurn
<1>2. Settled(log')
  BY <1>1, GrowthSettles
<1>3. UNCHANGED <<pc, memory, running, candidate, returned, noted>>
  BY DEF RecoverTurn
<1>4. Shapes'
  BY <1>3 DEF IInv, Shapes, memory, running
<1>5. Bounds(Len(log))'
  BY <1>2, <1>3 DEF Settled, Bounds, memory, running
<1> QED
  BY <1>2, <1>3, <1>4, <1>5, OnlyBoundsAndCheckpoints DEF memory, running

LEMMA RecoverCompactionStep ==
  ASSUME IInv, SessionAssumption, NEW s \in Sessions, RecoverCompaction(s)
  PROVE  IInv'
<1>1. Grows
  <2>1. Pending \in Nat
    BY PendingIsNumber DEF IInv
  <2> QED
    BY <2>1, ChargeGrows DEF RecoverCompaction
<1>2. Settled(log')
  BY <1>1, GrowthSettles
<1>3. UNCHANGED <<pc, memory, running, candidate, returned, noted>>
  BY DEF RecoverCompaction
<1>4. Shapes'
  BY <1>3 DEF IInv, Shapes, memory, running
<1>5. Bounds(Len(log))'
  BY <1>2, <1>3 DEF Settled, Bounds, memory, running
<1> QED
  BY <1>2, <1>3, <1>4, <1>5, OnlyBoundsAndCheckpoints DEF memory, running

\* A place where no operation works on a turn or on a candidate is as good as
\* another.
LEMMA AtRest ==
  ASSUME NEW l, NEW p, NEW r, NEW t, NEW c, NEW q, Knowledge(l, p, t, c, q),
         p \notin Working, r # "compacting"
  PROVE  Knowledge(l, r, t, c, q)
  BY DEF Working, Knowledge, TurnOK, CandidateOK, PromptOK

LEMMA OpenStep ==
  ASSUME IInv, SessionAssumption, NEW s \in Sessions, Open(s)
  PROVE  IInv'
<1>1. Settled(log')
  BY GrowthSettles DEF Grows, Open
<1>2. /\ pc[s] = "closed" /\ log' = log /\ UNCHANGED <<turn, candidate, prompt>>
      /\ pc' = [pc EXCEPT ![s] = "idle"]
      /\ checkpoint' = [checkpoint EXCEPT ![s] = ActiveCheckpoint]
  BY DEF Open, Goto, running
<1>3. SavedPlan \in {"none", "active", "interrupted"}
  BY DEF SavedPlan
<1>4. Shapes'
  BY <1>3 DEF IInv, Shapes, Open, Goto, Labels, running
<1>5. /\ ActiveCheckpoint \in 0 .. Len(log)
      /\ ActiveCheckpoint # 0 => log[ActiveCheckpoint].kind = "compacted"
  BY ActiveIsLast DEF IInv
<1>6. Bounds(Len(log))'
  <2>1. Revision \in 0 .. Len(log)
    BY <1>1, <1>2 DEF Settled, Revision
  <2>2. checkpoint' \in [Sessions -> 0 .. Len(log)]
    BY <1>2, <1>5 DEF IInv, Bounds
  <2> QED
    BY <1>2, <2>1, <2>2 DEF IInv, Bounds, Open, running
<1>7. Knowledge(log', pc'[s], turn'[s], candidate'[s], prompt'[s])
  <2>1. Knowledge(log, pc[s], turn[s], candidate[s], prompt[s])
    BY DEF IInv, LogKnown
  <2>2. Knowledge(log, "idle", turn[s], candidate[s], prompt[s])
    BY <1>2, <2>1, AtRest DEF Working
  <2>3. pc'[s] = "idle"
    BY <1>2 DEF IInv, Shapes
  <2> QED
    BY <1>2, <2>2, <2>3
<1>8. checkpoint'[s] # 0 => log'[checkpoint'[s]].kind = "compacted"
  BY <1>2, <1>5 DEF IInv, Bounds
<1>9. \A r \in Sessions \ {s} :
        /\ pc'[r] = pc[r] /\ turn'[r] = turn[r] /\ candidate'[r] = candidate[r]
        /\ prompt'[r] = prompt[r] /\ checkpoint'[r] = checkpoint[r]
  BY <1>2 DEF IInv, Shapes, Bounds
<1> QED
  BY <1>1, <1>4, <1>6, <1>7, <1>8, <1>9, OneKnows

LEMMA CrashStep ==
  ASSUME IInv, SessionAssumption, NEW s \in Sessions, Crash(s)
  PROVE  IInv'
<1>1. Settled(log')
  BY GrowthSettles DEF Grows, Crash
<1>2. Idle \in Candidate
  BY DEF Idle, Candidate
<1>3. Shapes'
  BY <1>2 DEF IInv, Shapes, Crash, Goto, Labels
<1>4. Bounds(Len(log))'
  <2>1. 0 \in 0 .. Len(log)
    BY <1>1 DEF Settled, Crash
  <2> QED
    BY <2>1 DEF IInv, Bounds, Crash
<1>5. pc'[s] = "closed" /\ turn'[s] = None /\ prompt'[s] = None /\ checkpoint'[s] = 0
  BY DEF Crash, Goto, IInv, Shapes, Bounds
<1>6. Knowledge(log', pc'[s], turn'[s], candidate'[s], prompt'[s])
  BY <1>5 DEF Knowledge, TurnOK, CandidateOK, PromptOK
<1>7. \A r \in Sessions \ {s} :
        /\ pc'[r] = pc[r] /\ turn'[r] = turn[r] /\ candidate'[r] = candidate[r]
        /\ prompt'[r] = prompt[r] /\ checkpoint'[r] = checkpoint[r]
  BY DEF IInv, Shapes, Bounds, Crash, Goto
<1> QED
  BY <1>1, <1>3, <1>4, <1>5, <1>6, <1>7, OneKnows

LEMMA ApplyStep ==
  ASSUME IInv, SessionAssumption, NEW s \in Sessions, Apply(s)
  PROVE  IInv'
<1>1. Settled(log')
  BY GrowthSettles DEF Grows, Apply
<1>2. log' = log /\ UNCHANGED <<turn, candidate, prompt, checkpoint, plan, recorder, retry, broken, noted>>
  BY DEF Apply, running
<1>3. PICK p : /\ pc' = [pc EXCEPT ![s] = p]
               /\ p = CASE pc[s] = "starting" -> "started"
                        [] pc[s] = "ending"   -> "idle"
                        [] OTHER              -> pc[s]
  BY DEF Apply
<1>4. pc[s] \in Labels /\ p \in Labels
  BY <1>3 DEF IInv, Shapes, Labels
<1>5. Shapes'
  BY <1>2, <1>3, <1>4 DEF IInv, Shapes
<1>6. Bounds(Len(log))'
  <2>1. returned[s] \in 0 .. Len(log) /\ 0 \in 0 .. Len(log)
    BY DEF IInv, Bounds, SoundLog
  <2>2. rev' \in [Sessions -> 0 .. Len(log)] /\ returned' \in [Sessions -> 0 .. Len(log)]
    BY <2>1 DEF Apply, Return, IInv, Bounds
  <2> QED
    BY <1>2, <2>2 DEF IInv, Bounds
<1>7. Knowledge(log', pc'[s], turn'[s], candidate'[s], prompt'[s])
  <2>1. Knowledge(log, pc[s], turn[s], candidate[s], prompt[s])
    BY DEF IInv, LogKnown
  <2>2. pc'[s] = p
    BY <1>3 DEF IInv, Shapes
  <2>3. CASE pc[s] = "starting"
    BY <1>2, <1>3, <2>1, <2>2, <2>3 DEF Working, Knowledge, TurnOK, CandidateOK, PromptOK
  <2>4. CASE pc[s] = "ending"
    <3>1. p = "idle"
      BY <1>3, <2>4
    <3> QED
      BY <1>2, <2>1, <2>2, <2>4, <3>1, AtRest DEF Working
  <2>5. CASE pc[s] \notin {"starting", "ending"}
    BY <1>2, <1>3, <2>1, <2>2, <2>5
  <2> QED
    BY <2>3, <2>4, <2>5
<1>8. \A r \in Sessions \ {s} :
        /\ pc'[r] = pc[r] /\ turn'[r] = turn[r] /\ candidate'[r] = candidate[r]
        /\ prompt'[r] = prompt[r] /\ checkpoint'[r] = checkpoint[r]
  BY <1>2, <1>3 DEF IInv, Shapes
<1>9. checkpoint'[s] # 0 => log'[checkpoint'[s]].kind = "compacted"
  BY <1>2 DEF IInv, CheckpointsKnown
<1> QED
  BY <1>1, <1>5, <1>6, <1>7, <1>8, <1>9, OneKnows

LEMMA InterruptStep ==
  ASSUME IInv, SessionAssumption, NEW s \in Sessions, Interrupt(s)
  PROVE  IInv'
<1>1. Grows
  BY PlainGrows DEF Interrupt, Grows
<1>2. Settled(log')
  BY <1>1, GrowthSettles
<1>3. UNCHANGED <<pc, rev, checkpoint, turn, recorder, retry, broken, prompt, candidate, returned>>
  BY DEF Interrupt, running
<1>4. Shapes'
  BY <1>3 DEF IInv, Shapes, Interrupt
<1>5. Bounds(Len(log))'
  <2>1. Len(log') \in 0 .. Len(log')
    BY <1>2 DEF Settled
  <2>2. noted' \in [Sessions -> 0 .. Len(log')]
    BY <1>2, <2>1 DEF Interrupt, Revision, Settled, Bounds
  <2> QED
    BY <1>2, <1>3, <2>2 DEF Settled, Bounds
<1> QED
  BY <1>2, <1>3, <1>4, <1>5, OnlyBoundsAndCheckpoints

LEMMA ApplyInterruptStep ==
  ASSUME IInv, SessionAssumption, NEW s \in Sessions, ApplyInterrupt(s)
  PROVE  IInv'
<1>1. Settled(log')
  BY GrowthSettles DEF Grows, ApplyInterrupt
<1>2. UNCHANGED <<log, pc, checkpoint, plan, turn, recorder, retry, broken, prompt, candidate, returned>>
  BY DEF ApplyInterrupt, running
<1>3. Shapes'
  BY <1>2 DEF IInv, Shapes
<1>4. Bounds(Len(log))'
  <2>1. noted[s] \in 0 .. Len(log) /\ 0 \in 0 .. Len(log)
    BY DEF IInv, Bounds, SoundLog
  <2>2. rev' \in [Sessions -> 0 .. Len(log)] /\ noted' \in [Sessions -> 0 .. Len(log)]
    BY <2>1 DEF ApplyInterrupt, IInv, Bounds
  <2> QED
    BY <1>2, <2>2 DEF IInv, Bounds
<1> QED
  BY <1>1, <1>2, <1>3, <1>4, OnlyBoundsAndCheckpoints

LEMMA SupersedeStep ==
  ASSUME IInv, SessionAssumption, NEW s \in Sessions, Supersede(s)
  PROVE  IInv'
<1>1. Grows
  BY PlainGrows DEF Supersede
<1>2. Settled(log')
  BY <1>1, GrowthSettles
<1>3. UNCHANGED <<pc, rev, checkpoint, turn, recorder, retry, broken, prompt, candidate, noted>>
  BY DEF Supersede, running
<1>4. Shapes'
  BY <1>3 DEF IInv, Shapes, Supersede
<1>5. Bounds(Len(log))'
  <2>1. Len(log') \in 0 .. Len(log')
    BY <1>2 DEF Settled
  <2>2. returned' \in [Sessions -> 0 .. Len(log')]
    BY <1>2, <2>1 DEF Supersede, Return, Revision, Settled, Bounds
  <2> QED
    BY <1>2, <1>3, <2>2 DEF Settled, Bounds
<1> QED
  BY <1>2, <1>3, <1>4, <1>5, OnlyBoundsAndCheckpoints

\* A turn starts with a new id and no prompt.
LEMMA StartTurnStep ==
  ASSUME IInv, SessionAssumption, NEW s \in Sessions, NEW t \in Turns, StartTurn(s, t)
  PROVE  IInv'
<1>1. LegalEvent(log, Event("started", t)) /\ log' = Append(log, Event("started", t))
  <2>1. ~HasEvent(log, "started", t) /\ \A u \in Turns : ~IsOpen(log, u)
    BY OpenTurns DEF StartTurn
  <2> QED
    BY <2>1 DEF LegalEvent, IsStart, StartTurn, Write
<1>2. Settled(log')
  BY <1>1, GrowthSettles DEF Grows
<1>3. Len(log') \in 0 .. Len(log')
  BY <1>2 DEF Settled
<1>4. UNCHANGED <<rev, checkpoint, plan, retry, prompt, candidate, noted>>
  BY DEF StartTurn, memory
<1>5. CASE /\ Goto(s, "starting") /\ Return(s, Revision')
           /\ turn' = [turn EXCEPT ![s] = t]
           /\ recorder' = [recorder EXCEPT ![s] = Revision']
           /\ broken' = [broken EXCEPT ![s] = FALSE]
  <2>1. Shapes'
    BY <1>4, <1>5 DEF IInv, Shapes, Goto, Labels
  <2>2. Bounds(Len(log))'
    BY <1>2, <1>3, <1>4, <1>5 DEF Settled, Bounds, Return, Revision
  <2>3. pc'[s] = "starting" /\ turn'[s] = t
    BY <1>5 DEF IInv, Shapes, Goto
  <2>4. Knowledge(log', pc'[s], turn'[s], candidate'[s], prompt'[s])
    <3>1. HasEvent(log', "started", t)
      <4>1. PICK e \in LogEvent : e = Event("started", t) /\ e.kind = "started" /\ e.turn = t
        BY EventFields, EventIsEvent DEF Kinds
      <4>2. PICK m : m = log' /\ m = Append(log, e) /\ log \in Seq(LogEvent)
        BY <1>1, <4>1 DEF IInv, SoundLog
      <4>3. HasEvent(m, "started", t) <=> HasEvent(log, "started", t) \/ (e.kind = "started" /\ e.turn = t)
        BY <4>1, <4>2, AppendedEvents
      <4> QED
        BY <4>1, <4>2, <4>3
    <3>2. Knowledge(log', pc[s], turn[s], candidate[s], prompt[s]) /\ pc[s] = "idle"
      BY <1>2 DEF Settled, LogKnown, StartTurn
    <3>3. prompt'[s] = None
      BY <1>4, <3>2 DEF Knowledge, PromptOK
    <3> QED
      BY <2>3, <3>1, <3>3 DEF Working, Knowledge, TurnOK, CandidateOK, PromptOK
  <2>5. \A r \in Sessions \ {s} :
          /\ pc'[r] = pc[r] /\ turn'[r] = turn[r] /\ candidate'[r] = candidate[r]
          /\ prompt'[r] = prompt[r] /\ checkpoint'[r] = checkpoint[r]
    BY <1>4, <1>5 DEF IInv, Shapes, Goto
  <2>6. checkpoint'[s] # 0 => log'[checkpoint'[s]].kind = "compacted"
    BY <1>2, <1>4 DEF Settled, CheckpointsKnown
  <2> QED
    BY <1>2, <2>1, <2>2, <2>4, <2>5, <2>6, OneKnows
<1>6. CASE UNCHANGED <<pc, returned, turn, recorder, broken>>
  <2>1. Shapes'
    BY <1>4, <1>6 DEF IInv, Shapes
  <2>2. Bounds(Len(log))'
    BY <1>2, <1>4, <1>6 DEF Settled, Bounds
  <2> QED
    BY <1>2, <1>4, <1>6, <2>1, <2>2, OnlyBoundsAndCheckpoints
<1> QED
  BY <1>5, <1>6 DEF StartTurn

LEMMA BuildPromptStep ==
  ASSUME IInv, SessionAssumption, NEW s \in Sessions, BuildPrompt(s)
  PROVE  IInv'
<1>1. Settled(log')
  BY GrowthSettles DEF Grows, BuildPrompt
<1>2. UNCHANGED <<log, rev, checkpoint, plan, turn, recorder, retry, broken, candidate, returned, noted>>
  BY DEF BuildPrompt, memory
<1>3. PICK q : q = [checkpoint |-> checkpoint[s], groups |-> TailGroups \ Covered(checkpoint[s])]
  OBVIOUS
<1>4. prompt' = [prompt EXCEPT ![s] = q] /\ pc' = [pc EXCEPT ![s] = "running"] /\ pc[s] = "started"
  BY <1>3 DEF BuildPrompt, Goto
<1>5. Shapes'
  BY <1>2, <1>4 DEF IInv, Shapes, Labels
<1>6. Bounds(Len(log))'
  BY <1>2 DEF IInv, Bounds
<1>7. checkpoint[s] \in 0 .. Len(log) /\ q.checkpoint = checkpoint[s]
  BY <1>3 DEF IInv, Bounds
<1>8. Holds(log, q)
  BY <1>3, <1>7, PromptHolds DEF IInv
<1>9. Knowledge(log', pc'[s], turn'[s], candidate'[s], prompt'[s])
  <2>1. TurnOK(log, "started", turn[s])
    BY <1>4 DEF IInv, LogKnown, Knowledge
  <2>2. pc'[s] = "running" /\ prompt'[s] = q
    BY <1>4 DEF IInv, Shapes
  <2>3. TurnOK(log, "running", turn[s]) /\ CandidateOK(log, "running", candidate[s])
    BY <2>1 DEF Working, TurnOK, CandidateOK
  <2>4. PromptOK(log, "running", turn[s], q)
    BY <1>7, <1>8 DEF PromptOK
  <2> QED
    BY <1>2, <2>2, <2>3, <2>4 DEF Knowledge
<1>10. \A r \in Sessions \ {s} :
         /\ pc'[r] = pc[r] /\ turn'[r] = turn[r] /\ candidate'[r] = candidate[r]
         /\ prompt'[r] = prompt[r] /\ checkpoint'[r] = checkpoint[r]
  BY <1>2, <1>4 DEF IInv, Shapes
<1>11. checkpoint'[s] # 0 => log'[checkpoint'[s]].kind = "compacted"
  BY <1>2 DEF IInv, CheckpointsKnown
<1> QED
  BY <1>1, <1>5, <1>6, <1>9, <1>10, <1>11, OneKnows

LEMMA RebaseStep ==
  ASSUME IInv, SessionAssumption, NEW s \in Sessions, NEW m \in Mutations, Rebase(s, m)
  PROVE  IInv'
<1>1. Settled(log')
  BY GrowthSettles DEF Grows, Rebase
<1>2. UNCHANGED <<log, pc, rev, checkpoint, plan, turn, broken, prompt, candidate, returned, noted>>
  BY DEF Rebase, memory
<1>3. Shapes'
  BY <1>2 DEF IInv, Shapes, Rebase
<1>4. Bounds(Len(log))'
  <2>1. Len(log) \in 0 .. Len(log)
    BY DEF IInv, SoundLog
  <2> QED
    BY <1>2, <2>1 DEF IInv, Bounds, Rebase, Revision
<1> QED
  BY <1>1, <1>2, <1>3, <1>4, OnlyBoundsAndCheckpoints

LEMMA RecordEventStep ==
  ASSUME IInv, SessionAssumption, NEW s \in Sessions, NEW m \in Mutations, RecordEvent(s, m)
  PROVE  IInv'
<1>1. Grows
  BY WorkGrows DEF RecordEvent
<1>2. Settled(log')
  BY <1>1, GrowthSettles
<1>3. UNCHANGED <<pc, rev, checkpoint, turn, broken, prompt, candidate, returned, noted>>
  BY DEF RecordEvent
<1>4. Shapes'
  <2>1. plan' \in [Sessions -> {"none", "active", "interrupted"}]
    BY DEF IInv, Shapes, RecordEvent, PlanAfter
  <2>2. retry' \in [Sessions -> Mutations \cup {"none"}]
    BY DEF IInv, Shapes, RecordEvent
  <2> QED
    BY <1>3, <2>1, <2>2 DEF IInv, Shapes
<1>5. Bounds(Len(log))'
  <2>1. Len(log') \in 0 .. Len(log')
    BY <1>2 DEF Settled
  <2>2. recorder' \in [Sessions -> 0 .. Len(log')]
    BY <1>2, <2>1 DEF RecordEvent, Revision, Settled, Bounds
  <2> QED
    BY <1>2, <1>3, <2>2 DEF Settled, Bounds
<1> QED
  BY <1>2, <1>3, <1>4, <1>5, OnlyBoundsAndCheckpoints

LEMMA RecordUsageStep ==
  ASSUME IInv, SessionAssumption, NEW s \in Sessions, RecordUsage(s)
  PROVE  IInv'
<1>1. Grows
  BY WorkGrows DEF RecordUsage, Grows
<1>2. Settled(log')
  BY <1>1, GrowthSettles
<1>3. UNCHANGED <<pc, rev, checkpoint, plan, turn, retry, prompt, candidate, noted>>
  BY DEF RecordUsage, memory
<1>4. Shapes'
  <2>1. broken' \in [Sessions -> BOOLEAN]
    BY DEF IInv, Shapes, RecordUsage
  <2> QED
    BY <1>3, <2>1 DEF IInv, Shapes
<1>5. Bounds(Len(log))'
  <2>1. Len(log') \in 0 .. Len(log')
    BY <1>2 DEF Settled
  <2>2. recorder' \in [Sessions -> 0 .. Len(log')]
    BY <1>2, <2>1 DEF RecordUsage, Revision, Settled, Bounds
  <2>3. returned' \in [Sessions -> 0 .. Len(log')]
    BY <1>2, <2>1 DEF RecordUsage, Return, Revision, Settled, Bounds
  <2> QED
    BY <1>2, <1>3, <2>2, <2>3 DEF Settled, Bounds
<1> QED
  BY <1>2, <1>3, <1>4, <1>5, OnlyBoundsAndCheckpoints

\* Ask returns with nothing in its hands.
LEMMA LeaveTurnStep ==
  ASSUME IInv, SessionAssumption, NEW s \in Sessions, Settled(log'), DropTurn(s),
         NEW p \in {"idle", "ending"}, Goto(s, p),
         returned' \in [Sessions -> 0 .. Len(log')],
         UNCHANGED <<rev, checkpoint, plan, candidate, noted>>,
         retry' \in [Sessions -> Mutations \cup {"none"}]
  PROVE  IInv'
<1>1. Shapes'
  BY DEF IInv, Shapes, DropTurn, Goto, Labels
<1>2. Bounds(Len(log))'
  <2>1. 0 \in 0 .. Len(log')
    BY DEF Settled
  <2>2. recorder' \in [Sessions -> 0 .. Len(log')]
    BY <2>1 DEF DropTurn, Settled, Bounds
  <2> QED
    BY <2>2 DEF Settled, Bounds
<1>3. pc'[s] = p /\ turn'[s] = None /\ prompt'[s] = None
  BY DEF DropTurn, Goto, IInv, Shapes
<1>4. Knowledge(log', pc'[s], turn'[s], candidate'[s], prompt'[s])
  BY <1>3 DEF Knowledge, TurnOK, CandidateOK, PromptOK
<1>5. \A r \in Sessions \ {s} :
        /\ pc'[r] = pc[r] /\ turn'[r] = turn[r] /\ candidate'[r] = candidate[r]
        /\ prompt'[r] = prompt[r] /\ checkpoint'[r] = checkpoint[r]
  BY DEF IInv, Shapes, DropTurn, Goto
<1>6. checkpoint'[s] # 0 => log'[checkpoint'[s]].kind = "compacted"
  BY DEF Settled, CheckpointsKnown
<1> QED
  BY <1>1, <1>2, <1>4, <1>5, <1>6, OneKnows

\* The state a call returned is one of the log as it is now.
LEMMA ReturnsNow ==
  ASSUME NEW s \in Sessions, Settled(log'), Return(s, Revision')
  PROVE  returned' \in [Sessions -> 0 .. Len(log')]
<1>1. Len(log') \in 0 .. Len(log')
  BY DEF Settled
<1> QED
  BY <1>1 DEF Return, Revision, Settled, Bounds

\* It goes on to reconcile from where a turn runs.
LEMMA ReconcilingStep ==
  ASSUME IInv, SessionAssumption, NEW s \in Sessions, Settled(log'), Goto(s, "reconciling"),
         pc[s] \in {"started", "running"},
         UNCHANGED <<rev, checkpoint, turn, recorder, broken, prompt, candidate, returned, noted>>,
         retry' \in [Sessions -> Mutations \cup {"none"}],
         plan' \in [Sessions -> {"none", "active", "interrupted"}]
  PROVE  IInv'
<1>1. Shapes'
  BY DEF IInv, Shapes, Goto, Labels
<1>2. Bounds(Len(log))'
  BY DEF Settled, Bounds
<1>3. pc'[s] = "reconciling"
  BY DEF Goto, IInv, Shapes
<1>4. Knowledge(log', pc'[s], turn'[s], candidate'[s], prompt'[s])
  <2>1. Knowledge(log', pc[s], turn[s], candidate[s], prompt[s])
    BY DEF Settled, LogKnown
  <2> QED
    BY <1>3, <2>1 DEF Working, Knowledge, TurnOK, CandidateOK, PromptOK
<1>5. \A r \in Sessions \ {s} :
        /\ pc'[r] = pc[r] /\ turn'[r] = turn[r] /\ candidate'[r] = candidate[r]
        /\ prompt'[r] = prompt[r] /\ checkpoint'[r] = checkpoint[r]
  BY DEF IInv, Shapes, Goto
<1>6. checkpoint'[s] # 0 => log'[checkpoint'[s]].kind = "compacted"
  BY DEF Settled, CheckpointsKnown
<1> QED
  BY <1>1, <1>2, <1>4, <1>5, <1>6, OneKnows

LEMMA EndTurnStep ==
  ASSUME IInv, SessionAssumption, NEW s \in Sessions, NEW m \in Mutations, EndTurn(s, m)
  PROVE  IInv'
<1>1. Grows
  BY EndGrows DEF EndTurn, Grows
<1>2. Settled(log')
  BY <1>1, GrowthSettles
<1>3. retry' \in [Sessions -> Mutations \cup {"none"}]
  BY DEF IInv, Shapes, EndTurn
<1>4. UNCHANGED <<rev, checkpoint, plan, candidate, noted>>
  BY DEF EndTurn, memory
<1>5. CASE LeaveTurn(s)
  <2>1. returned' \in [Sessions -> 0 .. Len(log')]
    BY <1>2, <1>5, ReturnsNow DEF LeaveTurn
  <2> QED
    BY <1>2, <1>3, <1>4, <1>5, <2>1, LeaveTurnStep DEF LeaveTurn
<1>6. CASE Goto(s, "reconciling") /\ UNCHANGED <<turn, recorder, returned, broken, prompt>>
  <2>1. pc[s] \in {"started", "running"}
    BY DEF EndTurn, MayMutate
  <2>2. plan' \in [Sessions -> {"none", "active", "interrupted"}]
    BY <1>4 DEF IInv, Shapes
  <2> QED
    BY <1>2, <1>3, <1>4, <1>6, <2>1, <2>2, ReconcilingStep
<1> QED
  BY <1>5, <1>6 DEF EndTurn

LEMMA RefuseStep ==
  ASSUME IInv, SessionAssumption, NEW s \in Sessions, NEW m \in Mutations, Refuse(s, m)
  PROVE  IInv'
<1>1. Settled(log')
  BY GrowthSettles DEF Grows, Refuse
<1>2. UNCHANGED <<log, rev, checkpoint, turn, recorder, prompt, candidate, returned, noted>>
  BY DEF Refuse
<1>3. retry' \in [Sessions -> Mutations \cup {"none"}]
  BY DEF IInv, Shapes, Refuse
<1>4. plan' \in [Sessions -> {"none", "active", "interrupted"}]
  BY DEF IInv, Shapes, Refuse, PlanAfter
<1>5. CASE m \in {"tool", "planned"}
  <2>1. UNCHANGED pc /\ broken' = [broken EXCEPT ![s] = TRUE]
    BY <1>5 DEF Refuse
  <2>2. Shapes'
    BY <1>2, <1>3, <1>4, <2>1 DEF IInv, Shapes
  <2>3. Bounds(Len(log))'
    BY <1>2 DEF IInv, Bounds
  <2> QED
    BY <1>1, <1>2, <2>1, <2>2, <2>3, OnlyBoundsAndCheckpoints
<1>6. CASE m \notin {"tool", "planned"}
  <2>1. Goto(s, "reconciling") /\ UNCHANGED broken
    BY <1>6 DEF Refuse
  <2>2. pc[s] \in {"started", "running"}
    BY DEF Refuse, MayMutate
  <2> QED
    BY <1>1, <1>2, <1>3, <1>4, <2>1, <2>2, ReconcilingStep
<1> QED
  BY <1>5, <1>6

LEMMA ReconcileStep ==
  ASSUME IInv, SessionAssumption, NEW s \in Sessions, Reconcile(s)
  PROVE  IInv'
<1>1. Grows
  BY EndGrows DEF Reconcile, Grows
<1>2. Settled(log')
  BY <1>1, GrowthSettles
<1>3. retry' \in [Sessions -> Mutations \cup {"none"}]
  BY DEF IInv, Shapes, Reconcile
<1>4. UNCHANGED <<rev, checkpoint, plan, candidate, noted>>
  BY DEF Reconcile, memory
<1>5. CASE LeaveTurn(s)
  <2>1. returned' \in [Sessions -> 0 .. Len(log')]
    BY <1>2, <1>5, ReturnsNow DEF LeaveTurn
  <2> QED
    BY <1>2, <1>3, <1>4, <1>5, <2>1, LeaveTurnStep DEF LeaveTurn
<1>6. CASE Goto(s, "idle") /\ DropTurn(s) /\ UNCHANGED returned
  <2>1. returned' \in [Sessions -> 0 .. Len(log')]
    BY <1>2, <1>6 DEF Settled, Bounds
  <2> QED
    BY <1>2, <1>3, <1>4, <1>6, <2>1, LeaveTurnStep
<1> QED
  BY <1>5, <1>6 DEF Reconcile

\* A session that has no turn and no prompt in its hands moves on with a
\* candidate that is as good as its log.
LEMMA CompactionStep ==
  ASSUME IInv, SessionAssumption, NEW s \in Sessions, Settled(log'),
         pc[s] \in {"idle", "compacting", "abandoning"},
         NEW p \in {"compacting", "abandoning", "ending"}, pc' = [pc EXCEPT ![s] = p],
         NEW c \in Candidate, candidate' = [candidate EXCEPT ![s] = c], CandidateOK(log', p, c),
         checkpoint' \in [Sessions -> 0 .. Len(log')],
         \A r \in Sessions \ {s} : checkpoint'[r] = checkpoint[r],
         checkpoint'[s] # 0 => log'[checkpoint'[s]].kind = "compacted",
         returned' \in [Sessions -> 0 .. Len(log')],
         UNCHANGED <<rev, plan, turn, recorder, retry, broken, prompt, noted>>
  PROVE  IInv'
<1>1. Shapes'
  BY DEF IInv, Shapes, Labels
<1>2. Bounds(Len(log))'
  BY DEF Settled, Bounds
<1>3. pc'[s] = p /\ candidate'[s] = c
  BY DEF IInv, Shapes
<1>4. Knowledge(log', pc'[s], turn'[s], candidate'[s], prompt'[s])
  <2>1. Knowledge(log', pc[s], turn[s], candidate[s], prompt[s])
    BY DEF Settled, LogKnown
  <2>2. TurnOK(log', p, turn[s])
    BY <2>1 DEF Working, Knowledge, TurnOK
  <2>3. PromptOK(log', p, turn[s], prompt[s])
    BY <2>1 DEF Knowledge, PromptOK
  <2> QED
    BY <1>3, <2>2, <2>3 DEF Knowledge
<1>5. \A r \in Sessions \ {s} :
        /\ pc'[r] = pc[r] /\ turn'[r] = turn[r] /\ candidate'[r] = candidate[r]
        /\ prompt'[r] = prompt[r] /\ checkpoint'[r] = checkpoint[r]
  BY DEF IInv, Shapes
<1> QED
  BY <1>1, <1>2, <1>4, <1>5, OneKnows

\* The session's checkpoint when it does not change.
LEMMA SameCheckpoint ==
  ASSUME NEW s \in Sessions, Settled(log'), UNCHANGED checkpoint
  PROVE  /\ checkpoint' \in [Sessions -> 0 .. Len(log')]
         /\ \A r \in Sessions \ {s} : checkpoint'[r] = checkpoint[r]
         /\ checkpoint'[s] # 0 => log'[checkpoint'[s]].kind = "compacted"
  BY DEF Settled, Bounds, CheckpointsKnown

LEMMA StartCompactionStep ==
  ASSUME IInv, SessionAssumption, NEW s \in Sessions, StartCompaction(s)
  PROVE  IInv'
<1>1. Grows
  BY PlainGrows DEF StartCompaction
<1>2. Settled(log')
  BY <1>1, GrowthSettles
<1>3. UNCHANGED <<rev, checkpoint, plan, turn, recorder, retry, broken, prompt, noted>>
  BY DEF StartCompaction, memory, running
<1>4. PICK P \in Candidates(s) :
        candidate' = [candidate EXCEPT ![s] =
          [rev |-> Revision', op |-> Revision', sources |-> P, tail |-> TailAfter(P), stale |-> FALSE]]
  BY DEF StartCompaction
<1>5. PICK tail : tail = TailAfter(P)
  OBVIOUS
<1>6. P \in SUBSET Turns /\ Fits(log, P, tail)
  BY <1>5, CandidatesFit DEF IInv
<1>7. PICK n : n = Len(log')
  OBVIOUS
<1>8. PICK c : c = [rev |-> n, op |-> n, sources |-> P, tail |-> tail, stale |-> FALSE]
  OBVIOUS
<1>9. candidate' = [candidate EXCEPT ![s] = c]
  BY <1>4, <1>5, <1>7, <1>8 DEF Revision
<1>10. PICK e \in LogEvent : e = Event("compacting", None) /\ e.kind = "compacting"
  BY EventIsEvent, EventFields DEF Kinds
<1>11. PICK m : m = log' /\ m = Append(log, e)
  BY <1>10 DEF StartCompaction, Write
<1>12. log \in Seq(LogEvent)
  BY DEF IInv, SoundLog
<1>13. /\ Len(m) = n /\ n = Len(log) + 1 /\ Len(log) \in Nat /\ m[n] = e
  BY <1>7, <1>11, <1>12
<1>14. Fits(m, P, tail)
  BY <1>6, <1>10, <1>11, <1>12, KeepsFits
<1>15. c \in Candidate
  <2>1. tail \in Nat
    BY <1>6, <1>13 DEF Fits
  <2> QED
    BY <1>6, <1>8, <1>13, <2>1 DEF Candidate
<1>16. CandidateOK(m, "compacting", c)
  BY <1>8, <1>10, <1>13, <1>14 DEF CandidateOK
<1>17. pc' = [pc EXCEPT ![s] = "compacting"] /\ pc[s] = "idle"
  BY DEF StartCompaction, Goto
<1>18. returned' \in [Sessions -> 0 .. Len(log')]
  <2>1. Len(log') \in 0 .. Len(log')
    BY <1>2 DEF Settled
  <2> QED
    BY <1>2, <2>1 DEF StartCompaction, Return, Revision, Settled, Bounds
<1>19. /\ checkpoint' \in [Sessions -> 0 .. Len(log')]
       /\ \A r \in Sessions \ {s} : checkpoint'[r] = checkpoint[r]
       /\ checkpoint'[s] # 0 => log'[checkpoint'[s]].kind = "compacted"
  BY <1>2, <1>3, SameCheckpoint
<1> QED
  BY <1>2, <1>3, <1>9, <1>11, <1>15, <1>16, <1>17, <1>18, <1>19, CompactionStep

\* A charge of the operation does not disturb it; any other event does, and
\* the next charge finds the candidate stale.
LEMMA ChargeCallStep ==
  ASSUME IInv, SessionAssumption, NEW s \in Sessions, ChargeCall(s)
  PROVE  IInv'
<1>1. Pending \in Nat /\ pc[s] = "compacting" /\ ~candidate[s].stale
  BY PendingIsNumber DEF IInv, ChargeCall
<1>2. Grows
  BY <1>1, ChargeGrows DEF ChargeCall, Grows
<1>3. Settled(log')
  BY <1>2, GrowthSettles
<1>4. UNCHANGED <<rev, checkpoint, plan, turn, recorder, retry, broken, prompt, noted>>
  BY DEF ChargeCall, memory, running
<1>5. /\ checkpoint' \in [Sessions -> 0 .. Len(log')]
      /\ \A r \in Sessions \ {s} : checkpoint'[r] = checkpoint[r]
      /\ checkpoint'[s] # 0 => log'[checkpoint'[s]].kind = "compacted"
  BY <1>3, <1>4, SameCheckpoint
<1>6. PICK old \in Candidate : old = candidate[s]
  BY DEF IInv, Shapes
<1>7. CASE /\ Pending = old.op /\ Write(Charge(Pending)) /\ Return(s, Revision') /\ UNCHANGED pc
           /\ candidate' = [candidate EXCEPT ![s].rev = Revision',
                                             ![s].stale = @ \/ candidate[s].rev # Revision]
  <2>1. PICK n : n = Len(log')
    OBVIOUS
  <2>2. PICK e \in LogEvent : e = Charge(old.op) /\ e.kind = "charge"
    BY <1>1, <1>7, ChargeFields
  <2>3. PICK m : m = log' /\ m = Append(log, e)
    BY <1>7, <2>2 DEF Write
  <2>4. log \in Seq(LogEvent)
    BY DEF IInv, SoundLog
  <2>5. /\ Len(m) = n /\ n = Len(log) + 1 /\ Len(log) \in Nat /\ m[n] = e
        /\ \A j \in 1 .. Len(log) : m[j] = log[j]
    BY <2>1, <2>3, <2>4
  <2>6. PICK c : c = [rev |-> n, op |-> old.op, sources |-> old.sources, tail |-> old.tail,
                      stale |-> old.rev # Len(log)]
    OBVIOUS
  <2>7. c \in Candidate
    BY <2>5, <2>6 DEF Candidate
  <2>8. candidate' = [candidate EXCEPT ![s] = c]
    <3>1. PICK a : a = [candidate EXCEPT ![s].rev = n]
      OBVIOUS
    <3>2. candidate' = [a EXCEPT ![s].stale = @ \/ old.rev # Len(log)]
      BY <1>6, <1>7, <2>1, <3>1 DEF Revision
    <3>3. PICK x : x = [old EXCEPT !.rev = n]
      OBVIOUS
    <3>4. x \in Candidate /\ x.rev = n /\ x.stale = old.stale /\ x.op = old.op
          /\ x.sources = old.sources /\ x.tail = old.tail
      BY <2>5, <3>3 DEF Candidate
    <3>5. a = [candidate EXCEPT ![s] = x] /\ a \in [Sessions -> Candidate] /\ a[s] = x
      BY <1>6, <3>1, <3>3, <3>4 DEF IInv, Shapes
    <3>6. PICK y : y = [x EXCEPT !.stale = x.stale \/ old.rev # Len(log)]
      OBVIOUS
    <3>7. candidate' = [a EXCEPT ![s] = y]
      BY <3>2, <3>5, <3>6
    <3>8. (x.stale \/ old.rev # Len(log)) = (old.rev # Len(log))
      BY <1>1, <1>6, <3>4
    <3>9. y = c
      BY <2>6, <3>4, <3>6, <3>8 DEF Candidate
    <3> QED
      BY <3>5, <3>7, <3>9 DEF IInv, Shapes
  <2>9. CandidateOK(m, "compacting", c)
    <3> SUFFICES ASSUME ~c.stale PROVE CandidateOK(m, "compacting", c)
      BY DEF CandidateOK
    <3>1. old.rev = Len(log)
      BY <2>6
    <3>2. CandidateOK(log, "compacting", old) /\ ~old.stale
      BY <1>1, <1>6 DEF IInv, LogKnown, Knowledge
    <3>3. /\ old.op \in 1 .. Len(log) /\ log[old.op].kind = "compacting"
          /\ \A j \in old.op + 1 .. Len(log) : log[j] = Charge(old.op)
          /\ Fits(log, old.sources, old.tail)
      BY <3>1, <3>2 DEF CandidateOK
    <3>4. Fits(m, old.sources, old.tail)
      BY <2>2, <2>3, <2>4, <3>3, KeepsFits
    <3>5. \A j \in old.op + 1 .. n : m[j] = Charge(old.op)
      BY <2>2, <2>5, <3>3
    <3>6. old.op \in 1 .. n /\ m[old.op].kind = "compacting"
      BY <2>5, <3>3
    <3> QED
      BY <2>5, <2>6, <3>4, <3>5, <3>6 DEF CandidateOK
  <2>10. pc' = [pc EXCEPT ![s] = "compacting"]
    BY <1>1, <1>7 DEF IInv, Shapes
  <2>11. returned' \in [Sessions -> 0 .. Len(log')]
    <3>1. Len(log') \in 0 .. Len(log')
      BY <1>3 DEF Settled
    <3> QED
      BY <1>3, <1>7, <3>1 DEF Return, Revision, Settled, Bounds
  <2> QED
    BY <1>1, <1>3, <1>4, <1>5, <2>3, <2>7, <2>8, <2>9, <2>10, <2>11, CompactionStep
<1>8. CASE Goto(s, "abandoning") /\ UNCHANGED <<log, candidate, returned>>
  <2>1. CandidateOK(log', "abandoning", old)
    BY DEF CandidateOK
  <2>2. candidate' = [candidate EXCEPT ![s] = old]
    BY <1>6, <1>8 DEF IInv, Shapes
  <2>3. pc' = [pc EXCEPT ![s] = "abandoning"]
    BY <1>8 DEF Goto
  <2>4. returned' \in [Sessions -> 0 .. Len(log')]
    BY <1>3, <1>8 DEF Settled, Bounds
  <2> QED
    BY <1>1, <1>3, <1>4, <1>5, <2>1, <2>2, <2>3, <2>4, CompactionStep
<1> QED
  BY <1>6, <1>7, <1>8 DEF ChargeCall

\* A checkpoint is installed at the candidate's revision, where it fits.
LEMMA InstallCheckpointStep ==
  ASSUME IInv, SessionAssumption, NEW s \in Sessions, InstallCheckpoint(s)
  PROVE  IInv'
<1>1. PICK c \in Candidate : c = candidate[s]
  BY DEF IInv, Shapes
<1>2. /\ pc[s] = "compacting" /\ ~c.stale /\ c.rev = Len(log) /\ Pending = c.op
      /\ UNCHANGED <<rev, plan, turn, recorder, retry, broken, prompt, noted>>
  BY <1>1 DEF InstallCheckpoint, Revision, running
<1>3. PICK e : e = Compacted(c.op, c.sources, c.tail)
  OBVIOUS
<1>4. c.op \in Nat /\ c.sources \in SUBSET Turns /\ c.tail \in Nat
  BY DEF Candidate
<1>5. log' = Append(log, e)
  BY <1>1, <1>2, <1>3 DEF InstallCheckpoint, Write
<1>6. CandidateOK(log, "compacting", c)
  BY <1>1, <1>2 DEF IInv, LogKnown, Knowledge
<1>7. Undisturbed(log, c.op) /\ Fits(log, c.sources, c.tail)
  BY <1>2, <1>6 DEF CandidateOK, Undisturbed
<1>8. IsCheckpoint(log, e)
  BY <1>3, <1>4, <1>7 DEF IsCheckpoint
<1>9. Settled(log')
  BY <1>5, <1>8, GrowthSettles DEF Grows, LegalEvent
<1>10. e \in LogEvent /\ e.kind = "compacted"
  BY <1>3, <1>4, CompactedFields
<1>11. log \in Seq(LogEvent)
  BY DEF IInv, SoundLog
<1>12. /\ Len(log') = Len(log) + 1 /\ Len(log) \in Nat /\ log'[Len(log')] = e
  BY <1>5, <1>10, <1>11
<1>13. CASE /\ checkpoint' = [checkpoint EXCEPT ![s] = Revision']
            /\ candidate' = [candidate EXCEPT ![s] = Idle]
            /\ Return(s, Revision') /\ Goto(s, "ending")
  <2>1. Len(log') \in 0 .. Len(log') /\ Len(log') # 0
    BY <1>12
  <2>2. checkpoint' \in [Sessions -> 0 .. Len(log')] /\ returned' \in [Sessions -> 0 .. Len(log')]
    BY <1>9, <1>13, <2>1 DEF Settled, Bounds, Return, Revision
  <2>3. checkpoint'[s] = Len(log') /\ \A r \in Sessions \ {s} : checkpoint'[r] = checkpoint[r]
    BY <1>13 DEF IInv, Bounds, Revision
  <2>4. log'[checkpoint'[s]].kind = "compacted"
    BY <1>10, <1>12, <2>3
  <2>5. Idle \in Candidate /\ CandidateOK(log', "ending", Idle)
    BY DEF Idle, Candidate, CandidateOK
  <2>6. pc' = [pc EXCEPT ![s] = "ending"]
    BY <1>13 DEF Goto
  <2> QED
    BY <1>2, <1>9, <1>13, <2>2, <2>3, <2>4, <2>5, <2>6, CompactionStep
<1>14. CASE Goto(s, "abandoning") /\ UNCHANGED <<checkpoint, candidate, returned>>
  <2>1. CandidateOK(log', "abandoning", c)
    BY DEF CandidateOK
  <2>2. candidate' = [candidate EXCEPT ![s] = c]
    BY <1>1, <1>14 DEF IInv, Shapes
  <2>3. pc' = [pc EXCEPT ![s] = "abandoning"]
    BY <1>14 DEF Goto
  <2>4. returned' \in [Sessions -> 0 .. Len(log')]
    BY <1>9, <1>14 DEF Settled, Bounds
  <2>5. /\ checkpoint' \in [Sessions -> 0 .. Len(log')]
        /\ \A r \in Sessions \ {s} : checkpoint'[r] = checkpoint[r]
        /\ checkpoint'[s] # 0 => log'[checkpoint'[s]].kind = "compacted"
    BY <1>9, <1>14, SameCheckpoint
  <2> QED
    BY <1>2, <1>9, <2>1, <2>2, <2>3, <2>4, <2>5, CompactionStep
<1> QED
  BY <1>13, <1>14 DEF InstallCheckpoint

LEMMA AbandonCompactionStep ==
  ASSUME IInv, SessionAssumption, NEW s \in Sessions, AbandonCompaction(s)
  PROVE  IInv'
<1>1. Grows
  <2>1. Pending \in Nat
    BY PendingIsNumber DEF IInv
  <2> QED
    BY <2>1, ChargeGrows DEF AbandonCompaction, Grows
<1>2. Settled(log')
  BY <1>1, GrowthSettles
<1>3. /\ UNCHANGED <<rev, checkpoint, plan, turn, recorder, retry, broken, prompt, noted>>
      /\ pc[s] \in {"compacting", "abandoning"}
      /\ candidate' = [candidate EXCEPT ![s] = Idle]
  BY DEF AbandonCompaction, memory, running
<1>4. /\ checkpoint' \in [Sessions -> 0 .. Len(log')]
      /\ \A r \in Sessions \ {s} : checkpoint'[r] = checkpoint[r]
      /\ checkpoint'[s] # 0 => log'[checkpoint'[s]].kind = "compacted"
  BY <1>2, <1>3, SameCheckpoint
<1>5. Idle \in Candidate /\ CandidateOK(log', "ending", Idle)
  BY DEF Idle, Candidate, CandidateOK
<1>6. pc' = [pc EXCEPT ![s] = "ending"]
  BY DEF AbandonCompaction, Goto
<1>7. returned' \in [Sessions -> 0 .. Len(log')]
  <2>1. Len(log') \in 0 .. Len(log')
    BY <1>2 DEF Settled
  <2> QED
    BY <1>2, <2>1 DEF AbandonCompaction, Return, Revision, Settled, Bounds
<1> QED
  BY <1>2, <1>3, <1>4, <1>5, <1>6, <1>7, CompactionStep

-----------------------------------------------------------------------------
(* The inductive invariant, and what follows from it.                      *)

LEMMA InitIInv ==
  ASSUME Init, SessionAssumption
  PROVE  IInv
<1>1. SoundLog(log) /\ Len(log) \in Nat
  BY DEF Init, SessionAssumption, SoundLog
<1>2. Idle \in Candidate
  BY DEF Idle, Candidate
<1>3. Shapes
  BY <1>2 DEF Init, Shapes, Labels
<1>4. Bounds(Len(log))
  BY <1>1 DEF Init, Bounds
<1>5. CheckpointsKnown(log)
  BY DEF Init, CheckpointsKnown
<1>6. LogKnown(log)
  BY DEF Init, LogKnown, Knowledge, TurnOK, CandidateOK, PromptOK
<1> QED
  BY <1>1, <1>3, <1>4, <1>5, <1>6 DEF IInv

LEMMA StutterStep ==
  ASSUME IInv, UNCHANGED vars
  PROVE  IInv'
<1>1. UNCHANGED <<log, pc, rev, checkpoint, plan, turn, recorder, retry, broken, prompt, candidate,
                  returned, noted>>
  BY DEF vars, memory, running
<1>2. Shapes'
  BY <1>1 DEF IInv, Shapes
<1>3. Bounds(Len(log))'
  BY <1>1 DEF IInv, Bounds
<1>4. CheckpointsKnown(log)'
  BY <1>1 DEF IInv, CheckpointsKnown
<1>5. LogKnown(log)'
  BY <1>1 DEF IInv, LogKnown
<1> QED
  BY <1>1, <1>2, <1>3, <1>4, <1>5 DEF IInv

LEMMA NextStep ==
  ASSUME IInv, SessionAssumption, [Next]_vars
  PROVE  IInv'
<1>1. CASE UNCHANGED vars
  BY <1>1, StutterStep
<1>2. ASSUME NEW s \in Sessions, Step(s) PROVE IInv'
  <2>1. CASE RecoverTurn(s)
    BY <2>1, RecoverTurnStep
  <2>2. CASE RecoverCompaction(s)
    BY <2>2, RecoverCompactionStep
  <2>3. CASE Open(s)
    BY <2>3, OpenStep
  <2>4. CASE Crash(s)
    BY <2>4, CrashStep
  <2>5. CASE Interrupt(s)
    BY <2>5, InterruptStep
  <2>6. CASE ApplyInterrupt(s)
    BY <2>6, ApplyInterruptStep
  <2>7. CASE Supersede(s)
    BY <2>7, SupersedeStep
  <2>8. ASSUME NEW t \in Turns, StartTurn(s, t) PROVE IInv'
    BY <2>8, StartTurnStep
  <2>9. CASE StartCompaction(s)
    BY <2>9, StartCompactionStep
  <2>10. CASE Apply(s)
    BY <2>10, ApplyStep
  <2>11. CASE BuildPrompt(s)
    BY <2>11, BuildPromptStep
  <2>12. ASSUME NEW m \in Mutations, Rebase(s, m) PROVE IInv'
    BY <2>12, RebaseStep
  <2>13. ASSUME NEW m \in Mutations, RecordEvent(s, m) PROVE IInv'
    BY <2>13, RecordEventStep
  <2>14. ASSUME NEW m \in Mutations, EndTurn(s, m) PROVE IInv'
    BY <2>14, EndTurnStep
  <2>15. ASSUME NEW m \in Mutations, Refuse(s, m) PROVE IInv'
    BY <2>15, RefuseStep
  <2>16. CASE RecordUsage(s)
    BY <2>16, RecordUsageStep
  <2>17. CASE Reconcile(s)
    BY <2>17, ReconcileStep
  <2>18. CASE ChargeCall(s)
    BY <2>18, ChargeCallStep
  <2>19. CASE InstallCheckpoint(s)
    BY <2>19, InstallCheckpointStep
  <2>20. CASE AbandonCompaction(s)
    BY <2>20, AbandonCompactionStep
  <2>21. CASE RefusedCall(s)
    BY <2>21, StutterStep DEF RefusedCall
  <2>22. CASE Continue(s)
    BY <2>10, <2>11, <2>12, <2>13, <2>14, <2>15, <2>16, <2>17, <2>18, <2>19, <2>20, <2>22
    DEF Continue
  <2> QED
    BY <1>2, <2>1, <2>2, <2>3, <2>4, <2>5, <2>6, <2>7, <2>8, <2>9, <2>21, <2>22 DEF Step
<1> QED
  BY <1>1, <1>2 DEF Next

LEMMA Inductive == Spec => []IInv
<1>1. Init => IInv
  BY SessionAssumption, InitIInv
<1>2. IInv /\ [Next]_vars => IInv'
  BY SessionAssumption, NextStep
<1> QED
  BY <1>1, <1>2, PTL DEF Spec

\* The parts of the checkpoints' soundness.
LEMMA TypesFollow ==
  ASSUME IInv
  PROVE  TypeOK
<1>1. log \in Seq(LogEvent) /\ Len(log) \in Nat
  BY DEF IInv, SoundLog
<1>2. \A i \in DOMAIN log : log[i].turn \in Turns \cup {None} /\ log[i].sources \subseteq Turns
  <2>1. \A i \in DOMAIN log : log[i] \in LogEvent
    BY <1>1
  <2> QED
    BY <2>1 DEF LogEvent
<1>3. {rev, checkpoint, recorder, returned, noted} \subseteq [Sessions -> 0 .. Revision]
  BY DEF IInv, Bounds, Revision
<1> QED
  BY <1>2, <1>3 DEF TypeOK, IInv, Shapes, CheckpointsKnown

LEMMA CoverageFollows ==
  ASSUME IInv, SessionAssumption
  PROVE  CoverageIsAPrefix
<1>0. SoundLog(log) /\ log \in Seq(LogEvent) /\ CheckpointsInOrder(log) /\ TurnsInOrder(log)
      /\ DOMAIN log = 1 .. Len(log) /\ Len(log) \in Nat
  BY DEF IInv, SoundLog
<1>1. ASSUME NEW i \in DOMAIN log, log[i].kind = "compacted"
      PROVE  /\ \A t \in log[i].sources : \E j \in 1 .. i : log[j] = Event("committed", t)
             /\ log[i].sources \cap Covered(i - 1) = {}
  BY <1>0, <1>1 DEF CheckpointsInOrder, Covered
<1>2. ASSUME NEW c \in Covered(ActiveCheckpoint), NEW t \in Uncovered PROVE StartOf(c) < StartOf(t)
  <2>1. PICK cp : cp = ActiveCheckpoint /\ cp \in 0 .. Len(log)
    BY <1>0, ActiveIsLast
  <2>2. PICK i \in 1 .. cp : log[i].kind = "compacted" /\ c \in log[i].sources
    BY <1>2, <2>1 DEF Covered, CoveredIn
  <2>3. i \in DOMAIN log /\ i \in Nat /\ i <= cp /\ cp \in Nat
    BY <1>0, <2>1
  <2>4. CheckpointInOrder(log, i)
    BY <1>0, <2>2, <2>3, CheckpointsOneByOne
  <2>5. PICK j \in 1 .. i : log[j] = Event("committed", c)
    BY <2>2, <2>4 DEF CheckpointInOrder
  <2>6. c \in Turns /\ HasEvent(log, "committed", c)
    <3>1. j \in DOMAIN log /\ log[j].kind = "committed" /\ log[j].turn = c
      BY <1>0, <2>3, <2>5, EventFields
    <3>2. log[j] \in LogEvent /\ c # None
      BY <1>0, <3>1 DEF TurnsInOrder
    <3> QED
      BY <3>1, <3>2 DEF LogEvent, HasEvent
  <2>7. t \in Turns /\ HasEvent(log, "committed", t) /\ t \notin CoveredIn(log, cp)
    BY <2>1, OpenTurns DEF Uncovered, Covered
  <2>8. t \notin CoveredIn(log, i)
    BY <1>0, <2>3, <2>7, CoverGrows
  <2>9. StartsBefore(log, c, t)
    <3>1. PICK n \in DOMAIN log : log[n].kind = "committed" /\ log[n].turn = t
      BY <2>7 DEF HasEvent
    <3> QED
      BY <2>2, <2>4, <2>8, <3>1 DEF CheckpointInOrder
  <2>10. /\ StartOf(c) \in DOMAIN log /\ Starts(log[StartOf(c)], c)
         /\ StartOf(t) \in DOMAIN log /\ Starts(log[StartOf(t)], t)
    BY <1>0, <2>6, <2>7, StartExists
  <2> QED
    BY <2>9, <2>10 DEF StartsBefore
<1> QED
  BY <1>1, <1>2 DEF CoverageIsAPrefix

LEMMA DiscardFollows ==
  ASSUME IInv
  PROVE  StaleCandidatesAreDiscarded
  BY DEF IInv, SoundLog, CheckpointsInOrder, StaleCandidatesAreDiscarded

\* Where no process compacts during another one's turn, operations begin
\* between turns.
LEMMA QuietIsBetween ==
  ASSUME SoundLog(log), SessionAssumption, \A i \in DOMAIN log : log[i].kind = "compacting" => ~DuringTurn(i)
  PROVE  BetweenTurns(log)
<1>0. log \in Seq(LogEvent) /\ TurnsInOrder(log) /\ DOMAIN log = 1 .. Len(log) /\ Len(log) \in Nat
  BY DEF SoundLog
<1>1. ASSUME NEW i \in DOMAIN log, NEW k \in DOMAIN log,
             log[i].kind = "compacting", k < i, log[k].kind = "started"
      PROVE  \E n \in k .. i : Closes(log[n], log[k].turn)
  <2>1. PICK t : t = log[k].turn
    OBVIOUS
  <2>2. log[k] = Event("started", t) /\ t # None /\ log[k] \in LogEvent
    BY <1>0, <1>1, <2>1 DEF TurnsInOrder
  <2>3. t \in Turns /\ k \in 1 .. i
    BY <1>0, <1>1, <2>1, <2>2 DEF LogEvent
  <2>4. PICK n \in k .. i : log[n] \in {Event("committed", t), Event("failed", t)}
    BY <1>1, <2>2, <2>3 DEF DuringTurn
  <2> QED
    BY <2>1, <2>4, EventFields DEF Closes
<1> QED
  BY <1>1 DEF BetweenTurns

LEMMA ContextFollows ==
  ASSUME IInv, SessionAssumption
  PROVE  ContextIsWhole
<1>0. SoundLog(log) /\ TurnsInOrder(log) /\ log \in Seq(LogEvent)
  BY DEF IInv, SoundLog
<1> SUFFICES ASSUME \A i \in DOMAIN log : log[i].kind = "compacting" => ~DuringTurn(i)
             PROVE  PromptIsComplete /\ OpenTurnIsVisible
  BY DEF ContextIsWhole
<1>1. BetweenTurns(log)
  BY <1>0, QuietIsBetween
<1>2. ASSUME NEW s \in Sessions, prompt[s] # None, turn[s] \in OpenTurn,
             prompt[s].checkpoint = ActiveCheckpoint
      PROVE  Committed \subseteq prompt[s].groups \cup Covered(prompt[s].checkpoint)
  <2>1. PromptOK(log, pc[s], turn[s], prompt[s])
    BY DEF IInv, LogKnown, Knowledge
  <2>2. IsOpen(log, turn[s])
    BY <1>2, OpenTurns
  <2>3. Holds(log, prompt[s])
    BY <1>2, <2>1, <2>2 DEF PromptOK
  <2>4. IsLast(log, prompt[s].checkpoint)
    BY <1>0, <1>2, ActiveIsLast
  <2> QED
    BY <1>1, <2>3, <2>4, OpenTurns DEF Holds, Covered
<1>3. ASSUME NEW t \in OpenTurn PROVE InTail(t)
  <2>1. t \in Turns /\ IsOpen(log, t)
    BY OpenTurns
  <2>2. t \notin CoveredIn(log, ActiveCheckpoint)
    <3> SUFFICES ASSUME t \in CoveredIn(log, ActiveCheckpoint) PROVE FALSE
      OBVIOUS
    <3>1. PICK cp : cp = ActiveCheckpoint /\ cp \in 0 .. Len(log)
      BY <1>0, ActiveIsLast
    <3>2. PICK i \in 1 .. cp : log[i].kind = "compacted" /\ t \in log[i].sources
      BY <3>1 DEF CoveredIn
    <3>3. i \in DOMAIN log /\ i \in 1 .. Len(log)
      BY <1>0, <3>1
    <3>4. CheckpointInOrder(log, i)
      BY <1>0, <3>2, <3>3, CheckpointsOneByOne DEF SoundLog
    <3>5. PICK j \in 1 .. i : log[j] = Event("committed", t)
      BY <3>2, <3>4 DEF CheckpointInOrder
    <3>6. j \in DOMAIN log /\ log[j].kind = "committed" /\ log[j].turn = t
      BY <1>0, <3>3, <3>5, EventFields
    <3> QED
      BY <2>1, <3>6 DEF IsOpen, HasEvent
  <2> QED
    BY <1>0, <1>1, <2>1, <2>2, TailIsWhole DEF IsOpen
<1>4. PromptIsComplete
  BY <1>2 DEF PromptIsComplete
<1>5. OpenTurnIsVisible
  BY <1>3 DEF OpenTurnIsVisible, VisibleTurn
<1> QED
  BY <1>4, <1>5

-----------------------------------------------------------------------------
(* Every open turn has an operation that works on it, or was orphaned.     *)

\* Only turn.started opens a turn.
LEMMA OpensNothing ==
  ASSUME IInv, NEW e \in LogEvent, e.kind # "started", Write(e)
  PROVE  \A t : IsOpen(log', t) => IsOpen(log, t)
<1>1. PICK m : m = log' /\ m = Append(log, e) /\ log \in Seq(LogEvent)
  BY DEF Write, IInv, SoundLog
<1>2. ASSUME NEW t, IsOpen(m, t) PROVE IsOpen(log, t)
  <2>1. HasEvent(log, "started", t)
    <3>1. HasEvent(m, "started", t) <=> HasEvent(log, "started", t) \/ (e.kind = "started" /\ e.turn = t)
      BY <1>1, AppendedEvents
    <3> QED
      BY <1>2, <3>1 DEF IsOpen
  <2>2. ASSUME NEW kind \in {"committed", "failed"} PROVE ~HasEvent(log, kind, t)
    <3>1. HasEvent(m, kind, t) <=> HasEvent(log, kind, t) \/ (e.kind = kind /\ e.turn = t)
      BY <1>1, AppendedEvents
    <3> QED
      BY <1>2, <3>1 DEF IsOpen
  <2> QED
    BY <2>1, <2>2 DEF IsOpen
<1> QED
  BY <1>1, <1>2

\* What an operation lets go of is closed or orphaned.
OpensNone == \A t \in Turns : IsOpen(log', t) => IsOpen(log, t)
LetsGo(s) ==
  \/ turn'[s] = turn[s]
  \/ turn[s] # None => turn[s] \in orphaned' \/ ~IsOpen(log', turn[s])

LEMMA KeepsOwned ==
  ASSUME IInv', ReturnedTurnsAreEnded, OpensNone, \A s \in Sessions : LetsGo(s),
         orphaned \subseteq orphaned', None \notin Turns
  PROVE  ReturnedTurnsAreEnded'
<1>1. ASSUME NEW t \in Turns, IsOpen(log', t)
      PROVE  t \in orphaned' \/ \E s \in Sessions : turn'[s] = t /\ pc'[s] \in Working
  <2>1. t \in OpenTurn
    BY <1>1, OpenTurns DEF OpensNone
  <2>2. t \in orphaned \/ \E s \in Sessions : turn[s] = t
    BY <2>1 DEF ReturnedTurnsAreEnded
  <2>3. ASSUME NEW s \in Sessions, turn[s] = t PROVE t \in orphaned' \/ turn'[s] = t
    BY <1>1, <2>3 DEF LetsGo
  <2>4. ASSUME NEW s \in Sessions, turn'[s] = t PROVE pc'[s] \in Working
    BY <2>4 DEF IInv, LogKnown, Knowledge, TurnOK
  <2> QED
    BY <2>2, <2>3, <2>4
<1>2. OpenTurn' = {t \in Turns : IsOpen(log', t)}
  BY DEF OpenTurn, Ended, Has, IsOpen, HasEvent
<1> QED
  BY <1>1, <1>2 DEF ReturnedTurnsAreEnded

\* Only the steps below change turn; what the others write opens nothing.
QuietStep(s) ==
  \/ RecoverTurn(s) \/ RecoverCompaction(s) \/ Open(s) \/ Interrupt(s) \/ ApplyInterrupt(s)
  \/ Supersede(s) \/ StartCompaction(s) \/ Apply(s) \/ BuildPrompt(s)
  \/ \E m \in Mutations : Rebase(s, m) \/ RecordEvent(s, m) \/ Refuse(s, m)
  \/ RecordUsage(s) \/ ChargeCall(s) \/ InstallCheckpoint(s) \/ AbandonCompaction(s)

LEMMA QuietWrites ==
  ASSUME IInv, SessionAssumption, NEW s \in Sessions, QuietStep(s)
  PROVE  log' = log \/ \E e \in LogEvent : e.kind # "started" /\ Write(e)
<1>1. /\ \A kind \in Kinds \ {"started"}, t \in Turns \cup {None} :
           Event(kind, t) \in LogEvent /\ Event(kind, t).kind # "started"
      /\ \A op \in Nat : /\ Charge(op) \in LogEvent /\ Charge(op).kind # "started"
                         /\ Abandoned(op) \in LogEvent /\ Abandoned(op).kind # "started"
  BY EventIsEvent, EventFields, ChargeFields, AbandonedFields
<1>2. Pending \in Nat /\ OpenTurn \subseteq Turns
  BY PendingIsNumber DEF IInv, OpenTurn
<1>3. CASE RecoverTurn(s)
  BY <1>1, <1>2, <1>3 DEF RecoverTurn, Kinds
<1>4. CASE RecoverCompaction(s) \/ ChargeCall(s) \/ AbandonCompaction(s)
  BY <1>1, <1>2, <1>4 DEF RecoverCompaction, ChargeCall, AbandonCompaction
<1>5. CASE Interrupt(s) \/ Supersede(s) \/ StartCompaction(s)
  BY <1>1, <1>5 DEF Interrupt, Supersede, StartCompaction, Kinds
<1>6. ASSUME NEW m \in Mutations, RecordEvent(s, m)
      PROVE  log' = log \/ \E e \in LogEvent : e.kind # "started" /\ Write(e)
  BY <1>1, <1>2, <1>6 DEF RecordEvent, Kinds
<1>7. CASE RecordUsage(s)
  BY <1>1, <1>2, <1>7 DEF RecordUsage, Kinds
<1>8. CASE InstallCheckpoint(s)
  <2>1. PICK c \in Candidate : c = candidate[s]
    BY DEF IInv, Shapes
  <2>2. c.sources \in SUBSET Turns /\ c.tail \in Nat
    BY DEF Candidate
  <2>3. PICK e : e = Compacted(Pending, c.sources, c.tail)
    OBVIOUS
  <2>4. e \in LogEvent /\ e.kind = "compacted"
    BY <1>2, <2>2, <2>3, CompactedFields
  <2> QED
    BY <1>8, <2>1, <2>3, <2>4 DEF InstallCheckpoint
<1>9. ASSUME \/ Open(s) \/ ApplyInterrupt(s) \/ Apply(s) \/ BuildPrompt(s)
             \/ \E m \in Mutations : Rebase(s, m) \/ Refuse(s, m)
      PROVE  log' = log
  BY <1>9 DEF Open, ApplyInterrupt, Apply, BuildPrompt, Rebase, Refuse
<1> QED
  BY <1>3, <1>4, <1>5, <1>6, <1>7, <1>8, <1>9 DEF QuietStep

LEMMA QuietTurns ==
  ASSUME NEW s \in Sessions, QuietStep(s)
  PROVE  UNCHANGED <<turn, orphaned>>
<1>1. CASE RecoverTurn(s) \/ RecoverCompaction(s) \/ Open(s) \/ Interrupt(s) \/ ApplyInterrupt(s)
  BY <1>1 DEF RecoverTurn, RecoverCompaction, Open, Interrupt, ApplyInterrupt, running, faults
<1>2. CASE Supersede(s) \/ StartCompaction(s) \/ Apply(s) \/ BuildPrompt(s)
  BY <1>2 DEF Supersede, StartCompaction, Apply, BuildPrompt, running, faults
<1>3. ASSUME NEW m \in Mutations, Rebase(s, m) \/ RecordEvent(s, m) \/ Refuse(s, m)
      PROVE  UNCHANGED <<turn, orphaned>>
  BY <1>3 DEF Rebase, RecordEvent, Refuse, faults
<1>4. CASE RecordUsage(s) \/ ChargeCall(s) \/ InstallCheckpoint(s) \/ AbandonCompaction(s)
  BY <1>4 DEF RecordUsage, ChargeCall, InstallCheckpoint, AbandonCompaction, running, faults
<1> QED
  BY <1>1, <1>2, <1>3, <1>4 DEF QuietStep

\* A turn that starts is the session's, or orphaned by its own append.
LEMMA StartOwned ==
  ASSUME IInv, IInv', SessionAssumption, ReturnedTurnsAreEnded,
         NEW s \in Sessions, NEW t \in Turns, StartTurn(s, t)
  PROVE  ReturnedTurnsAreEnded'
<1>1. PICK e \in LogEvent : e = Event("started", t) /\ e.kind = "started" /\ e.turn = t
  BY EventFields, EventIsEvent DEF Kinds
<1>2. PICK m : m = log' /\ m = Append(log, e) /\ log \in Seq(LogEvent)
  BY <1>1 DEF StartTurn, Write, IInv, SoundLog
<1>3. ASSUME NEW u \in Turns, u # t, IsOpen(m, u) PROVE FALSE
  <2>1. ASSUME NEW kind PROVE HasEvent(m, kind, u) <=> HasEvent(log, kind, u)
    <3>1. HasEvent(m, kind, u) <=> HasEvent(log, kind, u) \/ (e.kind = kind /\ e.turn = u)
      BY <1>2, AppendedEvents
    <3> QED
      BY <1>1, <1>3, <3>1
  <2>2. IsOpen(log, u)
    BY <1>3, <2>1 DEF IsOpen
  <2> QED
    BY <2>2, OpenTurns DEF StartTurn
<1>4. t \in orphaned' \/ \E r \in Sessions : turn'[r] = t /\ pc'[r] \in Working
  <2>1. t \in orphaned' \/ (Goto(s, "starting") /\ turn' = [turn EXCEPT ![s] = t])
    BY DEF StartTurn
  <2>2. ASSUME Goto(s, "starting"), turn' = [turn EXCEPT ![s] = t]
        PROVE  turn'[s] = t /\ pc'[s] \in Working
    BY <2>2 DEF IInv, Shapes, Goto, Working
  <2> QED
    BY <2>1, <2>2
<1>5. OpenTurn' = {u \in Turns : IsOpen(log', u)}
  BY DEF OpenTurn, Ended, Has, IsOpen, HasEvent
<1> QED
  BY <1>2, <1>3, <1>4, <1>5 DEF ReturnedTurnsAreEnded

\* An event that ends turn t opens no other.
LEMMA EndOpensNone ==
  ASSUME IInv, SessionAssumption, NEW kind \in {"committed", "failed"}, NEW t \in OpenTurn,
         Write(Event(kind, t))
  PROVE  OpensNone /\ ~IsOpen(log', t)
<1>1. t \in Turns
  BY DEF OpenTurn
<1>2. PICK e \in LogEvent : e = Event(kind, t) /\ e.kind # "started"
  BY <1>1, EventFields, EventIsEvent DEF Kinds
<1>3. OpensNone
  BY <1>2, OpensNothing DEF OpensNone
<1> QED
  BY <1>3, EndGrows

LEMMA EndTurnOwned ==
  ASSUME IInv, IInv', SessionAssumption, ReturnedTurnsAreEnded,
         NEW s \in Sessions, NEW m \in Mutations, EndTurn(s, m)
  PROVE  ReturnedTurnsAreEnded'
<1>1. m \in {"committed", "failed"} /\ turn[s] \in OpenTurn /\ orphaned' = orphaned
  BY DEF EndTurn
<1>2. CASE Write(Event(m, turn[s])) /\ LeaveTurn(s)
  <2>1. OpensNone /\ ~IsOpen(log', turn[s])
    BY <1>1, <1>2, EndOpensNone
  <2>2. \A r \in Sessions : r # s => turn'[r] = turn[r]
    BY <1>2 DEF LeaveTurn, DropTurn, IInv, Shapes
  <2>3. \A r \in Sessions : LetsGo(r)
    BY <2>1, <2>2 DEF LetsGo
  <2> QED
    BY <1>1, <2>1, <2>3, KeepsOwned, SessionAssumption DEF SessionAssumption
<1>3. CASE (Write(Event(m, turn[s])) \/ UNCHANGED log) /\ UNCHANGED turn
  <2>1. OpensNone
    <3>1. CASE Write(Event(m, turn[s]))
      BY <1>1, <3>1, EndOpensNone
    <3>2. CASE UNCHANGED log
      BY <3>2 DEF OpensNone
    <3> QED
      BY <1>3, <3>1, <3>2
  <2>2. \A r \in Sessions : LetsGo(r)
    BY <1>3 DEF LetsGo
  <2> QED
    BY <1>1, <2>1, <2>2, KeepsOwned DEF SessionAssumption
<1> QED
  BY <1>2, <1>3 DEF EndTurn

LEMMA ReconcileOwned ==
  ASSUME IInv, IInv', SessionAssumption, ReturnedTurnsAreEnded, NEW s \in Sessions, Reconcile(s)
  PROVE  ReturnedTurnsAreEnded'
<1>1. DropTurn(s) /\ orphaned \subseteq orphaned'
  BY DEF Reconcile, LeaveTurn, faults
<1>2. \A r \in Sessions : r # s => turn'[r] = turn[r]
  BY <1>1 DEF DropTurn, IInv, Shapes
<1>3. CASE turn[s] \in OpenTurn /\ Write(Event("failed", turn[s]))
  <2>1. OpensNone /\ ~IsOpen(log', turn[s])
    BY <1>3, EndOpensNone
  <2>2. \A r \in Sessions : LetsGo(r)
    BY <1>2, <2>1 DEF LetsGo
  <2> QED
    BY <1>1, <2>1, <2>2, KeepsOwned DEF SessionAssumption
<1>4. CASE log' = log /\ (turn[s] \in OpenTurn => turn[s] \in orphaned')
  <2>1. OpensNone
    BY <1>4 DEF OpensNone
  <2>2. turn[s] # None => turn[s] \in orphaned' \/ ~IsOpen(log', turn[s])
    <3>1. turn[s] \in Turns \cup {None}
      BY DEF IInv, Shapes
    <3> QED
      BY <1>4, <3>1, OpenTurns
  <2>3. \A r \in Sessions : LetsGo(r)
    BY <1>2, <2>2 DEF LetsGo
  <2> QED
    BY <1>1, <2>1, <2>3, KeepsOwned DEF SessionAssumption
<1> QED
  BY <1>3, <1>4 DEF Reconcile

LEMMA CrashOwned ==
  ASSUME IInv, IInv', SessionAssumption, ReturnedTurnsAreEnded, NEW s \in Sessions, Crash(s)
  PROVE  ReturnedTurnsAreEnded'
<1>1. log' = log /\ orphaned' = orphaned \cup ({turn[s]} \cap OpenTurn)
  BY DEF Crash
<1>2. \A r \in Sessions : r # s => turn'[r] = turn[r]
  BY DEF Crash, IInv, Shapes
<1>3. OpensNone
  BY <1>1 DEF OpensNone
<1>4. turn[s] # None => turn[s] \in orphaned' \/ ~IsOpen(log', turn[s])
  <2>1. turn[s] \in Turns \cup {None}
    BY DEF IInv, Shapes
  <2> QED
    BY <1>1, <2>1, OpenTurns
<1>5. \A r \in Sessions : LetsGo(r)
  BY <1>2, <1>4 DEF LetsGo
<1> QED
  BY <1>1, <1>3, <1>5, KeepsOwned DEF SessionAssumption

LEMMA OwnedStep ==
  ASSUME IInv, IInv', SessionAssumption, ReturnedTurnsAreEnded, [Next]_vars
  PROVE  ReturnedTurnsAreEnded'
<1>0. None \notin Turns
  BY DEF SessionAssumption
<1>1. ASSUME log' = log, UNCHANGED <<turn, orphaned>> PROVE ReturnedTurnsAreEnded'
  <2>1. OpensNone /\ \A r \in Sessions : LetsGo(r)
    BY <1>1 DEF OpensNone, LetsGo
  <2> QED
    BY <1>0, <1>1, <2>1, KeepsOwned
<1>2. CASE UNCHANGED vars
  BY <1>1, <1>2 DEF vars, running, faults
<1>3. ASSUME NEW s \in Sessions, QuietStep(s) PROVE ReturnedTurnsAreEnded'
  <2>1. UNCHANGED <<turn, orphaned>>
    BY <1>3, QuietTurns
  <2>2. ASSUME NEW e \in LogEvent, e.kind # "started", Write(e) PROVE ReturnedTurnsAreEnded'
    <3>1. OpensNone
      BY <2>2, OpensNothing DEF OpensNone
    <3>2. \A r \in Sessions : LetsGo(r)
      BY <2>1 DEF LetsGo
    <3> QED
      BY <1>0, <2>1, <3>1, <3>2, KeepsOwned
  <2> QED
    BY <1>1, <1>3, <2>1, <2>2, QuietWrites
<1>4. ASSUME NEW s \in Sessions, Step(s) PROVE ReturnedTurnsAreEnded'
  <2>1. ASSUME NEW t \in Turns, StartTurn(s, t) PROVE ReturnedTurnsAreEnded'
    BY <2>1, StartOwned
  <2>2. ASSUME NEW m \in Mutations, EndTurn(s, m) PROVE ReturnedTurnsAreEnded'
    BY <2>2, EndTurnOwned
  <2>3. CASE Reconcile(s)
    BY <2>3, ReconcileOwned
  <2>4. CASE Crash(s)
    BY <2>4, CrashOwned
  <2>5. CASE RefusedCall(s)
    BY <1>2, <2>5 DEF RefusedCall
  <2>6. CASE Continue(s)
    BY <1>3, <2>2, <2>3, <2>6 DEF Continue, QuietStep
  <2>7. CASE QuietStep(s)
    BY <1>3, <2>7
  <2> QED
    BY <1>4, <2>1, <2>4, <2>5, <2>6, <2>7 DEF Step, QuietStep
<1> QED
  BY <1>2, <1>4 DEF Next

-----------------------------------------------------------------------------
\* Checkpoints summarize each turn once, after it was committed, cover a
\* prefix of what was committed, and end operations that nobody disturbed:
\* CommitCheckpoint compares with the revision of the last charge, and a
\* charge on a revision that moved marks the candidate stale.
THEOREM CheckpointsSound == Spec => []CheckpointsAreSound
<1>1. IInv => CheckpointsAreSound
  BY SessionAssumption, TypesFollow, CoverageFollows, DiscardFollows DEF CheckpointsAreSound
<1> QED
  BY <1>1, Inductive, PTL

\* While compactions begin between turns, a running turn's context holds every
\* committed turn, raw or covered, and a resume sees an open turn: a tail
\* never skips what its checkpoint leaves out.
THEOREM ContextWhole == Spec => []ContextIsWhole
<1>1. IInv => ContextIsWhole
  BY SessionAssumption, ContextFollows
<1> QED
  BY <1>1, Inductive, PTL

\* An open turn has an operation that works on it, unless its process ended or
\* an append of its start or end reported an error: every way out of Ask closes
\* the turn or goes through reconcileUncommittedTurn.
THEOREM TurnsEnded == Spec => []ReturnedTurnsAreEnded
<1>1. Init => ReturnedTurnsAreEnded
  BY DEF Init, ReturnedTurnsAreEnded
<1>2. IInv /\ IInv' /\ ReturnedTurnsAreEnded /\ [Next]_vars => ReturnedTurnsAreEnded'
  BY SessionAssumption, OwnedStep
<1> QED
  BY <1>1, <1>2, Inductive, PTL DEF Spec

=============================================================================
