-------------------------- MODULE AnvilUpdateProofs --------------------------
(***************************************************************************)
(* What holds of every update, for any paths, regions, templates and       *)
(* words, and however many edits, releases and stopped runs came before.   *)
(* A plan is described by what it leaves of each path and records of each  *)
(* target; the invariant says that the writes still to apply lead there.   *)
(***************************************************************************)
EXTENDS AnvilUpdate, SequenceTheorems, WellFoundedInduction, TLAPS

-----------------------------------------------------------------------------
(* The invariant. *)

\* What only a user can have written in a file, None where nothing is.
UserText(c) == IF c # Missing /\ c.text \in Words THEN c.text ELSE None
UserBody(c, r) == IF Body(c, r) \in Words THEN Body(c, r) ELSE None

Agrees(c, d) == UserText(c) = UserText(d) /\ \A r \in Regions : UserBody(c, r) = UserBody(d, r)

\* Content that an update takes for generated, or renders again.
Generated(t, c) ==
  IF t[2] = File
  THEN c \in {Missing, Rendered(lock[t]), Rendered(catalog[t])} \/ Hosting(t[1])
  ELSE Body(c, t[2]) \in {None, Empty, lock[t], catalog[t]}

Unedited == \A t \in Targets \ edited : Generated(t, disk[t[1]])

Items == [path : Paths, content : Contents] \cup [path : Paths, proposal : Versions]

Writes(w, p) == w.path = p /\ "proposal" \notin DOMAIN w

\* A write that keeps the user's words and is no edit to what nobody edited.
Harmless(w) ==
  "proposal" \notin DOMAIN w =>
    /\ Agrees(w.content, disk[w.path])
    /\ \A t \in Targets \ edited : t[1] = w.path => Generated(t, w.content)

\* The last write to a path, or its base where there is none, has this content.
Ends(writes, base, p, c) ==
  \/ c = base /\ \A i \in DOMAIN writes : ~Writes(writes[i], p)
  \/ \E i \in DOMAIN writes :
       /\ Writes(writes[i], p) /\ writes[i].content = c
       /\ \A j \in DOMAIN writes : j > i => ~Writes(writes[j], p)

\* Content and record of a target that another run has nothing to do about:
\* as the catalog has it, refused, or named by neither.
Final(t, c, recorded) ==
  IF t[2] = File
  THEN recorded = catalog[t] /\ (catalog[t] # None => c # Missing)
  ELSE \/ Body(c, t[2]) = catalog[t] /\ recorded = catalog[t]
       \/ Body(c, t[2]) \notin {None, Empty, recorded, catalog[t]}
       \/ catalog[t] = None /\ recorded = None

\* As the catalog has it.
Current(t, c, recorded) ==
  /\ recorded = catalog[t]
  /\ IF t[2] = File
     THEN IF catalog[t] # None THEN c = Rendered(catalog[t]) ELSE c = Missing \/ Hosting(t[1])
     ELSE Body(c, t[2]) = catalog[t] \/ (catalog[t] = None /\ Body(c, t[2]) = Empty)

Accomplished(contents, records) ==
  \A t \in Targets :
    /\ Final(t, contents[t[1]], records[t])
    /\ t \notin edited => Current(t, contents[t[1]], records[t])

\* The writes still to apply bring about what the lock to be saved says.
Underway ==
  running =>
    /\ \A i \in DOMAIN todo : Harmless(todo[i])
    /\ \E out \in [Paths -> Contents] :
         /\ \A p \in Paths : Ends(todo, disk[p], p, out[p])
         /\ Accomplished(out, next)

Completed == settled => ~running /\ Accomplished(disk, lock)

IInv == TypeOK /\ todo \in Seq(Items) /\ Unedited /\ Underway /\ Completed

-----------------------------------------------------------------------------
(* What a plan comes to, said of each target on its own.                   *)

Named(t) == catalog[t] # None \/ lock[t] # None

\* A region's body, and what is recorded of a target, when all is planned.
BodyAfter(t) ==
  IF Named(t) /\ Body(disk[t[1]], t[2]) \in {None, Empty, lock[t]}
  THEN catalog[t] ELSE Body(disk[t[1]], t[2])

RecordAfter(t) ==
  IF t[2] = File \/ Body(disk[t[1]], t[2]) \in {None, Empty, lock[t], catalog[t]}
  THEN catalog[t] ELSE lock[t]

\* A path that no region's write can touch.
Bare(p) == \A r \in Regions : Body(disk[p], r) = None /\ catalog[<<p, r>>] = None

\* The paths that are written as owned files, and with what.
Replaced(p) ==
  LET t == <<p, File>>
  IN  /\ Named(t) /\ disk[p] \in {Missing, Rendered(lock[t])}
      /\ IF catalog[t] # None THEN disk[p] # Rendered(catalog[t])
         ELSE \A r \in Regions : catalog[<<p, r>>] = None

FileAfter(p) == IF catalog[<<p, File>>] # None THEN Rendered(catalog[<<p, File>>]) ELSE Missing

Outcome(text, done, p) ==
  IF ~Replaced(p) THEN text[p]
  ELSE IF <<p, File>> \in done THEN FileAfter(p) ELSE disk[p]

\* The texts and the writes of a plan, once the targets in `done` are planned.
TextsOK(text, writes, done) ==
  /\ text \in [Paths -> Contents] /\ writes \in Seq(Items)
  /\ \A p \in Paths, r \in Regions :
       Body(text[p], r) = IF <<p, r>> \in done THEN BodyAfter(<<p, r>>) ELSE Body(disk[p], r)
  /\ \A p \in Paths :
       /\ text[p] # disk[p] => text[p] # Missing /\ ~Bare(p)
       /\ UserText(text[p]) = UserText(disk[p])
       /\ Ends(writes, disk[p], p, Outcome(text, done, p))
  /\ \A i \in DOMAIN writes : Harmless(writes[i])

Records == [Targets -> Versions \cup {None}]

RecordsOK(records, done) ==
  /\ records \in Records
  /\ \A t \in Targets : records[t] = IF t \in done THEN RecordAfter(t) ELSE lock[t]

Plans == [text : [Paths -> Contents], writes : Seq(Items), lock : Records]

PlanOK(plan, done) ==
  plan \in Plans /\ TextsOK(plan.text, plan.writes, done) /\ RecordsOK(plan.lock, done)

\* The targets that a number of visits have planned.
Done(n) == {t \in Targets : PassOf(t) = "none" \/ \E i \in 1..n : Visits[i] = <<PassOf(t), t>>}

-----------------------------------------------------------------------------
(* Contents. *)

LEMMA RenderedIsHost ==
  ASSUME NEW v \in Versions
  PROVE  /\ Rendered(v) \in Hosts /\ Rendered(v) # Missing /\ Rendered(v) # Rendered(None)
         /\ UserText(Rendered(v)) = None
         /\ \A r \in Regions : Body(Rendered(v), r) = None
<1>1. Rendered(v) \in Hosts
  BY DEF Rendered, Hosts, Texts, Bodies
<1>2. Rendered(v) # Missing
  BY <1>1, MarksAreNoTexts
<1>3. Rendered(v).text = v /\ Rendered(None).text = None /\ v # None /\ v \notin Words
  BY MarksAreNoTexts DEF Rendered
<1>4. \A r \in Regions : Rendered(v).body[r] = None
  BY DEF Rendered
<1> HIDE DEF Rendered
<1> QED
  BY <1>1, <1>2, <1>3, <1>4 DEF UserText, Body

\* Nothing is rendered from no template.
LEMMA NoneIsNotRendered == Rendered(None) \notin Contents
<1>1. Rendered(None).text = None /\ None \notin Texts
  BY MarksAreNoTexts DEF Rendered, Texts
<1>2. Rendered(None) \notin Hosts
  BY <1>1 DEF Hosts
<1>3. Rendered(None) # Missing
  BY MarksAreNoTexts
<1> QED
  BY <1>2, <1>3 DEF Contents

LEMMA BodyType ==
  ASSUME NEW c \in Contents, NEW r \in Regions
  PROVE  Body(c, r) \in Bodies
BY DEF Body, Contents, Hosts, Bodies

LEMMA SpliceFacts ==
  ASSUME NEW c \in Contents, NEW r \in Regions, NEW b \in Bodies
  PROVE  /\ Splice(c, r, b) \in Hosts /\ Splice(c, r, b) # Missing
         /\ UserText(Splice(c, r, b)) = UserText(c)
         /\ \A x \in Regions : Body(Splice(c, r, b), x) = IF x = r THEN b ELSE Body(c, x)
<1> DEFINE h == Splice(c, r, b)
<1>1. h \in Hosts
  <2>1. \A x \in Regions : (IF x = r THEN b ELSE Body(c, x)) \in Bodies
    BY BodyType
  <2>2. (IF c = Missing THEN Empty ELSE c.text) \in Texts
    BY DEF Contents, Hosts, Texts
  <2> QED
    BY <2>1, <2>2 DEF Splice, Hosts
<1>2. h # Missing
  BY <1>1, MarksAreNoTexts
<1>3. h.text = (IF c = Missing THEN Empty ELSE c.text)
  BY DEF Splice
<1>4. \A x \in Regions : h.body[x] = IF x = r THEN b ELSE Body(c, x)
  BY DEF Splice
<1> HIDE DEF h
<1>5. UserText(h) = UserText(c)
  BY <1>2, <1>3, MarksAreNoTexts DEF UserText
<1>6. \A x \in Regions : Body(h, x) = IF x = r THEN b ELSE Body(c, x)
  BY <1>2, <1>4 DEF Body
<1> QED
  BY <1>1, <1>2, <1>5, <1>6 DEF h

LEMMA AgreesEquivalence ==
  /\ \A c : Agrees(c, c)
  /\ \A c, d : Agrees(c, d) => Agrees(d, c)
  /\ \A c, d, e : Agrees(c, d) /\ Agrees(d, e) => Agrees(c, e)
BY DEF Agrees

-----------------------------------------------------------------------------
(* The last write to a path. *)

LEMMA EndsNil ==
  ASSUME NEW base, NEW p, NEW c
  PROVE  Ends(<<>>, base, p, c) <=> c = base
<1>1. DOMAIN <<>> = {}
  OBVIOUS
<1> QED
  BY <1>1 DEF Ends

LEMMA EndsAppend ==
  ASSUME NEW W \in Seq(Items), NEW w \in Items, NEW base, NEW p, NEW c, Ends(W, base, p, c)
  PROVE  Ends(Append(W, w), base, p, IF Writes(w, p) THEN w.content ELSE c)
<1> DEFINE V == Append(W, w)
           n == Len(W) + 1
<1>1. /\ DOMAIN V = 1..n /\ V[n] = w /\ n \in DOMAIN V /\ DOMAIN W = 1..(n - 1) /\ n \in Nat
      /\ \A i \in DOMAIN W : i \in DOMAIN V /\ V[i] = W[i] /\ i < n
      /\ \A i \in DOMAIN V : i = n \/ i \in DOMAIN W
      /\ \A i \in DOMAIN V : ~(i > n)
  OBVIOUS
<1> HIDE DEF V, n
<1>2. CASE Writes(w, p)
  BY <1>1, <1>2 DEF Ends, V
<1>3. CASE ~Writes(w, p)
  BY <1>1, <1>3 DEF Ends, V
<1> QED
  BY <1>2, <1>3

LEMMA EndsTail ==
  ASSUME NEW W \in Seq(Items), W # <<>>, NEW base, NEW p, NEW c, Ends(W, base, p, c)
  PROVE  Ends(Tail(W), IF Writes(Head(W), p) THEN Head(W).content ELSE base, p, c)
<1> DEFINE T == Tail(W)
<1>1. /\ T \in Seq(Items) /\ Len(W) \in Nat /\ DOMAIN W = 1..Len(W) /\ DOMAIN T = 1..(Len(W) - 1)
      /\ Head(W) = W[1] /\ 1 \in DOMAIN W
      /\ \A i \in DOMAIN T : i + 1 \in DOMAIN W /\ T[i] = W[i + 1]
      /\ \A i \in DOMAIN W : i = 1 \/ (i - 1 \in DOMAIN T /\ T[i - 1] = W[i])
  OBVIOUS
<1> HIDE DEF T
<1>2. CASE c = base /\ \A i \in DOMAIN W : ~Writes(W[i], p)
  BY <1>1, <1>2 DEF Ends, T
<1>3. CASE \E i \in DOMAIN W : /\ Writes(W[i], p) /\ W[i].content = c
                              /\ \A j \in DOMAIN W : j > i => ~Writes(W[j], p)
  <2>1. PICK i \in DOMAIN W : /\ Writes(W[i], p) /\ W[i].content = c
                             /\ \A j \in DOMAIN W : j > i => ~Writes(W[j], p)
    BY <1>3
  <2>2. CASE i = 1
    <3>1. \A j \in DOMAIN T : ~Writes(T[j], p)
      BY <1>1, <2>1, <2>2
    <3> QED
      BY <1>1, <2>1, <2>2, <3>1 DEF Ends, T
  <2>3. CASE i # 1
    <3>1. i - 1 \in DOMAIN T /\ T[i - 1] = W[i]
      BY <1>1, <2>3
    <3>2. ASSUME NEW j \in DOMAIN T, j > i - 1 PROVE ~Writes(T[j], p)
      BY <1>1, <2>1, <3>2
    <3> QED
      BY <2>1, <3>1, <3>2 DEF Ends, T
  <2> QED
    BY <2>2, <2>3
<1> QED
  BY <1>2, <1>3 DEF Ends

-----------------------------------------------------------------------------
(* What the visit of a target makes of the texts and the writes. *)

LEMMA TargetTypes ==
  ASSUME TypeOK, NEW t \in Targets
  PROVE  /\ t = <<t[1], t[2]>> /\ t[1] \in Paths /\ t[2] \in Regions \cup {File}
         /\ catalog[t] \in Versions \cup {None} /\ lock[t] \in Versions \cup {None}
         /\ disk[t[1]] \in Contents
BY DEF TypeOK, Targets, Catalogs

LEMMA PairTypes ==
  ASSUME TypeOK, NEW p \in Paths, NEW r \in Regions
  PROVE  /\ <<p, r>> \in Targets /\ <<p, File>> \in Targets /\ disk[p] \in Contents
         /\ catalog[<<p, r>>] \in Versions \cup {None} /\ lock[<<p, r>>] \in Versions \cup {None}
         /\ catalog[<<p, File>>] # None => catalog[<<p, r>>] = None
BY DEF TypeOK, Targets, Catalogs

LEMMA FileTypes ==
  ASSUME TypeOK, NEW p \in Paths
  PROVE  /\ <<p, File>> \in Targets /\ disk[p] \in Contents
         /\ catalog[<<p, File>>] \in Versions \cup {None} /\ lock[<<p, File>>] \in Versions \cup {None}
BY DEF TypeOK, Targets, Catalogs

\* A path that is written as an owned file has no regions, before or after.
LEMMA ReplacedFacts ==
  ASSUME TypeOK, NEW p \in Paths, Replaced(p)
  PROVE  /\ Bare(p) /\ FileAfter(p) \in Contents /\ Agrees(FileAfter(p), disk[p])
         /\ \A r \in Regions : Body(FileAfter(p), r) = None
<1>1. disk[p] = Missing \/ \E v \in Versions : disk[p] = Rendered(v)
  BY FileTypes, NoneIsNotRendered DEF Replaced
<1>2. UserText(disk[p]) = None /\ \A r \in Regions : Body(disk[p], r) = None
  BY <1>1, RenderedIsHost DEF UserText, Body
<1>3. FileAfter(p) = Missing \/ \E v \in Versions : FileAfter(p) = Rendered(v)
  BY FileTypes DEF FileAfter
<1>4. /\ FileAfter(p) \in Contents /\ UserText(FileAfter(p)) = None
      /\ \A r \in Regions : Body(FileAfter(p), r) = None
  BY <1>3, RenderedIsHost DEF UserText, Body, Contents
<1>5. \A r \in Regions : catalog[<<p, r>>] = None
  BY PairTypes DEF Replaced
<1> QED
  BY <1>2, <1>4, <1>5 DEF Bare, Agrees, UserBody

\* A target that is left as it is.
LEMMA LeaveTexts ==
  ASSUME TypeOK, NEW text, NEW writes, NEW done, TextsOK(text, writes, done), NEW t \in Targets,
         IF t[2] = File THEN ~Replaced(t[1]) ELSE BodyAfter(t) = Body(disk[t[1]], t[2])
  PROVE  TextsOK(text, writes, done \cup {t})
<1>1. ASSUME NEW p \in Paths, NEW r \in Regions
      PROVE  Body(text[p], r) = IF <<p, r>> \in done \cup {t} THEN BodyAfter(<<p, r>>) ELSE Body(disk[p], r)
  <2>1. CASE t = <<p, r>>
    <3>1. t[1] = p /\ t[2] = r /\ r # File
      BY <2>1, MarksAreNoTexts
    <3> QED
      BY <2>1, <3>1 DEF TextsOK
  <2> QED
    BY <2>1 DEF TextsOK
<1>2. \A p \in Paths : Outcome(text, done \cup {t}, p) = Outcome(text, done, p)
  BY TargetTypes, MarksAreNoTexts DEF Outcome
<1> QED
  BY <1>1, <1>2 DEF TextsOK

LEMMA ProposeTexts ==
  ASSUME TypeOK, NEW text, NEW writes, NEW done, TextsOK(text, writes, done),
         NEW p \in Paths, NEW v \in Versions
  PROVE  TextsOK(text, Append(writes, [path |-> p, proposal |-> v]), done)
<1> DEFINE w == [path |-> p, proposal |-> v]
           W == Append(writes, w)
<1>1. w \in Items /\ \A q : ~Writes(w, q)
  BY DEF Items, Writes
<1>2. Harmless(w)
  BY DEF Harmless
<1> HIDE DEF w
<1>3. writes \in Seq(Items) /\ \A i \in DOMAIN writes : Harmless(writes[i])
  BY DEF TextsOK
<1>4. W \in Seq(Items) /\ \A i \in DOMAIN W : Harmless(W[i])
  BY <1>1, <1>2, <1>3
<1>5. \A q \in Paths : Ends(W, disk[q], q, Outcome(text, done, q))
  BY <1>1, <1>3, EndsAppend DEF TextsOK
<1> HIDE DEF W
<1> QED
  BY <1>4, <1>5 DEF TextsOK, W, w

\* An owned file that is written or removed.
LEMMA ReplaceTexts ==
  ASSUME TypeOK, NEW text, NEW writes, NEW done, TextsOK(text, writes, done),
         NEW p \in Paths, Replaced(p)
  PROVE  TextsOK(text, Append(writes, [path |-> p, content |-> FileAfter(p)]), done \cup {<<p, File>>})
<1> DEFINE w == [path |-> p, content |-> FileAfter(p)]
           W == Append(writes, w)
           all == done \cup {<<p, File>>}
<1>1. /\ w \in Items /\ Writes(w, p) /\ w.content = FileAfter(p) /\ w.path = p
      /\ \A q : q # p => ~Writes(w, q)
  BY ReplacedFacts DEF Items, Writes
<1>2. ASSUME NEW t \in Targets \ edited, t[1] = p PROVE Generated(t, FileAfter(p))
  <2>1. t = <<p, t[2]>> /\ t[2] \in Regions \cup {File}
    BY <1>2, TargetTypes
  <2> QED
    BY <2>1, ReplacedFacts, MarksAreNoTexts DEF Generated, FileAfter
<1>3. Harmless(w)
  BY <1>1, <1>2, ReplacedFacts DEF Harmless
<1> HIDE DEF w
<1>4. writes \in Seq(Items) /\ \A i \in DOMAIN writes : Harmless(writes[i])
  BY DEF TextsOK
<1>5. W \in Seq(Items) /\ \A i \in DOMAIN W : Harmless(W[i])
  BY <1>1, <1>3, <1>4
<1>6. ASSUME NEW q \in Paths PROVE Ends(W, disk[q], q, Outcome(text, all, q))
  <2>1. Ends(W, disk[q], q, IF Writes(w, q) THEN w.content ELSE Outcome(text, done, q))
    BY <1>1, <1>4, EndsAppend DEF TextsOK
  <2>2. Outcome(text, all, q) = IF q = p THEN FileAfter(p) ELSE Outcome(text, done, q)
    BY DEF Outcome
  <2> QED
    BY <1>1, <2>1, <2>2
<1>7. \A q \in Paths, r \in Regions : <<q, r>> \in all <=> <<q, r>> \in done
  BY MarksAreNoTexts
<1> HIDE DEF W, all
<1>8. TextsOK(text, W, all)
  BY <1>5, <1>6, <1>7 DEF TextsOK
<1> QED
  BY <1>8 DEF W, w, all

\* Where a region's write can come: no owned file is written there, and the
\* host's regions stand as they were or as they shall be.
LEMMA SpliceTexts ==
  ASSUME TypeOK, Unedited, NEW text, NEW writes, NEW done, TextsOK(text, writes, done),
         NEW p \in Paths, NEW r \in Regions, <<p, r>> \notin done, Named(<<p, r>>),
         Body(disk[p], r) \in {None, Empty, lock[<<p, r>>]} \ {catalog[<<p, r>>]},
         NEW host, host = Splice(text[p], r, catalog[<<p, r>>])
  PROVE  TextsOK([text EXCEPT ![p] = host], Append(writes, [path |-> p, content |-> host]),
                 done \cup {<<p, r>>})
<1> DEFINE w == [path |-> p, content |-> host]
           W == Append(writes, w)
           T == [text EXCEPT ![p] = host]
           all == done \cup {<<p, r>>}
           v == catalog[<<p, r>>]
<1>1. v \in Bodies /\ v \notin Words /\ BodyAfter(<<p, r>>) = v
  BY PairTypes, MarksAreNoTexts DEF Bodies, BodyAfter
<1>2. /\ host \in Contents /\ host # Missing /\ UserText(host) = UserText(text[p])
      /\ \A x \in Regions : Body(host, x) = IF x = r THEN v ELSE Body(text[p], x)
  BY <1>1, SpliceFacts DEF TextsOK, Contents
<1> HIDE DEF v
<1>3. ~Bare(p) /\ ~Replaced(p)
  <2>1. ~Bare(p)
    BY DEF Bare, Named
  <2> QED
    BY <2>1, ReplacedFacts
<1>4. \A x \in Regions : Body(host, x) = IF <<p, x>> \in all THEN BodyAfter(<<p, x>>) ELSE Body(disk[p], x)
  BY <1>1, <1>2 DEF TextsOK
<1>5. Agrees(host, disk[p])
  <2>1. UserText(host) = UserText(disk[p])
    BY <1>2 DEF TextsOK
  <2>2. ASSUME NEW x \in Regions PROVE UserBody(host, x) = UserBody(disk[p], x)
    BY <1>4, PairTypes, MarksAreNoTexts DEF UserBody, BodyAfter
  <2> QED
    BY <2>1, <2>2 DEF Agrees
<1>6. ASSUME NEW t \in Targets \ edited, t[1] = p PROVE Generated(t, host)
  <2>1. t = <<p, t[2]>> /\ t[2] \in Regions \cup {File} /\ Generated(t, disk[p])
    BY <1>6, TargetTypes DEF Unedited
  <2>2. CASE t[2] = File
    <3>1. SUFFICES ASSUME ~Hosting(p) PROVE FALSE
      BY <1>6, <2>2 DEF Generated
    <3>2. \A x \in Regions : catalog[<<p, x>>] = None
      BY <3>1 DEF Hosting
    <3>3. disk[p] = Missing \/ \E u \in Versions : disk[p] = Rendered(u)
      BY <1>6, <2>1, <2>2, <3>1, FileTypes, NoneIsNotRendered DEF Generated
    <3> QED
      BY <1>3, <3>2, <3>3, RenderedIsHost DEF Bare, Body
  <2>3. CASE t[2] # File
    BY <1>4, <2>1, <2>3 DEF Generated, BodyAfter
  <2> QED
    BY <2>2, <2>3
<1>7. /\ w \in Items /\ Writes(w, p) /\ w.content = host /\ w.path = p
      /\ \A q : q # p => ~Writes(w, q)
  BY <1>2 DEF Items, Writes
<1>8. Harmless(w)
  BY <1>5, <1>6, <1>7 DEF Harmless
<1> HIDE DEF w
<1>9. writes \in Seq(Items) /\ \A i \in DOMAIN writes : Harmless(writes[i])
  BY DEF TextsOK
<1>10. W \in Seq(Items) /\ \A i \in DOMAIN W : Harmless(W[i])
  BY <1>7, <1>8, <1>9
<1>11. T \in [Paths -> Contents] /\ T[p] = host /\ \A q \in Paths : q # p => T[q] = text[q]
  BY <1>2 DEF TextsOK
<1> HIDE DEF T
<1>12. ASSUME NEW q \in Paths PROVE Ends(W, disk[q], q, Outcome(T, all, q))
  <2>1. Ends(W, disk[q], q, IF Writes(w, q) THEN w.content ELSE Outcome(text, done, q))
    BY <1>7, <1>9, EndsAppend DEF TextsOK
  <2>2. Outcome(T, all, q) = IF q = p THEN host ELSE Outcome(text, done, q)
    BY <1>3, <1>11, MarksAreNoTexts DEF Outcome
  <2> QED
    BY <1>7, <2>1, <2>2
<1>13. \A q \in Paths, x \in Regions :
         Body(T[q], x) = IF <<q, x>> \in all THEN BodyAfter(<<q, x>>) ELSE Body(disk[q], x)
  BY <1>4, <1>11 DEF TextsOK
<1>14. \A q \in Paths : /\ T[q] # disk[q] => T[q] # Missing /\ ~Bare(q)
                       /\ UserText(T[q]) = UserText(disk[q])
  BY <1>2, <1>3, <1>11 DEF TextsOK
<1> HIDE DEF W, all
<1>15. TextsOK(T, W, all)
  BY <1>10, <1>11, <1>12, <1>13, <1>14 DEF TextsOK
<1> QED
  BY <1>15 DEF T, W, w, all

-----------------------------------------------------------------------------
(* What the visit of a target makes of a plan. *)

LEMMA RecordFields ==
  ASSUME NEW plan \in Plans, NEW t \in Targets, NEW v \in Versions \cup {None}
  PROVE  /\ Record(plan, t, v) \in Plans
         /\ Record(plan, t, v).text = plan.text /\ Record(plan, t, v).writes = plan.writes
         /\ Record(plan, t, v).lock = [plan.lock EXCEPT ![t] = v]
BY DEF Record, Plans, Records

LEMMA WriteFields ==
  ASSUME NEW plan \in Plans, NEW p \in Paths, NEW c \in Contents
  PROVE  /\ Write(plan, p, c) \in Plans
         /\ Write(plan, p, c).text = plan.text /\ Write(plan, p, c).lock = plan.lock
         /\ Write(plan, p, c).writes = Append(plan.writes, [path |-> p, content |-> c])
<1>1. [path |-> p, content |-> c] \in Items
  BY DEF Items
<1>2. Append(plan.writes, [path |-> p, content |-> c]) \in Seq(Items)
  BY <1>1 DEF Plans
<1> QED
  BY <1>2 DEF Write, Plans

LEMMA ProposeFields ==
  ASSUME NEW plan \in Plans, NEW p \in Paths, NEW v \in Versions
  PROVE  /\ ProposeTo(plan, p, v) \in Plans
         /\ ProposeTo(plan, p, v).text = plan.text /\ ProposeTo(plan, p, v).lock = plan.lock
         /\ ProposeTo(plan, p, v).writes = Append(plan.writes, [path |-> p, proposal |-> v])
<1>1. [path |-> p, proposal |-> v] \in Items
  BY DEF Items
<1>2. Append(plan.writes, [path |-> p, proposal |-> v]) \in Seq(Items)
  BY <1>1 DEF Plans
<1> QED
  BY <1>2 DEF ProposeTo, Plans

LEMMA SpliceFields ==
  ASSUME NEW plan \in Plans, NEW p \in Paths, NEW r \in Regions, NEW b \in Bodies
  PROVE  LET host == Splice(plan.text[p], r, b)
             q == SpliceInto(plan, p, r, b)
         IN  /\ q \in Plans /\ q.lock = plan.lock
             /\ q.text = [plan.text EXCEPT ![p] = host]
             /\ q.writes = Append(plan.writes, [path |-> p, content |-> host])
<1> DEFINE host == Splice(plan.text[p], r, b)
<1>1. host \in Contents
  BY SpliceFacts DEF Plans, Contents
<1>2. SpliceInto(plan, p, r, b) = [Write(plan, p, host) EXCEPT !.text[p] = host]
  BY DEF SpliceInto
<1>3. /\ Write(plan, p, host) \in Plans
      /\ Write(plan, p, host).text = plan.text /\ Write(plan, p, host).lock = plan.lock
      /\ Write(plan, p, host).writes = Append(plan.writes, [path |-> p, content |-> host])
  BY <1>1, WriteFields
<1> HIDE DEF host
<1>4. [plan.text EXCEPT ![p] = host] \in [Paths -> Contents]
  BY <1>1 DEF Plans
<1>5. /\ SpliceInto(plan, p, r, b) \in Plans /\ SpliceInto(plan, p, r, b).lock = plan.lock
      /\ SpliceInto(plan, p, r, b).text = [plan.text EXCEPT ![p] = host]
      /\ SpliceInto(plan, p, r, b).writes = Append(plan.writes, [path |-> p, content |-> host])
  BY <1>2, <1>3, <1>4 DEF Plans
<1> QED
  BY <1>5 DEF host

\* The record of a target that has been planned.
LEMMA RecordsStep ==
  ASSUME TypeOK, NEW records, NEW done, RecordsOK(records, done), NEW t \in Targets
  PROVE  /\ RecordsOK([records EXCEPT ![t] = RecordAfter(t)], done \cup {t})
         /\ RecordAfter(t) = lock[t] => RecordsOK(records, done \cup {t})
         /\ RecordAfter(t) \in Versions \cup {None}
<1>1. RecordAfter(t) \in Versions \cup {None}
  BY TargetTypes DEF RecordAfter
<1> QED
  BY <1>1 DEF RecordsOK, Records

\* A target whose record alone is written, and one that is left alone.
LEMMA RecordOnly ==
  ASSUME TypeOK, NEW plan, NEW done, PlanOK(plan, done), NEW t \in Targets,
         IF t[2] = File THEN ~Replaced(t[1]) ELSE BodyAfter(t) = Body(disk[t[1]], t[2])
  PROVE  /\ PlanOK(Record(plan, t, RecordAfter(t)), done \cup {t})
         /\ RecordAfter(t) = lock[t] => PlanOK(plan, done \cup {t})
<1>1. TextsOK(plan.text, plan.writes, done \cup {t})
  BY LeaveTexts DEF PlanOK
<1>2. /\ RecordsOK([plan.lock EXCEPT ![t] = RecordAfter(t)], done \cup {t})
      /\ RecordAfter(t) = lock[t] => RecordsOK(plan.lock, done \cup {t})
      /\ RecordAfter(t) \in Versions \cup {None}
  BY RecordsStep DEF PlanOK
<1> QED
  BY <1>1, <1>2, RecordFields DEF PlanOK

LEMMA RecordAgain ==
  ASSUME TypeOK, NEW plan, NEW done, PlanOK(plan, done), NEW t \in Targets, t \in done
  PROVE  PlanOK(Record(plan, t, RecordAfter(t)), done \cup {t})
<1> DEFINE all == done \cup {t}
           q == Record(plan, t, RecordAfter(t))
<1>1. all = done
  OBVIOUS
<1>2. /\ RecordsOK([plan.lock EXCEPT ![t] = RecordAfter(t)], all)
      /\ RecordAfter(t) \in Versions \cup {None}
  BY RecordsStep DEF PlanOK
<1>3. /\ q \in Plans /\ q.text = plan.text /\ q.writes = plan.writes
      /\ q.lock = [plan.lock EXCEPT ![t] = RecordAfter(t)]
  BY <1>2, RecordFields DEF PlanOK
<1> HIDE DEF q, all
<1>4. PlanOK(q, all)
  BY <1>1, <1>2, <1>3 DEF PlanOK
<1> QED
  BY <1>4 DEF q, all

LEMMA ReplaceAndRecord ==
  ASSUME TypeOK, NEW plan, NEW done, PlanOK(plan, done), NEW p \in Paths, Replaced(p)
  PROVE  PlanOK(Record(Write(plan, p, FileAfter(p)), <<p, File>>, RecordAfter(<<p, File>>)),
                done \cup {<<p, File>>})
<1> DEFINE t == <<p, File>>
           q == Write(plan, p, FileAfter(p))
<1>1. t \in Targets /\ FileAfter(p) \in Contents
  BY FileTypes, ReplacedFacts
<1>2. /\ q \in Plans /\ q.text = plan.text /\ q.lock = plan.lock
      /\ q.writes = Append(plan.writes, [path |-> p, content |-> FileAfter(p)])
  BY <1>1, WriteFields DEF PlanOK
<1>3. TextsOK(q.text, q.writes, done \cup {t})
  BY <1>2, ReplaceTexts DEF PlanOK
<1>4. /\ RecordsOK([q.lock EXCEPT ![t] = RecordAfter(t)], done \cup {t})
      /\ RecordAfter(t) \in Versions \cup {None}
  BY <1>1, <1>2, RecordsStep DEF PlanOK
<1> HIDE DEF t, q
<1>5. PlanOK(Record(q, t, RecordAfter(t)), done \cup {t})
  BY <1>1, <1>2, <1>3, <1>4, RecordFields DEF PlanOK
<1> QED
  BY <1>5 DEF t, q

LEMMA SpliceAndRecord ==
  ASSUME TypeOK, Unedited, NEW plan, NEW done, PlanOK(plan, done), NEW p \in Paths, NEW r \in Regions,
         <<p, r>> \notin done, Named(<<p, r>>),
         Body(disk[p], r) \in {None, Empty, lock[<<p, r>>]} \ {catalog[<<p, r>>]}
  PROVE  PlanOK(Record(SpliceInto(plan, p, r, catalog[<<p, r>>]), <<p, r>>, catalog[<<p, r>>]),
                done \cup {<<p, r>>})
<1> DEFINE t == <<p, r>>
           v == catalog[t]
           host == Splice(plan.text[p], r, v)
           q == SpliceInto(plan, p, r, v)
<1>1. t \in Targets /\ v \in Versions \cup {None} /\ v \in Bodies
  BY PairTypes DEF Bodies
<1>2. /\ q \in Plans /\ q.text = [plan.text EXCEPT ![p] = host] /\ q.lock = plan.lock
      /\ q.writes = Append(plan.writes, [path |-> p, content |-> host])
  BY <1>1, SpliceFields DEF PlanOK
<1>3. TextsOK(q.text, q.writes, done \cup {t})
  BY <1>2, SpliceTexts DEF PlanOK
<1>4. RecordAfter(t) = v
  BY DEF RecordAfter
<1>5. RecordsOK([q.lock EXCEPT ![t] = v], done \cup {t})
  BY <1>1, <1>2, <1>4, RecordsStep DEF PlanOK
<1> HIDE DEF t, q, v, host
<1>6. /\ Record(q, t, v) \in Plans
      /\ Record(q, t, v).text = q.text /\ Record(q, t, v).writes = q.writes
      /\ Record(q, t, v).lock = [q.lock EXCEPT ![t] = v]
  BY <1>1, <1>2, RecordFields
<1>7. PlanOK(Record(q, t, v), done \cup {t})
  BY <1>3, <1>5, <1>6 DEF PlanOK
<1> QED
  BY <1>7 DEF t, q, v

\* plan_owned_file.
LEMMA PlansFile ==
  ASSUME TypeOK, NEW plan, NEW done, PlanOK(plan, done), NEW p \in Paths, catalog[<<p, File>>] # None
  PROVE  PlanOK(PlanFile(plan, p), done \cup {<<p, File>>})
<1> DEFINE t == <<p, File>>
           template == catalog[t]
           last == lock[t]
           proposal == ProposeTo(plan, p, template)
<1>1. /\ t \in Targets /\ t[1] = p /\ t[2] = File /\ template \in Versions /\ disk[p] \in Contents
      /\ RecordAfter(t) = template
  BY FileTypes DEF RecordAfter
<1>2. CASE disk[p] = Rendered(template)
  <2>1. ~Replaced(p)
    BY <1>2 DEF Replaced
  <2>2. PlanFile(plan, p) = Record(plan, t, template)
    BY <1>2 DEF PlanFile
  <2> QED
    BY <1>1, <2>1, <2>2, RecordOnly
<1>3. CASE disk[p] \in {Missing, Rendered(last)} \ {Rendered(template)}
  <2>1. Replaced(p) /\ FileAfter(p) = Rendered(template)
    BY <1>3 DEF Replaced, FileAfter, Named
  <2>2. PlanFile(plan, p) = Record(Write(plan, p, Rendered(template)), t, template)
    BY <1>3 DEF PlanFile
  <2> QED
    BY <1>1, <2>1, <2>2, ReplaceAndRecord
<1>4. CASE disk[p] \notin {Missing, Rendered(last), Rendered(template)} /\ last = template
  <2>1. ~Replaced(p)
    BY <1>4 DEF Replaced
  <2>2. PlanFile(plan, p) = plan
    BY <1>4 DEF PlanFile
  <2> QED
    BY <1>1, <1>4, <2>1, <2>2, RecordOnly
<1>5. CASE disk[p] \notin {Missing, Rendered(last), Rendered(template)} /\ last # template
  <2>1. ~Replaced(p)
    BY <1>5 DEF Replaced
  <2>2. PlanFile(plan, p) = Record(proposal, t, template)
    BY <1>5 DEF PlanFile
  <2>3. /\ proposal \in Plans /\ proposal.text = plan.text /\ proposal.lock = plan.lock
        /\ proposal.writes = Append(plan.writes, [path |-> p, proposal |-> template])
    BY <1>1, ProposeFields DEF PlanOK
  <2>4. PlanOK(proposal, done)
    BY <1>1, <2>3, ProposeTexts DEF PlanOK
  <2> QED
    BY <1>1, <2>1, <2>2, <2>4, RecordOnly
<1> QED
  BY <1>2, <1>3, <1>4, <1>5

\* plan_region_with_splice.
LEMMA PlansRegion ==
  ASSUME TypeOK, Unedited, NEW plan, NEW done, PlanOK(plan, done), NEW p \in Paths, NEW r \in Regions,
         catalog[<<p, r>>] # None
  PROVE  PlanOK(PlanRegion(plan, p, r), done \cup {<<p, r>>})
<1> DEFINE t == <<p, r>>
           body == Body(plan.text[p], r)
           was == Body(disk[p], r)
<1>1. t \in Targets /\ t[1] = p /\ t[2] = r /\ r # File
  BY PairTypes, MarksAreNoTexts
<1>2. /\ body = IF t \in done THEN BodyAfter(t) ELSE was
      /\ BodyAfter(t) = IF was \in {None, Empty, lock[t]} THEN catalog[t] ELSE was
  BY <1>1 DEF PlanOK, TextsOK, BodyAfter, Named
<1>3. RecordAfter(t) = IF was \in {None, Empty, lock[t], catalog[t]} THEN catalog[t] ELSE lock[t]
  BY <1>1 DEF RecordAfter
<1>4. CASE body = catalog[t]
  <2>1. PlanRegion(plan, p, r) = Record(plan, t, catalog[t])
    BY <1>4 DEF PlanRegion
  <2>2. CASE BodyAfter(t) = was
    BY <1>1, <1>2, <1>3, <1>4, <2>1, <2>2, RecordOnly
  <2>3. CASE BodyAfter(t) # was
    <3>1. t \in done /\ RecordAfter(t) = catalog[t]
      BY <1>2, <1>3, <1>4, <2>3
    <3> QED
      BY <1>1, <2>1, <3>1, RecordAgain
  <2> QED
    BY <2>2, <2>3
<1>5. CASE body \in {None, Empty, lock[t]} \ {catalog[t]}
  <2>1. PlanRegion(plan, p, r) = Record(SpliceInto(plan, p, r, catalog[t]), t, catalog[t])
    BY <1>5 DEF PlanRegion
  <2>2. t \notin done /\ was = body
    BY <1>2, <1>5
  <2> QED
    BY <1>5, <2>1, <2>2, SpliceAndRecord DEF Named
<1>6. CASE body \notin {None, Empty, lock[t], catalog[t]}
  <2>1. PlanRegion(plan, p, r) = plan
    BY <1>6 DEF PlanRegion
  <2>2. BodyAfter(t) = was /\ RecordAfter(t) = lock[t]
    BY <1>2, <1>3, <1>6
  <2> QED
    BY <1>1, <2>1, <2>2, RecordOnly
<1> QED
  BY <1>4, <1>5, <1>6

\* plan_removals: an owned file.
LEMMA RetiresFile ==
  ASSUME TypeOK, NEW plan, NEW done, PlanOK(plan, done), NEW p \in Paths,
         catalog[<<p, File>>] = None, lock[<<p, File>>] # None
  PROVE  PlanOK(RetireFile(plan, p), done \cup {<<p, File>>})
<1>1. /\ <<p, File>> \in Targets /\ <<p, File>>[1] = p /\ <<p, File>>[2] = File
      /\ RecordAfter(<<p, File>>) = None /\ FileAfter(p) = Missing
  BY FileTypes DEF RecordAfter, FileAfter
<1>2. CASE Replaced(p)
  <2>1. RetireFile(plan, p) = Record(Write(plan, p, Missing), <<p, File>>, None)
    BY <1>2 DEF RetireFile, Replaced
  <2> QED
    BY <1>1, <1>2, <2>1, ReplaceAndRecord
<1>3. CASE ~Replaced(p)
  <2>1. RetireFile(plan, p) = Record(plan, <<p, File>>, None)
    BY <1>3 DEF RetireFile, Replaced, Named
  <2> QED
    BY <1>1, <1>3, <2>1, RecordOnly
<1> QED
  BY <1>2, <1>3

\* plan_removals: a region.
LEMMA RetiresRegion ==
  ASSUME TypeOK, Unedited, NEW plan, NEW done, PlanOK(plan, done), NEW p \in Paths, NEW r \in Regions,
         catalog[<<p, r>>] = None, lock[<<p, r>>] # None
  PROVE  PlanOK(RetireRegion(plan, p, r), done \cup {<<p, r>>})
<1> DEFINE t == <<p, r>>
           body == Body(plan.text[p], r)
           was == Body(disk[p], r)
<1>1. t \in Targets /\ t[1] = p /\ t[2] = r /\ r # File
  BY PairTypes, MarksAreNoTexts
<1>2. /\ body = IF t \in done THEN BodyAfter(t) ELSE was
      /\ BodyAfter(t) = IF was \in {None, Empty, lock[t]} THEN None ELSE was
  BY <1>1 DEF PlanOK, TextsOK, BodyAfter, Named
<1>3. RecordAfter(t) = IF was \in {None, Empty, lock[t]} THEN None ELSE lock[t]
  BY <1>1 DEF RecordAfter
<1>4. CASE body = None
  <2>1. RetireRegion(plan, p, r) = Record(plan, t, None)
    BY <1>4, MarksAreNoTexts DEF RetireRegion
  <2>2. CASE BodyAfter(t) = was
    BY <1>1, <1>2, <1>3, <1>4, <2>1, <2>2, RecordOnly
  <2>3. CASE BodyAfter(t) # was
    <3>1. t \in done /\ RecordAfter(t) = None
      BY <1>2, <1>3, <1>4, <2>3
    <3> QED
      BY <1>1, <2>1, <3>1, RecordAgain
  <2> QED
    BY <2>2, <2>3
<1>5. CASE body \in {Empty, lock[t]}
  <2>1. body # None
    BY <1>5, MarksAreNoTexts
  <2>2. RetireRegion(plan, p, r) = Record(SpliceInto(plan, p, r, None), t, None)
    BY <1>5, <2>1 DEF RetireRegion
  <2>3. t \notin done /\ was = body
    BY <1>2, <1>5, <2>1
  <2> QED
    BY <1>5, <2>1, <2>2, <2>3, SpliceAndRecord DEF Named
<1>6. CASE body \notin {None, Empty, lock[t]}
  <2>1. RetireRegion(plan, p, r) = plan
    BY <1>6 DEF RetireRegion
  <2>2. BodyAfter(t) = was /\ RecordAfter(t) = lock[t]
    BY <1>2, <1>3, <1>6
  <2> QED
    BY <1>1, <2>1, <2>2, RecordOnly
<1> QED
  BY <1>4, <1>5, <1>6

LEMMA HandleStep ==
  ASSUME TypeOK, Unedited, NEW plan, NEW done, PlanOK(plan, done), NEW t \in Targets, Named(t)
  PROVE  PlanOK(Handle(plan, t), done \cup {t})
<1>1. t = <<t[1], t[2]>> /\ t[1] \in Paths /\ t[2] \in Regions \cup {File}
  BY TargetTypes
<1>2. CASE catalog[t] # None /\ t[2] = File
  BY <1>1, <1>2, PlansFile DEF Handle, PlanItem
<1>3. CASE catalog[t] # None /\ t[2] # File
  BY <1>1, <1>3, PlansRegion DEF Handle, PlanItem
<1>4. CASE catalog[t] = None /\ t[2] = File
  BY <1>1, <1>4, RetiresFile DEF Handle, Retire, Named
<1>5. CASE catalog[t] = None /\ t[2] # File
  BY <1>1, <1>5, RetiresRegion DEF Handle, Retire, Named
<1> QED
  BY <1>2, <1>3, <1>4, <1>5

-----------------------------------------------------------------------------
(* The passes of a plan, visit by visit. *)

LEMMA InductionTo ==
  ASSUME NEW N \in Nat, NEW G, 0 \in G, \A n \in 1..N : n - 1 \in G => n \in G
  PROVE  \A n \in 0..N : n \in G
<1> DEFINE Bad == {n \in 0..N : n \notin G}
<1> SUFFICES ASSUME Bad # {} PROVE FALSE
  OBVIOUS
<1>1. PICK n \in Bad : \A m \in Bad : ~(m < n)
  <2>1. Bad \subseteq Nat
    OBVIOUS
  <2>2. \E n \in Bad : \A m \in Bad : ~(<<m, n>> \in OpToRel(<, Nat))
    BY <2>1, NatLessThanWellFounded, WFMin
  <2> QED
    BY <2>1, <2>2 DEF OpToRel
<1>2. n \in 1..N /\ n - 1 \notin Bad
  BY <1>1
<1> QED
  BY <1>1, <1>2

Steps(N, S) == [1..N -> [S -> S]]

Iterates(f, N, S, a, step) ==
  f \in [0..N -> S] /\ f[0] = a /\ \A n \in 1..N : f[n] = step[n][f[n - 1]]

\* A function that is defined by going from each position to the next exists.
LEMMA Iteration ==
  ASSUME NEW N \in Nat, NEW S, NEW a \in S, NEW step \in Steps(N, S)
  PROVE  \E f : Iterates(f, N, S, a, step)
<1> DEFINE From(f, n) == f[0] = a /\ \A i \in 1..n : f[i] = step[i][f[i - 1]]
           G == {n \in 0..N : \E f \in [0..n -> S] : From(f, n)}
<1>1. 0 \in G
  <2>1. [i \in 0..0 |-> a] \in [0..0 -> S] /\ From([i \in 0..0 |-> a], 0)
    OBVIOUS
  <2> HIDE DEF From
  <2> QED
    BY <2>1
<1>2. ASSUME NEW n \in 1..N, n - 1 \in G PROVE n \in G
  <2>1. PICK f \in [0..(n - 1) -> S] : From(f, n - 1)
    BY <1>2
  <2> DEFINE g == [i \in 0..n |-> IF i = n THEN step[n][f[n - 1]] ELSE f[i]]
  <2>2. step[n][f[n - 1]] \in S
    BY <2>1 DEF Steps
  <2>3. g \in [0..n -> S]
    BY <2>2
  <2>4. g[0] = a
    BY <2>1
  <2>5. ASSUME NEW i \in 1..n PROVE g[i] = step[i][g[i - 1]]
    <3>1. CASE i = n
      BY <3>1
    <3>2. CASE i # n
      BY <2>1, <3>2
    <3> QED
      BY <3>1, <3>2
  <2> HIDE DEF g
  <2> QED
    BY <2>3, <2>4, <2>5
<1> HIDE DEF G
<1>3. \A n \in 0..N : n \in G
  BY <1>1, <1>2, InductionTo
<1> QED
  BY <1>3 DEF G, Iterates

Passes == {"declared", "retired file", "retired region"}

LEMMA VisitFacts ==
  /\ Visits \in Seq(Passes \X Targets)
  /\ \A t \in Targets, k \in Passes : \E n \in 1..Len(Visits) : Visits[n] = <<k, t>>
<1> DEFINE L == Len(Order)
           a == Pass("declared")
           b == Pass("retired file")
           c == Pass("retired region")
<1>1. L \in Nat /\ DOMAIN Order = 1..L /\ \A i \in 1..L : Order[i] \in Targets
  BY EveryTargetIsListed
<1>2. ASSUME NEW k \in Passes
      PROVE  /\ Pass(k) \in Seq(Passes \X Targets) /\ Len(Pass(k)) = L
             /\ \A i \in 1..L : Pass(k)[i] = <<k, Order[i]>>
  <2>1. Pass(k) \in [1..L -> Passes \X Targets] /\ \A i \in 1..L : Pass(k)[i] = <<k, Order[i]>>
    BY <1>1 DEF Pass
  <2>2. Pass(k) \in Seq(Passes \X Targets)
    BY <1>1, <2>1, SeqDef
  <2> QED
    BY <1>1, <2>1, <2>2
<1>3. "declared" \in Passes /\ "retired file" \in Passes /\ "retired region" \in Passes
  BY DEF Passes
<1>4. /\ a \in Seq(Passes \X Targets) /\ b \in Seq(Passes \X Targets) /\ c \in Seq(Passes \X Targets)
      /\ Len(a) = L /\ Len(b) = L /\ Len(c) = L
      /\ \A i \in 1..L : /\ a[i] = <<"declared", Order[i]>> /\ b[i] = <<"retired file", Order[i]>>
                         /\ c[i] = <<"retired region", Order[i]>>
  BY <1>2, <1>3
<1>5. Visits = a \o b \o c
  BY DEF Visits
<1> HIDE DEF L, a, b, c
<1>6. /\ Visits \in Seq(Passes \X Targets) /\ Len(Visits) = L + L + L
      /\ \A i \in 1..L : /\ Visits[i] = a[i] /\ Visits[i + L] = b[i] /\ Visits[i + L + L] = c[i]
  <2> DEFINE S == Passes \X Targets
             d == a \o b
             e == d \o c
  <2>1. a \in Seq(S) /\ b \in Seq(S) /\ c \in Seq(S) /\ Visits = e
    BY <1>4, <1>5
  <2> HIDE DEF S
  <2>2. /\ d \in Seq(S) /\ Len(d) = Len(a) + Len(b)
        /\ \A i \in 1..(Len(a) + Len(b)) : d[i] = IF i <= Len(a) THEN a[i] ELSE b[i - Len(a)]
    BY Zenon, <2>1, ConcatProperties
  <2> HIDE DEF d
  <2>6. d \in Seq(S) /\ c \in Seq(S)
    BY <2>1, <2>2
  <2>3. /\ e \in Seq(S) /\ Len(e) = Len(d) + Len(c)
        /\ \A i \in 1..(Len(d) + Len(c)) : e[i] = IF i <= Len(d) THEN d[i] ELSE c[i - Len(d)]
    BY Zenon, <2>6, ConcatProperties
  <2> HIDE DEF e
  <2>4. ASSUME NEW i \in 1..L PROVE e[i] = a[i] /\ e[i + L] = b[i] /\ e[i + L + L] = c[i]
    <3>1. /\ \A k \in 1..(L + L) : d[k] = IF k <= L THEN a[k] ELSE b[k - L]
          /\ \A k \in 1..(L + L + L) : e[k] = IF k <= L + L THEN d[k] ELSE c[k - (L + L)]
      BY <1>4, <2>2, <2>3
    <3>2. /\ i \in 1..(L + L) /\ i \in 1..(L + L + L) /\ i <= L /\ i <= L + L
          /\ i + L \in 1..(L + L) /\ i + L \in 1..(L + L + L) /\ i + L <= L + L /\ ~(i + L <= L)
          /\ (i + L) - L = i
          /\ i + L + L \in 1..(L + L + L) /\ ~(i + L + L <= L + L) /\ (i + L + L) - (L + L) = i
      BY <1>1
    <3> QED
      BY Zenon, <3>1, <3>2
  <2>5. Len(e) = L + L + L
    BY <1>1, <1>4, <2>2, <2>3
  <2> QED
    BY <2>1, <2>3, <2>4, <2>5 DEF S
<1>7. ASSUME NEW t \in Targets, NEW k \in Passes
      PROVE  \E n \in 1..Len(Visits) : Visits[n] = <<k, t>>
  <2>1. PICK i \in 1..L : Order[i] = t
    BY <1>1, EveryTargetIsListed
  <2>2. /\ i \in 1..Len(Visits) /\ i + L \in 1..Len(Visits) /\ i + L + L \in 1..Len(Visits)
    BY <1>1, <1>6
  <2>3. /\ Visits[i] = <<"declared", t>> /\ Visits[i + L] = <<"retired file", t>>
        /\ Visits[i + L + L] = <<"retired region", t>>
    BY <1>4, <1>6, <2>1
  <2> QED
    BY <2>2, <2>3 DEF Passes
<1> QED
  BY <1>6, <1>7

LEMMA NothingOK ==
  ASSUME TypeOK
  PROVE  Nothing \in Plans /\ PlanOK(Nothing, Done(0))
<1>1. /\ Nothing \in Plans /\ Nothing.text = disk /\ Nothing.writes = <<>> /\ Nothing.lock = lock
  BY DEF Nothing, Plans, Records, TypeOK
<1>2. \A t \in Targets : t \in Done(0) <=> ~Named(t)
  BY DEF Done, PassOf, Named
<1>3. \A t \in Targets : ~Named(t) =>
        RecordAfter(t) = lock[t] /\ BodyAfter(t) = Body(disk[t[1]], t[2]) /\ ~(t[2] = File /\ Replaced(t[1]))
  <2> SUFFICES ASSUME NEW t \in Targets, ~Named(t)
               PROVE  /\ RecordAfter(t) = lock[t] /\ BodyAfter(t) = Body(disk[t[1]], t[2])
                      /\ ~(t[2] = File /\ Replaced(t[1]))
    OBVIOUS
  <2>1. t = <<t[1], t[2]>>
    BY TargetTypes
  <2> QED
    BY <2>1 DEF Named, RecordAfter, BodyAfter, Replaced
<1>4. RecordsOK(lock, Done(0))
  BY <1>2, <1>3 DEF RecordsOK, Records, TypeOK
<1>5. ASSUME NEW p \in Paths, NEW r \in Regions
      PROVE  Body(disk[p], r) = IF <<p, r>> \in Done(0) THEN BodyAfter(<<p, r>>) ELSE Body(disk[p], r)
  <2>1. <<p, r>> \in Targets /\ <<p, r>>[1] = p /\ <<p, r>>[2] = r
    BY PairTypes
  <2> QED
    BY <1>2, <1>3, <2>1
<1>6. ASSUME NEW p \in Paths PROVE Ends(<<>>, disk[p], p, Outcome(disk, Done(0), p))
  <2>1. <<p, File>> \in Targets /\ <<p, File>>[1] = p /\ <<p, File>>[2] = File
    BY FileTypes
  <2>2. Outcome(disk, Done(0), p) = disk[p]
    BY <1>2, <1>3, <2>1 DEF Outcome
  <2> QED
    BY <2>2, EndsNil
<1>7. TextsOK(disk, <<>>, Done(0))
  BY <1>5, <1>6 DEF TextsOK, TypeOK
<1> QED
  BY <1>1, <1>4, <1>7 DEF PlanOK

\* What handles a target makes a plan of a plan.
LEMMA HandleType ==
  ASSUME TypeOK, NEW plan \in Plans, NEW t \in Targets, Named(t)
  PROVE  Handle(plan, t) \in Plans
<1>1. /\ t = <<t[1], t[2]>> /\ t[1] \in Paths /\ t[2] \in Regions \cup {File}
      /\ catalog[t] \in Versions \cup {None} /\ disk[t[1]] \in Contents
      /\ None \in Versions \cup {None} /\ None \in Bodies /\ Missing \in Contents
      /\ catalog[t] \in Bodies
  BY TargetTypes DEF Bodies, Contents
<1>2. \A q \in Plans, v \in Versions \cup {None} : Record(q, t, v) \in Plans
  BY RecordFields
<1>3. \A p \in Paths, c \in Contents : Write(plan, p, c) \in Plans
  BY WriteFields
<1>4. \A p \in Paths, v \in Versions : ProposeTo(plan, p, v) \in Plans
  BY ProposeFields
<1>5. \A p \in Paths, r \in Regions, b \in Bodies : SpliceInto(plan, p, r, b) \in Plans
  BY SpliceFields
<1>6. CASE catalog[t] # None /\ t[2] = File
  <2>1. Rendered(catalog[t]) \in Contents /\ catalog[t] \in Versions
    BY <1>1, <1>6, RenderedIsHost DEF Contents
  <2>2. \/ Handle(plan, t) = Record(plan, t, catalog[t])
        \/ Handle(plan, t) = Record(Write(plan, t[1], Rendered(catalog[t])), t, catalog[t])
        \/ Handle(plan, t) = plan
        \/ Handle(plan, t) = Record(ProposeTo(plan, t[1], catalog[t]), t, catalog[t])
    BY <1>1, <1>6 DEF Handle, PlanItem, PlanFile
  <2> QED
    BY <1>1, <1>2, <1>3, <1>4, <2>1, <2>2
<1>7. CASE catalog[t] # None /\ t[2] # File
  <2>1. \/ Handle(plan, t) = Record(plan, t, catalog[t])
        \/ Handle(plan, t) = Record(SpliceInto(plan, t[1], t[2], catalog[t]), t, catalog[t])
        \/ Handle(plan, t) = plan
    BY <1>1, <1>7 DEF Handle, PlanItem, PlanRegion
  <2> QED
    BY <1>1, <1>2, <1>5, <1>7, <2>1
<1>8. CASE catalog[t] = None /\ t[2] = File
  <2>1. \/ Handle(plan, t) = Record(Write(plan, t[1], Missing), t, None)
        \/ Handle(plan, t) = Record(plan, t, None)
    BY <1>1, <1>8 DEF Handle, Retire, RetireFile
  <2> QED
    BY <1>1, <1>2, <1>3, <2>1
<1>9. CASE catalog[t] = None /\ t[2] # File
  <2>1. \/ Handle(plan, t) = Record(plan, t, None)
        \/ Handle(plan, t) = Record(SpliceInto(plan, t[1], t[2], None), t, None)
        \/ Handle(plan, t) = plan
    BY <1>1, <1>9 DEF Handle, Retire, RetireRegion
  <2> QED
    BY <1>1, <1>2, <1>5, <1>9, <2>1
<1> QED
  BY <1>6, <1>7, <1>8, <1>9

VisitOf(plan, n) ==
  IF Visits[n][1] = PassOf(Visits[n][2]) THEN Handle(plan, Visits[n][2]) ELSE plan

\* The recursion of build_plan's passes is a definition: there is such a function.
LEMMA PlannedRecursion ==
  ASSUME TypeOK
  PROVE  /\ Planned[0] = Nothing
         /\ \A n \in 1..Len(Visits) : Planned[n] = VisitOf(Planned[n - 1], n)
<1> DEFINE N == Len(Visits)
           step == [n \in 1..N |-> [plan \in Plans |-> VisitOf(plan, n)]]
           Clause(f, n) == IF n = 0 THEN Nothing
                           ELSE LET t == Visits[n][2]
                                IN  IF Visits[n][1] = PassOf(t) THEN Handle(f[n - 1], t) ELSE f[n - 1]
<1>1. N \in Nat /\ \A n \in 1..N : Visits[n] \in Passes \X Targets
  BY VisitFacts
<1>2. \A n \in 1..N, plan \in Plans : VisitOf(plan, n) \in Plans
  <2> SUFFICES ASSUME NEW n \in 1..N, NEW plan \in Plans PROVE VisitOf(plan, n) \in Plans
    OBVIOUS
  <2>1. Visits[n][1] \in Passes /\ Visits[n][2] \in Targets
    BY <1>1
  <2>2. Visits[n][1] = PassOf(Visits[n][2]) => Named(Visits[n][2])
    BY <2>1 DEF Passes, PassOf, Named
  <2> QED
    BY <2>1, <2>2, HandleType DEF VisitOf
<1>3. step \in [1..N -> [Plans -> Plans]]
  BY <1>2
<1>4. PICK f : Iterates(f, N, Plans, Nothing, step)
  <2>1. N \in Nat
    BY <1>1
  <2>2. Nothing \in Plans
    BY NothingOK
  <2>3. step \in Steps(N, Plans)
    BY <1>3 DEF Steps
  <2> HIDE DEF step, N
  <2>4. \E f : Iterates(f, N, Plans, Nothing, step)
    BY <2>1, <2>2, <2>3, Iteration
  <2> QED
    BY <2>4
<1>5. \A n \in 1..N : f[n] = VisitOf(f[n - 1], n)
  <2> SUFFICES ASSUME NEW n \in 1..N PROVE f[n] = VisitOf(f[n - 1], n)
    OBVIOUS
  <2>1. f[n - 1] \in Plans /\ f[n] = step[n][f[n - 1]]
    <3>1. N \in Nat
      BY <1>1
    <3> HIDE DEF step, N
    <3> QED
      BY <1>4, <3>1 DEF Iterates
  <2> QED
    BY <2>1
<1>6. f = [n \in 0..N |-> Clause(f, n)]
  BY <1>4, <1>5 DEF VisitOf, Iterates
<1>7. Planned = [n \in 0..N |-> Clause(Planned, n)]
  BY <1>6 DEF Planned
<1>8. ASSUME NEW n \in 0..N PROVE Planned[n] = Clause(Planned, n)
  BY <1>7
<1> QED
  BY <1>1, <1>8 DEF VisitOf

\* Each visit plans its target; the last one leaves none unplanned.
LEMMA DoneStep ==
  ASSUME TypeOK, NEW n \in 1..Len(Visits)
  PROVE  Done(n) = IF Visits[n][1] = PassOf(Visits[n][2]) THEN Done(n - 1) \cup {Visits[n][2]} ELSE Done(n - 1)
<1> DEFINE t == Visits[n][2]
<1>1. /\ Len(Visits) \in Nat /\ t \in Targets /\ Visits[n] = <<Visits[n][1], t>>
  BY VisitFacts
<1>2. \A i : i \in 1..n <=> i \in 1..(n - 1) \/ i = n
  BY <1>1
<1> QED
  BY <1>1, <1>2 DEF Done

LEMMA AllDone == Done(Len(Visits)) = Targets
BY VisitFacts DEF Done, PassOf, Passes

LEMMA PlannedOK ==
  ASSUME TypeOK, Unedited
  PROVE  PlanOK(Plan, Targets)
<1> DEFINE G == {n \in 0..Len(Visits) : PlanOK(Planned[n], Done(n))}
<1>1. Len(Visits) \in Nat
  BY VisitFacts
<1>2. 0 \in G
  BY <1>1, NothingOK, PlannedRecursion
<1>3. ASSUME NEW n \in 1..Len(Visits), n - 1 \in G PROVE n \in G
  <2>1. /\ PlanOK(Planned[n - 1], Done(n - 1)) /\ Planned[n] = VisitOf(Planned[n - 1], n)
        /\ Visits[n] \in Passes \X Targets
    BY <1>3, PlannedRecursion, VisitFacts
  <2>2. Visits[n][1] \in Passes /\ Visits[n][2] \in Targets
    BY <2>1
  <2>3. CASE Visits[n][1] = PassOf(Visits[n][2])
    <3>1. Named(Visits[n][2])
      BY <2>2, <2>3 DEF Passes, PassOf, Named
    <3>2. PlanOK(Handle(Planned[n - 1], Visits[n][2]), Done(n - 1) \cup {Visits[n][2]})
      BY <2>1, <2>2, <3>1, HandleStep
    <3>3. Planned[n] = Handle(Planned[n - 1], Visits[n][2]) /\ Done(n) = Done(n - 1) \cup {Visits[n][2]}
      BY <2>1, <2>3, DoneStep DEF VisitOf
    <3>4. PlanOK(Planned[n], Done(n))
      BY <3>2, <3>3
    <3> QED
      BY <1>1, <3>4
  <2>4. CASE Visits[n][1] # PassOf(Visits[n][2])
    <3>1. Planned[n] = Planned[n - 1] /\ Done(n) = Done(n - 1)
      BY <2>1, <2>4, DoneStep DEF VisitOf
    <3>2. PlanOK(Planned[n], Done(n))
      BY <2>1, <3>1
    <3> QED
      BY <1>1, <3>2
  <2> QED
    BY <2>3, <2>4
<1>4. Len(Visits) \in G
  <2> HIDE DEF G
  <2>1. \A n \in 0..Len(Visits) : n \in G
    BY <1>1, <1>2, <1>3, InductionTo
  <2> QED
    BY <1>1, <2>1
<1> QED
  BY <1>4, AllDone DEF Plan

\* What a plan leaves and records is what is asked of a completed run.
LEMMA RegionAccomplished ==
  ASSUME TypeOK, Unedited, NEW p \in Paths, NEW r \in Regions, NEW c, Body(c, r) = BodyAfter(<<p, r>>)
  PROVE  LET t == <<p, r>>
         IN  Final(t, c, RecordAfter(t)) /\ (t \notin edited => Current(t, c, RecordAfter(t)))
<1> DEFINE t == <<p, r>>
<1>1. t \in Targets /\ t[1] = p /\ t[2] = r /\ r # File
  BY PairTypes, MarksAreNoTexts
<1>2. t \notin edited => Body(disk[p], r) \in {None, Empty, lock[t], catalog[t]}
  BY <1>1 DEF Unedited, Generated
<1>3. Body(c, r) = (IF Named(t) /\ Body(disk[p], r) \in {None, Empty, lock[t]}
                    THEN catalog[t] ELSE Body(disk[p], r))
  BY <1>1 DEF BodyAfter
<1>4. RecordAfter(t) = (IF Body(disk[p], r) \in {None, Empty, lock[t], catalog[t]}
                        THEN catalog[t] ELSE lock[t])
  BY <1>1 DEF RecordAfter
<1> HIDE DEF t
<1>5. Final(t, c, RecordAfter(t))
  BY <1>1, <1>3, <1>4 DEF Final, Named
<1>6. t \notin edited => Current(t, c, RecordAfter(t))
  BY <1>1, <1>2, <1>3, <1>4 DEF Current, Named
<1> QED
  BY <1>5, <1>6 DEF t

LEMMA FileAccomplished ==
  ASSUME TypeOK, Unedited, NEW text, NEW writes, TextsOK(text, writes, Targets), NEW p \in Paths
  PROVE  LET t == <<p, File>>
             c == Outcome(text, Targets, p)
         IN  Final(t, c, RecordAfter(t)) /\ (t \notin edited => Current(t, c, RecordAfter(t)))
<1> DEFINE t == <<p, File>>
           c == Outcome(text, Targets, p)
<1>1. t \in Targets /\ t[1] = p /\ t[2] = File /\ catalog[t] \in Versions \cup {None}
  BY FileTypes
<1>2. RecordAfter(t) = catalog[t]
  BY <1>1 DEF RecordAfter
<1>3. c = IF Replaced(p) THEN FileAfter(p) ELSE text[p]
  BY <1>1 DEF Outcome
<1>4. text[p] # disk[p] => text[p] # Missing /\ ~Bare(p)
  BY DEF TextsOK
<1>5. ASSUME catalog[t] # None
      PROVE  c # Missing /\ (t \notin edited => c = Rendered(catalog[t]))
  <2>1. Rendered(catalog[t]) # Missing /\ \A r \in Regions : Body(Rendered(catalog[t]), r) = None
    BY <1>1, <1>5, RenderedIsHost
  <2>4. ~Hosting(p)
    BY <1>5, PairTypes DEF Hosting
  <2>2. CASE Replaced(p)
    BY <1>3, <1>5, <2>1, <2>2 DEF FileAfter
  <2>3. CASE ~Replaced(p)
    <3>1. disk[p] # Missing /\ (t \notin edited => disk[p] = Rendered(catalog[t]))
      BY <1>1, <1>5, <2>1, <2>3, <2>4 DEF Replaced, Named, Unedited, Generated
    <3>2. disk[p] = Rendered(catalog[t]) => Bare(p)
      BY <1>5, <2>1, PairTypes DEF Bare
    <3> QED
      BY <1>3, <1>4, <2>3, <3>1, <3>2
  <2> QED
    BY <2>2, <2>3
<1>6. ASSUME catalog[t] = None, t \notin edited, ~Hosting(p) PROVE c = Missing
  <2>1. \A r \in Regions : catalog[<<p, r>>] = None
    BY <1>6 DEF Hosting
  <2>2. CASE Replaced(p)
    BY <1>3, <1>6, <2>2 DEF FileAfter
  <2>3. CASE ~Replaced(p)
    <3>1. disk[p] \in {Missing, Rendered(lock[t]), Rendered(None)}
      BY <1>1, <1>6 DEF Unedited, Generated
    <3>2. disk[p] \in {Missing, Rendered(lock[t])} /\ (disk[p] = Rendered(lock[t]) => lock[t] # None)
      BY <3>1, FileTypes, NoneIsNotRendered
    <3>3. disk[p] = Missing
      BY <1>6, <2>1, <2>3, <3>2 DEF Replaced, Named
    <3>4. Bare(p)
      BY <2>1, <3>3 DEF Bare, Body
    <3> QED
      BY <1>3, <1>4, <2>3, <3>3, <3>4
  <2> QED
    BY <2>2, <2>3
<1> HIDE DEF t, c
<1> SUFFICES Final(t, c, RecordAfter(t)) /\ (t \notin edited => Current(t, c, RecordAfter(t)))
  BY DEF t, c
<1> QED
  BY <1>1, <1>2, <1>5, <1>6 DEF Final, Current

LEMMA PlanAccomplishes ==
  ASSUME TypeOK, Unedited, NEW plan, PlanOK(plan, Targets)
  PROVE  /\ \A i \in DOMAIN plan.writes : Harmless(plan.writes[i])
         /\ \E out \in [Paths -> Contents] :
              /\ \A p \in Paths : Ends(plan.writes, disk[p], p, out[p])
              /\ Accomplished(out, plan.lock)
<1> DEFINE out == [p \in Paths |-> Outcome(plan.text, Targets, p)]
<1>1. TextsOK(plan.text, plan.writes, Targets) /\ RecordsOK(plan.lock, Targets)
  BY DEF PlanOK
<1>2. \A p \in Paths : out[p] = Outcome(plan.text, Targets, p)
  OBVIOUS
<1>3. out \in [Paths -> Contents]
  <2> SUFFICES ASSUME NEW p \in Paths PROVE Outcome(plan.text, Targets, p) \in Contents
    OBVIOUS
  <2>1. plan.text[p] \in Contents /\ disk[p] \in Contents
    BY <1>1 DEF TextsOK, TypeOK
  <2> QED
    BY <2>1, ReplacedFacts DEF Outcome
<1> HIDE DEF out
<1>4. \A p \in Paths : Ends(plan.writes, disk[p], p, out[p])
  BY <1>1, <1>2 DEF TextsOK
<1>5. ASSUME NEW p \in Paths, NEW r \in Regions
      PROVE  Body(out[p], r) = BodyAfter(<<p, r>>)
  <2>1. /\ <<p, r>> \in Targets /\ <<p, File>> \in Targets
        /\ <<p, r>>[1] = p /\ <<p, r>>[2] = r
    BY PairTypes
  <2>2. CASE Replaced(p)
    <3>1. out[p] = FileAfter(p)
      BY <1>2, <2>1, <2>2 DEF Outcome
    <3>2. Body(out[p], r) = None /\ Body(disk[p], r) = None /\ catalog[<<p, r>>] = None
      BY <2>2, <3>1, ReplacedFacts DEF Bare
    <3> QED
      BY <2>1, <3>2 DEF BodyAfter
  <2>3. CASE ~Replaced(p)
    <3>1. out[p] = plan.text[p]
      BY <1>2, <2>3 DEF Outcome
    <3> QED
      BY <1>1, <2>1, <3>1 DEF TextsOK
  <2> QED
    BY <2>2, <2>3
<1>6. ASSUME NEW t \in Targets
      PROVE  /\ Final(t, out[t[1]], plan.lock[t])
             /\ t \notin edited => Current(t, out[t[1]], plan.lock[t])
  <2>1. t = <<t[1], t[2]>> /\ t[1] \in Paths /\ t[2] \in Regions \cup {File}
    BY TargetTypes
  <2>2. plan.lock[t] = RecordAfter(t)
    BY <1>1 DEF RecordsOK
  <2>3. CASE t[2] = File
    BY <1>1, <1>2, <2>1, <2>2, <2>3, FileAccomplished
  <2>4. CASE t[2] # File
    <3>1. t[2] \in Regions
      BY <2>1, <2>4
    <3>2. Body(out[t[1]], t[2]) = BodyAfter(<<t[1], t[2]>>)
      BY <1>5, <2>1, <3>1
    <3> QED
      BY <2>1, <2>2, <3>1, <3>2, RegionAccomplished
  <2> QED
    BY <2>3, <2>4
<1>7. \A i \in DOMAIN plan.writes : Harmless(plan.writes[i])
  BY <1>1 DEF TextsOK
<1> QED
  BY <1>3, <1>4, <1>6, <1>7 DEF Accomplished

-----------------------------------------------------------------------------
(* The steps of a run, and what happens between runs. *)

LEMMA InitInvariant == Init => IInv
<1> SUFFICES ASSUME Init PROVE IInv
  OBVIOUS
<1>1. TypeOK
  <2>1. 0 \in 0..MaxEdits /\ 0 \in 0..MaxReleases
    BY BoundsAreNumbers
  <2>2. /\ catalog \in Catalogs /\ running = FALSE /\ settled = FALSE /\ edited = {}
        /\ edits = 0 /\ releases = 0
    BY DEF Init
  <2>3. disk \in [Paths -> Contents] /\ proposed \in [Paths -> Versions \cup {None}]
    BY DEF Init, Contents
  <2>4. lock \in [Targets -> Versions \cup {None}] /\ next = lock
    BY DEF Init
  <2> QED
    BY <2>1, <2>2, <2>3, <2>4 DEF TypeOK
<1>2. Unedited
  <2>1. \A t \in Targets : t[1] \in Paths
    BY DEF Targets
  <2> QED
    BY <2>1 DEF Init, Unedited, Generated, Body
<1> QED
  BY <1>1, <1>2 DEF Init, IInv, Underway, Completed

LEMMA StartInvariant ==
  ASSUME IInv, Start
  PROVE  IInv'
<1>1. TypeOK /\ Unedited
  BY DEF IInv
<1>2. PICK plan : plan = Plan
  OBVIOUS
<1>3. PlanOK(plan, Targets)
  BY <1>1, <1>2, PlannedOK
<1>4. /\ running' = TRUE /\ todo' = plan.writes /\ next' = plan.lock /\ settled' = FALSE
      /\ UNCHANGED <<catalog, disk, proposed, lock, edited, edits, releases>>
  BY <1>2 DEF Start
<1>5. TypeOK' /\ (todo \in Seq(Items))'
  BY <1>1, <1>3, <1>4 DEF PlanOK, Plans, Records, TypeOK
<1>6. Unedited'
  BY <1>1, <1>4 DEF Unedited, Generated, Hosting
<1>7. /\ \A i \in DOMAIN plan.writes : Harmless(plan.writes[i])
      /\ \E out \in [Paths -> Contents] :
           /\ \A p \in Paths : Ends(plan.writes, disk[p], p, out[p])
           /\ Accomplished(out, plan.lock)
  BY <1>1, <1>3, PlanAccomplishes
<1>8. Underway'
  BY <1>4, <1>7 DEF Underway, Harmless, Generated, Accomplished, Final, Current, Hosting
<1> QED
  BY <1>4, <1>5, <1>6, <1>8 DEF IInv, Completed

\* What a write of the plan does to each path.
LEMMA ApplyFacts ==
  ASSUME IInv, Apply
  PROVE  /\ Head(todo) \in Items /\ Harmless(Head(todo))
         /\ disk' \in [Paths -> Contents] /\ proposed' \in [Paths -> Versions \cup {None}]
         /\ \A p \in Paths : disk'[p] = IF Writes(Head(todo), p) THEN Head(todo).content ELSE disk[p]
         /\ \A p \in Paths : Agrees(disk'[p], disk[p])
<1> DEFINE w == Head(todo)
<1>1. running /\ todo # <<>> /\ todo \in Seq(Items) /\ TypeOK /\ Underway
  BY DEF Apply, IInv
<1>2. 1 \in DOMAIN todo /\ w = todo[1] /\ w \in Items
  BY <1>1
<1>3. Harmless(w)
  BY <1>1, <1>2 DEF Underway
<1>4. IF "proposal" \in DOMAIN w
      THEN proposed' = [proposed EXCEPT ![w.path] = w.proposal] /\ UNCHANGED disk
      ELSE disk' = [disk EXCEPT ![w.path] = w.content] /\ UNCHANGED proposed
  BY DEF Apply
<1> HIDE DEF w
<1>5. IF "proposal" \in DOMAIN w THEN w.path \in Paths /\ w.proposal \in Versions
                                 ELSE w.path \in Paths /\ w.content \in Contents
  BY <1>2 DEF Items
<1>6. disk' \in [Paths -> Contents] /\ proposed' \in [Paths -> Versions \cup {None}]
  BY <1>1, <1>4, <1>5 DEF TypeOK
<1>7. \A p \in Paths : disk'[p] = IF Writes(w, p) THEN w.content ELSE disk[p]
  BY <1>1, <1>4, <1>5 DEF Writes, TypeOK
<1>8. \A p \in Paths : Agrees(disk'[p], disk[p])
  BY <1>3, <1>7, AgreesEquivalence DEF Harmless, Writes
<1> QED
  BY <1>2, <1>3, <1>6, <1>7, <1>8 DEF w

LEMMA ApplyInvariant ==
  ASSUME IInv, Apply
  PROVE  IInv'
<1> DEFINE w == Head(todo)
<1>1. /\ running /\ todo # <<>> /\ todo \in Seq(Items) /\ TypeOK /\ Unedited /\ Underway
      /\ todo' = Tail(todo)
      /\ UNCHANGED <<catalog, lock, running, next, settled, edited, edits, releases>>
  BY DEF Apply, IInv
<1>2. ~settled
  BY <1>1 DEF IInv, Completed
<1>3. /\ w \in Items /\ Harmless(w)
      /\ disk' \in [Paths -> Contents] /\ proposed' \in [Paths -> Versions \cup {None}]
      /\ \A p \in Paths : disk'[p] = IF Writes(w, p) THEN w.content ELSE disk[p]
      /\ \A p \in Paths : Agrees(disk'[p], disk[p])
  BY ApplyFacts
<1>4. /\ todo' \in Seq(Items)
      /\ \A i \in DOMAIN todo' : i + 1 \in DOMAIN todo /\ todo'[i] = todo[i + 1] /\ todo'[i] \in Items
  BY <1>1
<1> HIDE DEF w
<1>5. TypeOK'
  BY <1>1, <1>3 DEF TypeOK
<1>6. Unedited'
  <2> SUFFICES ASSUME NEW t \in Targets, t \notin edited PROVE Generated(t, disk'[t[1]])
    BY <1>1 DEF Unedited, Generated, Hosting
  <2>1. t[1] \in Paths /\ Generated(t, disk[t[1]])
    BY <1>1, TargetTypes DEF Unedited
  <2> QED
    BY <1>3, <2>1 DEF Harmless, Writes
<1>7. ASSUME NEW i \in DOMAIN todo' PROVE Harmless(todo[i])'
  <2>1. PICK v : v = todo'[i]
    OBVIOUS
  <2>2. Harmless(v) /\ v \in Items
    BY <1>1, <1>4, <2>1 DEF Underway
  <2>3. ASSUME "proposal" \notin DOMAIN v
        PROVE  /\ Agrees(v.content, disk'[v.path])
               /\ \A t \in Targets \ edited : t[1] = v.path => Generated(t, v.content)
    <3>1. v.path \in Paths
      BY <2>2, <2>3 DEF Items
    <3> QED
      BY <1>3, <2>2, <2>3, <3>1, AgreesEquivalence DEF Harmless
  <2> QED
    BY <1>1, <2>1, <2>3 DEF Harmless, Generated, Hosting
<1>8. PICK out \in [Paths -> Contents] :
        (\A p \in Paths : Ends(todo, disk[p], p, out[p])) /\ Accomplished(out, next)
  BY <1>1 DEF Underway
<1>9. \A p \in Paths : Ends(todo', disk'[p], p, out[p])
  <2> SUFFICES ASSUME NEW p \in Paths PROVE Ends(todo', disk'[p], p, out[p])
    OBVIOUS
  <2>1. Ends(Tail(todo), IF Writes(w, p) THEN w.content ELSE disk[p], p, out[p])
    BY <1>1, <1>8, EndsTail DEF w
  <2> QED
    BY <1>1, <1>3, <2>1
<1>10. Accomplished(out, next)'
  BY <1>1, <1>8 DEF Accomplished, Final, Current, Hosting
<1>11. Underway'
  BY <1>7, <1>9, <1>10 DEF Underway
<1> QED
  BY <1>1, <1>2, <1>4, <1>5, <1>6, <1>11 DEF IInv, Completed

LEMMA SaveInvariant ==
  ASSUME IInv, Save
  PROVE  IInv'
<1>1. /\ running /\ todo = <<>> /\ TypeOK /\ Underway
      /\ lock' = next /\ running' = FALSE /\ settled' = TRUE
      /\ edited' = {t \in edited : ~AsRecorded(t, next)}
      /\ UNCHANGED <<catalog, disk, proposed, todo, next, edits, releases>>
  BY DEF Save, IInv
<1>2. PICK out \in [Paths -> Contents] :
        (\A p \in Paths : Ends(<<>>, disk[p], p, out[p])) /\ Accomplished(out, next)
  BY <1>1 DEF Underway
<1>3. \A p \in Paths : out[p] = disk[p]
  BY <1>2, EndsNil
<1>4. ASSUME NEW t \in Targets
      PROVE  /\ Final(t, disk[t[1]], next[t])
             /\ t \notin edited' => Current(t, disk[t[1]], next[t])
  <2>1. /\ Final(t, disk[t[1]], next[t])
        /\ t \notin edited => Current(t, disk[t[1]], next[t])
    BY <1>1, <1>2, <1>3, TargetTypes DEF Accomplished
  <2>2. AsRecorded(t, next) => Current(t, disk[t[1]], next[t])
    <3>1. disk[t[1]] # Rendered(None)
      BY <1>1, TargetTypes, NoneIsNotRendered
    <3> QED
      BY <2>1, <3>1 DEF AsRecorded, Final, Current
  <2> QED
    BY <1>1, <2>1, <2>2
<1>5. Completed'
  BY <1>1, <1>4 DEF Completed, Accomplished, Final, Current, Hosting
<1>6. Unedited'
  <2> SUFFICES ASSUME NEW t \in Targets, t \notin edited' PROVE Generated(t, disk[t[1]])'
    BY DEF Unedited
  <2>1. Current(t, disk[t[1]], next[t])
    BY <1>4
  <2> QED
    BY <1>1, <2>1 DEF Current, Generated, Hosting
<1>7. TypeOK'
  BY <1>1 DEF TypeOK
<1> QED
  BY <1>1, <1>5, <1>6, <1>7 DEF IInv, Underway

LEMMA StopInvariant ==
  ASSUME IInv, Stop
  PROVE  IInv'
<1>1. /\ running /\ TypeOK /\ Unedited /\ running' = FALSE /\ todo' = <<>> /\ ~settled
      /\ UNCHANGED <<catalog, disk, proposed, lock, next, settled, edited, edits, releases>>
  BY DEF Stop, IInv, Completed
<1>2. TypeOK'
  BY <1>1 DEF TypeOK
<1>3. Unedited'
  BY <1>1 DEF Unedited, Generated, Hosting
<1> QED
  BY <1>1, <1>2, <1>3 DEF IInv, Underway, Completed

LEMMA EditInvariant ==
  ASSUME IInv, NEW p \in Paths, Edit(p)
  PROVE  IInv'
<1>1. /\ ~running /\ TypeOK /\ Unedited /\ todo \in Seq(Items) /\ edits < MaxEdits /\ edits' = edits + 1
      /\ settled' = FALSE
      /\ UNCHANGED <<catalog, proposed, lock, running, todo, next, releases>>
  BY DEF Edit, IInv
<1>2. PICK content \in Contents :
        /\ disk' = [disk EXCEPT ![p] = content]
        /\ edited' = {t \in edited : t[1] # p}
                     \cup {t \in {p} \X (Regions \cup {File}) : ~Blank(content, t) /\
                             (t \in edited \/ t[2] = File \/ Body(disk[p], t[2]) # Body(content, t[2]))}
  BY DEF Edit
<1>3. disk' \in [Paths -> Contents] /\ \A q \in Paths : disk'[q] = IF q = p THEN content ELSE disk[q]
  BY <1>1, <1>2 DEF TypeOK
<1>4. edited' \subseteq Targets
  BY <1>1, <1>2 DEF TypeOK, Targets
<1>5. edits' \in 0..MaxEdits
  BY <1>1, BoundsAreNumbers DEF TypeOK
<1>6. TypeOK'
  <2>1. /\ running' = FALSE /\ settled' = FALSE /\ catalog' \in Catalogs
        /\ proposed' \in [Paths -> Versions \cup {None}]
        /\ lock' \in [Targets -> Versions \cup {None}] /\ next' \in [Targets -> Versions \cup {None}]
        /\ releases' \in 0..MaxReleases
    BY <1>1 DEF TypeOK
  <2> QED
    BY <1>3, <1>4, <1>5, <2>1 DEF TypeOK
<1>7. Unedited'
  <2> SUFFICES ASSUME NEW t \in Targets, t \notin edited' PROVE Generated(t, disk'[t[1]])
    BY <1>1 DEF Unedited, Generated, Hosting
  <2>1. t = <<t[1], t[2]>> /\ t[1] \in Paths /\ t[2] \in Regions \cup {File}
    BY <1>1, TargetTypes
  <2>2. CASE t[1] # p
    <3>1. t \notin edited
      BY <1>2, <2>2
    <3> QED
      BY <1>1, <1>3, <2>1, <2>2, <3>1 DEF Unedited
  <2>3. CASE t[1] = p
    <3>1. t \in {p} \X (Regions \cup {File})
      BY <2>1, <2>3
    <3>2. \/ Blank(content, t)
          \/ t \notin edited /\ t[2] # File /\ Body(disk[p], t[2]) = Body(content, t[2])
      BY <1>2, <3>1
    <3>3. Generated(t, content)
      BY <1>1, <2>3, <3>2 DEF Blank, Generated, Unedited
    <3> QED
      BY <1>3, <2>1, <2>3, <3>3
  <2> QED
    BY <2>2, <2>3
<1> QED
  BY <1>1, <1>6, <1>7 DEF IInv, Underway, Completed

LEMMA ReleaseInvariant ==
  ASSUME IInv, Release
  PROVE  IInv'
<1>1. /\ ~running /\ TypeOK /\ todo \in Seq(Items)
      /\ releases < MaxReleases /\ releases' = releases + 1
      /\ catalog' \in Catalogs /\ settled' = FALSE
      /\ edited' = edited \cup {t \in Targets : ~Blank(disk[t[1]], t) /\ ~AsRecorded(t, lock)}
      /\ UNCHANGED <<disk, proposed, lock, running, todo, next, edits>>
  BY DEF Release, IInv
<1>2. releases' \in 0..MaxReleases
  BY <1>1, BoundsAreNumbers DEF TypeOK
<1>3. TypeOK'
  BY <1>1, <1>2 DEF TypeOK
<1>4. Unedited'
  <2> SUFFICES ASSUME NEW t \in Targets, t \notin edited' PROVE Generated(t, disk[t[1]])'
    BY DEF Unedited
  <2>1. Blank(disk[t[1]], t) \/ AsRecorded(t, lock)
    BY <1>1
  <2> QED
    BY <1>1, <2>1 DEF Blank, AsRecorded, Generated
<1> QED
  BY <1>1, <1>3, <1>4 DEF IInv, Underway, Completed

LEMMA StutterInvariant ==
  ASSUME IInv, UNCHANGED vars
  PROVE  IInv'
<1>1. UNCHANGED <<catalog, disk, proposed, lock, running, todo, next, settled, edited, edits, releases>>
  BY DEF vars
<1>2. (TypeOK /\ todo \in Seq(Items))'
  BY <1>1 DEF IInv, TypeOK
<1>3. \A t, c : Generated(t, c)' <=> Generated(t, c)
  BY <1>1 DEF Generated, Hosting
<1>4. \A contents, records : Accomplished(contents, records)' <=> Accomplished(contents, records)
  BY <1>1 DEF Accomplished, Final, Current, Hosting
<1>5. Unedited'
  BY <1>1, <1>3 DEF IInv, Unedited
<1>6. \A w : Harmless(w)' <=> Harmless(w)
  BY <1>1, <1>3 DEF Harmless
<1>7. Underway'
  BY <1>1, <1>4, <1>6 DEF IInv, Underway
<1>8. Completed'
  BY <1>1, <1>4 DEF IInv, Completed
<1> QED
  BY <1>2, <1>5, <1>7, <1>8 DEF IInv

THEOREM Invariance == Spec => []IInv
<1>1. ASSUME IInv, [Next]_vars PROVE IInv'
  BY <1>1, StartInvariant, ApplyInvariant, SaveInvariant, StopInvariant, EditInvariant,
     ReleaseInvariant, StutterInvariant DEF Next
<1> QED
  BY <1>1, InitInvariant, PTL DEF Spec

-----------------------------------------------------------------------------
(* What every run comes to. *)

\* The lock, the plan and the files keep their types: in particular a plan's
\* projected manifest (projected_manifest in run.rs) has an entry for nothing
\* but a target, and what apply_files_with writes is always a whole host.
THEOREM TypesHold == Spec => []TypeOK
BY Invariance, PTL DEF IInv

\* What Final says of a target: handling it changes nothing of an empty plan.
LEMMA FinalIsHandled ==
  ASSUME TypeOK, NEW t \in Targets, Final(t, disk[t[1]], lock[t]), Named(t)
  PROVE  Handle(Nothing, t) = Nothing
<1>1. t = <<t[1], t[2]>> /\ t[2] \in Regions \cup {File}
  BY TargetTypes
<1>2. Nothing.text = disk /\ Nothing.writes = <<>> /\ Nothing.lock = lock
  BY DEF Nothing
<1>3. Record(Nothing, t, lock[t]) = Nothing
  <2>1. [lock EXCEPT ![t] = lock[t]] = lock
    BY DEF TypeOK
  <2>2. [Nothing EXCEPT !.lock[t] = lock[t]] =
          [text |-> disk, writes |-> <<>>, lock |-> [lock EXCEPT ![t] = lock[t]]]
    BY DEF Nothing
  <2> QED
    BY <2>1, <2>2 DEF Record, Nothing
<1>4. CASE t[2] = File
  <2>1. /\ catalog[t] # None /\ lock[t] = catalog[t] /\ disk[t[1]] # Missing
    BY <1>4 DEF Final, Named
  <2>2. Handle(Nothing, t) = PlanFile(Nothing, t[1])
    BY <1>4, <2>1 DEF Handle, PlanItem
  <2>3. \/ Handle(Nothing, t) = Record(Nothing, t, catalog[t])
        \/ Handle(Nothing, t) = Nothing
    BY <1>1, <1>4, <2>1, <2>2 DEF PlanFile
  <2> QED
    BY <1>3, <2>1, <2>3
<1>5. CASE t[2] # File /\ catalog[t] # None
  <2>1. Handle(Nothing, t) = PlanRegion(Nothing, t[1], t[2])
    BY <1>5 DEF Handle, PlanItem
  <2>2. \/ Body(disk[t[1]], t[2]) = catalog[t] /\ lock[t] = catalog[t]
        \/ Body(disk[t[1]], t[2]) \notin {None, Empty, lock[t], catalog[t]}
    BY <1>5 DEF Final
  <2>3. \/ Handle(Nothing, t) = Record(Nothing, t, catalog[t]) /\ lock[t] = catalog[t]
        \/ Handle(Nothing, t) = Nothing
    BY <1>1, <1>2, <2>1, <2>2 DEF PlanRegion
  <2> QED
    BY <1>3, <2>3
<1>6. CASE t[2] # File /\ catalog[t] = None
  <2>1. Handle(Nothing, t) = RetireRegion(Nothing, t[1], t[2])
    BY <1>6 DEF Handle, Retire
  <2>2. Body(disk[t[1]], t[2]) \notin {None, Empty, lock[t], catalog[t]}
    BY <1>6 DEF Final, Named
  <2> QED
    BY <1>1, <1>2, <2>1, <2>2 DEF RetireRegion
<1> QED
  BY <1>4, <1>5, <1>6

LEMMA SettledPlan ==
  ASSUME IInv, settled
  PROVE  Plan = Nothing
<1> DEFINE G == {n \in 0..Len(Visits) : Planned[n] = Nothing}
<1>1. TypeOK /\ \A t \in Targets : Final(t, disk[t[1]], lock[t])
  BY DEF IInv, Completed, Accomplished
<1>2. Len(Visits) \in Nat
  BY VisitFacts
<1>3. 0 \in G
  BY <1>1, <1>2, PlannedRecursion
<1>4. ASSUME NEW n \in 1..Len(Visits), n - 1 \in G PROVE n \in G
  <2>1. Planned[n] = VisitOf(Nothing, n) /\ Visits[n] \in Passes \X Targets
    <3>1. Planned[n - 1] = Nothing
      BY <1>4
    <3>2. Planned[n] = VisitOf(Planned[n - 1], n)
      BY <1>1, PlannedRecursion
    <3>3. Planned[n] = VisitOf(Nothing, n)
      BY <3>1, <3>2
    <3> QED
      BY <3>3, VisitFacts
  <2>2. Visits[n][1] \in Passes /\ Visits[n][2] \in Targets
    BY <2>1
  <2>3. Visits[n][1] = PassOf(Visits[n][2]) => Named(Visits[n][2])
    BY <2>2 DEF Passes, PassOf, Named
  <2>4. Planned[n] = Nothing
    BY <1>1, <2>1, <2>2, <2>3, FinalIsHandled DEF VisitOf
  <2> QED
    BY <1>2, <2>4
<1> HIDE DEF G
<1>5. \A n \in 0..Len(Visits) : n \in G
  BY <1>2, <1>3, <1>4, InductionTo
<1>6. Len(Visits) \in G
  BY <1>2, <1>5
<1> QED
  BY <1>6 DEF G, Plan

\* The plan of a run that follows a completed one with nothing in between has no
\* write and no proposal and projects the lock it found: build_plan_with_hosts
\* and plan_removals find every artifact unchanged, or refuse it again.
THEOREM SecondRunDoesNothing == Spec => []RunTwiceIsRunOnce
<1>1. IInv => RunTwiceIsRunOnce
  BY SettledPlan DEF RunTwiceIsRunOnce, Nothing
<1> QED
  BY <1>1, Invariance, PTL

\* A completed run leaves every declared target that nobody edited with the
\* catalog's template on disk, and of every retired one nothing, in its file or in
\* the lock, however many runs were stopped between two of apply_files_with's
\* writes or before the lock was saved.
THEOREM CompletedIsUpToDate == Spec => []UpToDate
<1>1. IInv => UpToDate
  <2> SUFFICES ASSUME IInv, settled, NEW t \in Targets, t \notin edited
               PROVE  IF catalog[t] # None
                      THEN IF t[2] = File THEN disk[t[1]] = Rendered(catalog[t])
                                          ELSE Body(disk[t[1]], t[2]) = catalog[t]
                      ELSE lock[t] = None /\ Gone(t)
    BY DEF UpToDate
  <2>1. Current(t, disk[t[1]], lock[t])
    BY DEF IInv, Completed, Accomplished
  <2> QED
    BY <2>1 DEF Current, Gone, Blank
<1> QED
  BY <1>1, Invariance, PTL

\* Content that agrees with a user's keeps the words.
LEMMA AgreementKeeps ==
  ASSUME NEW c, NEW d, Agrees(d, c), c # Missing
  PROVE  /\ c.text \in Words => d # Missing /\ d.text = c.text
         /\ \A r \in Regions : c.body[r] \in Words => d # Missing /\ d.body[r] = c.body[r]
<1>1. None \notin Words
  BY MarksAreNoTexts
<1>2. c.text \in Words => d # Missing /\ d.text = c.text
  BY <1>1 DEF Agrees, UserText
<1>3. ASSUME NEW r \in Regions, c.body[r] \in Words PROVE d # Missing /\ d.body[r] = c.body[r]
  <2>1. UserBody(d, r) = UserBody(c, r)
    BY DEF Agrees
  <2> QED
    BY <1>1, <1>3, <2>1 DEF UserBody, Body
<1> QED
  BY <1>2, <1>3

\* No step of a run changes what a user wrote: decision.rs calls such a file
\* customized and managed_region.rs refuses such a body, on the text that the
\* plan has accumulated and not on what an earlier write of the run replaced.
THEOREM UsersWordsSurvive == Spec => EditsKept
<1> DEFINE Kept ==
      running => \A p \in Paths : disk[p] # Missing =>
        /\ disk[p].text \in Words => disk'[p] # Missing /\ disk'[p].text = disk[p].text
        /\ \A r \in Regions : disk[p].body[r] \in Words =>
             disk'[p] # Missing /\ disk'[p].body[r] = disk[p].body[r]
<1>1. ASSUME IInv, [Next]_vars PROVE [Kept]_vars
  <2>1. CASE Apply
    <3>1. \A p \in Paths : Agrees(disk'[p], disk[p])
      BY <1>1, <2>1, ApplyFacts
    <3>2. Kept
      BY <3>1, AgreementKeeps
    <3> QED
      BY <3>2
  <2>2. CASE Save \/ Stop
    <3>1. disk' = disk
      BY <2>2 DEF Save, Stop
    <3>2. Kept
      <4> SUFFICES ASSUME NEW p \in Paths, disk[p] # Missing
                   PROVE  disk'[p] # Missing /\ disk'[p].text = disk[p].text /\ disk'[p].body = disk[p].body
        OBVIOUS
      <4> QED
        BY <3>1
    <3> QED
      BY <3>2
  <2>3. CASE Start \/ (\E p \in Paths : Edit(p)) \/ Release
    <3>1. ~running
      BY <2>3 DEF Start, Edit, Release
    <3> QED
      BY <3>1
  <2> QED
    BY <1>1, <2>1, <2>2, <2>3 DEF Next
<1> QED
  BY <1>1, Invariance, PTL DEF Spec, EditsKept
=============================================================================
