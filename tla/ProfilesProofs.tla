--------------------------- MODULE ProfilesProofs ---------------------------
(* Proofs about Profiles, for any number of overlapping requests: types,   *)
(* that adding an entity to a second profile merges the two, and that      *)
(* merges lose neither what was judged the same nor what was judged        *)
(* different, of what a request has read as it still is.                   *)
EXTENDS Profiles, WellFoundedInduction, TLAPS

-----------------------------------------------------------------------------
(* Adding judgements up, and merging profiles.                             *)

\* Judgements add up to a judgement: to a positive one only if all are, and
\* to a negative one if one is.
LEMMA PlusFacts ==
  ASSUME NEW js \in SUBSET Judgement
  PROVE  /\ Plus(js) \in Judgement \cup {None}
         /\ js = {} => Plus(js) = None
         /\ Plus(js) = "positive" <=> js = {"positive"}
         /\ "negative" \in js => Plus(js) = "negative"
         /\ \A j \in Judgement : js = {j} => Plus(js) = j
<1>1. CASE js = {}
  BY <1>1, NoneIsNoProfile DEF Plus, Judgement
<1>2. CASE \E j \in js : js = {j}
  <2>1. PICK j \in js : js = {j}
    BY <1>2
  <2>2. Plus(js) = j
    BY <2>1 DEF Plus
  <2> QED
    BY <2>1, <2>2 DEF Judgement
<1>3. CASE js # {} /\ ~\E j \in js : js = {j}
  BY <1>3 DEF Plus, Judgement
<1> QED
  BY <1>1, <1>2, <1>3

\* Some profiles have a newest.
LEMMA NewestExists ==
  ASSUME NEW P \in SUBSET Profile, P # {}
  PROVE  Newest(P) \in P
<1> DEFINE T == {MaxProfiles - p : p \in P}
<1>1. T \in SUBSET Nat /\ T # {}
  BY BoundsType DEF Profile
<1>2. PICK n \in T : \A k \in T : ~(<<k, n>> \in OpToRel(<, Nat))
  BY <1>1, NatLessThanWellFounded, WFMin
<1>3. \A k \in T : ~(k < n)
  BY <1>1, <1>2 DEF OpToRel
<1>4. PICK p \in P : n = MaxProfiles - p
  BY <1>2
<1>5. \A q \in P : q <= p
  <2> SUFFICES ASSUME NEW q \in P
               PROVE  q <= p
    OBVIOUS
  <2>1. ~(MaxProfiles - q < MaxProfiles - p)
    BY <1>3, <1>4
  <2> QED
    BY <2>1, BoundsType DEF Profile
<1> QED
  BY <1>4, <1>5 DEF Newest

\* Views are records of two fields.
LEMMA ViewFields ==
  ASSUME NEW v \in View
  PROVE  /\ v = [judged |-> v.judged, live |-> v.live]
         /\ v.judged \in [Profile -> [Entity -> Judgement \cup {None}]]
         /\ v.live \subseteq Profile
BY DEF View

\* What merged profiles say of an entity together.
LEMMA CombineFacts ==
  ASSUME NEW v \in View, NEW P \in SUBSET Profile, NEW f \in Entity
  PROVE  /\ Combine(v, P, f) \in Judgement \cup {None}
         /\ Combine(v, P, f) = "positive" =>
              /\ \E p \in P : v.judged[p][f] = "positive"
              /\ \A p \in P : v.judged[p][f] \in {None, "positive"}
         /\ \A p \in P : v.judged[p][f] = "negative" =>
              Combine(v, P, f) = "negative"
         /\ (/\ \E p \in P : v.judged[p][f] = "positive"
             /\ \A p \in P : v.judged[p][f] \in {None, "positive"})
              => Combine(v, P, f) = "positive"
         /\ \A p \in Profile : P = {p} => Combine(v, P, f) = v.judged[p][f]
<1> DEFINE js == {v.judged[p][f] : p \in P} \ {None}
<1>1. js \in SUBSET Judgement /\ Combine(v, P, f) = Plus(js)
  BY ViewFields DEF Combine
<1>2. \A p \in P : v.judged[p][f] = None \/ v.judged[p][f] \in js
  OBVIOUS
<1>3. ASSUME js = {"positive"}
      PROVE  /\ \E p \in P : v.judged[p][f] = "positive"
             /\ \A p \in P : v.judged[p][f] \in {None, "positive"}
  <2>1. "positive" \in js
    BY <1>3
  <2> QED
    BY <1>3, <2>1
<1>4. ASSUME \E p \in P : v.judged[p][f] = "positive",
             \A p \in P : v.judged[p][f] \in {None, "positive"}
      PROVE  js = {"positive"}
  BY <1>4, NoneIsNoProfile DEF Judgement
<1>5. ASSUME NEW p \in Profile, P = {p}
      PROVE  Plus(js) = v.judged[p][f]
  <2>1. CASE v.judged[p][f] = None
    <3>1. js = {}
      BY <1>5, <2>1
    <3> QED
      BY <3>1, <2>1, PlusFacts
  <2>2. CASE v.judged[p][f] \in Judgement
    <3>1. js = {v.judged[p][f]}
      BY <1>5, <2>2, NoneIsNoProfile
    <3> QED
      BY <3>1, <2>2, <1>1, PlusFacts
  <2> QED
    BY <2>1, <2>2, ViewFields
<1>6. \A p \in P : v.judged[p][f] = "negative" => "negative" \in js
  BY NoneIsNoProfile DEF Judgement
<1> HIDE DEF js
<1> QED
  BY <1>1, <1>3, <1>4, <1>5, <1>6, PlusFacts

LEMMA CombineOne ==
  ASSUME NEW v \in View, NEW p \in Profile, NEW f \in Entity
  PROVE  Combine(v, {p}, f) = v.judged[p][f]
<1>1. {p} \in SUBSET Profile
  OBVIOUS
<1>2. \A s \in Profile : {p} = {s} => Combine(v, {p}, f) = v.judged[s][f]
  BY <1>1, CombineFacts
<1> QED
  BY <1>2

\* What a judgement does to every item of a view.
LEMMA SaveItems ==
  ASSUME NEW v \in View, NEW set \in v.live, NEW e \in Entity,
         NEW verdict \in Verdict
  PROVE  LET P == MergedBy(v, set, e, verdict)
             w == Save(v, set, e, verdict)
         IN /\ w \in View
            /\ Newest(P) \in P /\ P \subseteq v.live
            /\ w.live = (v.live \ P) \cup {Newest(P)}
            /\ \A p \in Profile, f \in Entity : w.judged[p][f] =
                 IF p \notin P THEN v.judged[p][f]
                 ELSE IF p # Newest(P) THEN None
                 ELSE IF f = e THEN Item(verdict) ELSE Combine(v, P, f)
<1> DEFINE P == MergedBy(v, set, e, verdict)
           m == Merge(v, P)
           w == Save(v, set, e, verdict)
           k == Newest(P)
<1>1. P \subseteq v.live /\ set \in P
  BY DEF MergedBy, PositiveIn
<1>2. P \in SUBSET Profile /\ P # {}
  BY <1>1, ViewFields
<1>3. k \in P
  BY <1>2, NewestExists
<1> HIDE DEF P, k
<1>4. \A f \in Entity : Combine(v, P, f) \in Judgement \cup {None}
  BY <1>2, CombineFacts
<1>5. /\ m.judged \in [Profile -> [Entity -> Judgement \cup {None}]]
      /\ m.live = (v.live \ P) \cup {k}
      /\ m = [live |-> m.live, judged |-> m.judged]
      /\ \A p \in Profile, f \in Entity : m.judged[p][f] =
           IF p \notin P THEN v.judged[p][f]
           ELSE IF p # k THEN None ELSE Combine(v, P, f)
  BY <1>2, <1>4, ViewFields DEF Merge, k
<1>6. w = [m EXCEPT !.judged[k][e] = Item(verdict)]
  BY DEF Save, P, k
<1>7. Item(verdict) \in Judgement \cup {None}
  BY DEF Item, Verdict
<1> HIDE DEF m, w
<1>8. w = [live |-> m.live,
           judged |-> [m.judged EXCEPT ![k] = [m.judged[k] EXCEPT ![e] = Item(verdict)]]]
  BY <1>5, <1>6
<1>9. k \in Profile /\ m.live \subseteq Profile
  BY <1>2, <1>3, <1>5, ViewFields
<1>10. w.judged \in [Profile -> [Entity -> Judgement \cup {None}]]
  BY <1>5, <1>7, <1>8, <1>9
<1>11. \A p \in Profile, f \in Entity : w.judged[p][f] =
         IF p = k /\ f = e THEN Item(verdict) ELSE m.judged[p][f]
  BY <1>5, <1>8, <1>9
<1>12. w \in View /\ w.live = m.live
  BY <1>8, <1>9, <1>10 DEF View
<1> QED
  BY <1>1, <1>3, <1>5, <1>11, <1>12 DEF P, k, w

\* The first item of a new profile merges nothing, if the entity is in none.
Unjudged(v, n) == \A f \in Entity : v.judged[n][f] = None

WithItem(v, w, n, e) ==
  /\ w.live = v.live
  /\ \A p \in Profile, f \in Entity : w.judged[p][f] =
       IF p = n /\ f = e THEN "positive" ELSE v.judged[p][f]

LEMMA FirstItem ==
  ASSUME NEW v \in View, NEW n \in v.live, NEW e \in Entity,
         Unjudged(v, n),
         PositiveIn(v, e) = {}
  PROVE  WithItem(v, Save(v, n, e, "positive"), n, e)
<1> DEFINE P == MergedBy(v, n, e, "positive")
           w == Save(v, n, e, "positive")
<1>1. "positive" \in Verdict
  BY DEF Verdict, Judgement
<1>2. /\ Newest(P) \in P /\ P \subseteq v.live
      /\ w.live = (v.live \ P) \cup {Newest(P)}
      /\ \A p \in Profile, f \in Entity : w.judged[p][f] =
           IF p \notin P THEN v.judged[p][f]
           ELSE IF p # Newest(P) THEN None
           ELSE IF f = e THEN Item("positive") ELSE Combine(v, P, f)
  BY <1>1, SaveItems
<1>3. P = {n}
  BY DEF MergedBy
<1>4. n \in Profile
  BY ViewFields
<1>5. \A f \in Entity : Combine(v, {n}, f) = v.judged[n][f]
  BY <1>4, CombineOne DEF Unjudged
<1>6. Item("positive") = "positive"
  BY DEF Item
<1> HIDE DEF P, w
<1> QED
  BY <1>2, <1>3, <1>5, <1>6 DEF w, Unjudged, WithItem

\* A profile that is merged into another keeps no items.
LEMMA MergedIsEmpty ==
  ASSUME NEW v \in View, NEW set \in v.live, NEW e \in Entity,
         NEW verdict \in Verdict, NEW f \in Entity,
         set \notin Save(v, set, e, verdict).live
  PROVE  Save(v, set, e, verdict).judged[set][f] = None
<1>1. set \in Profile /\ set \in MergedBy(v, set, e, verdict)
  BY ViewFields DEF MergedBy
<1> QED
  BY <1>1, SaveItems

-----------------------------------------------------------------------------
(* What a judgement of x keeps of a view.                                  *)

OneAt(v, e) ==
  \A p, q \in v.live :
    v.judged[p][e] = "positive" /\ v.judged[q][e] = "positive" => p = q

TogetherIn(v, e, f) ==
  \E p \in v.live : v.judged[p][e] = "positive" /\ v.judged[p][f] = "positive"
DoubtedIn(v, e) == \E p \in v.live : v.judged[p][e] \in {"negative", "unsure"}
ApartIn(v, e, f) ==
  \A p \in v.live : v.judged[p][f] = "positive" => v.judged[p][e] = "negative"

KeepsOne(v, w, x, verdict) ==
  \A e \in Entity : OneAt(v, e) \/ (e = x /\ verdict = "positive") => OneAt(w, e)

KeepsTogether(v, w, x) ==
  \A e, f \in Entity \ {x} :
    TogetherIn(v, e, f) /\ ~DoubtedIn(v, e) /\ ~DoubtedIn(v, f) => TogetherIn(w, e, f)

KeepsApart(v, w, x) ==
  \A e, f \in Entity \ {x} :
    PositiveIn(v, f) # {} /\ ApartIn(v, e, f) => ApartIn(w, e, f)

\* Items of profiles that neither view has are the same in both.
SameElsewhere(v, w) ==
  \A p \in Profile \ (v.live \cup w.live), e \in Entity :
    w.judged[p][e] = v.judged[p][e]

LEMMA SaveKeeps ==
  ASSUME NEW v \in View, NEW set \in v.live, NEW x \in Entity,
         NEW verdict \in Verdict
  PROVE  LET w == Save(v, set, x, verdict)
         IN /\ w \in View /\ w.live \subseteq v.live /\ SameElsewhere(v, w)
            /\ KeepsOne(v, w, x, verdict)
            /\ KeepsTogether(v, w, x) /\ KeepsApart(v, w, x)
<1> DEFINE P == MergedBy(v, set, x, verdict)
           w == Save(v, set, x, verdict)
           k == Newest(P)
<1>1. /\ w \in View /\ k \in P /\ P \subseteq v.live
      /\ w.live = (v.live \ P) \cup {k}
      /\ \A p \in Profile, f \in Entity : w.judged[p][f] =
           IF p \notin P THEN v.judged[p][f]
           ELSE IF p # k THEN None
           ELSE IF f = x THEN Item(verdict) ELSE Combine(v, P, f)
  BY SaveItems
<1>2. /\ v.live \subseteq Profile /\ P \in SUBSET Profile
      /\ v.judged \in [Profile -> [Entity -> Judgement \cup {None}]]
  BY <1>1, ViewFields
<1>3. verdict = "positive" => PositiveIn(v, x) \subseteq P
  BY DEF MergedBy
<1>4. verdict # "positive" => Item(verdict) # "positive"
  BY NoneIsNoProfile DEF Item, Verdict, Judgement
<1>a. verdict # "positive" => P = {set}
  BY DEF MergedBy
<1> HIDE DEF P, w, k
<1>5. w.live \subseteq v.live /\ SameElsewhere(v, w)
  BY <1>1, <1>2 DEF SameElsewhere
\* A positive item of another entity was one, of the profile or of one merged.
<1>6. ASSUME NEW f \in Entity \ {x}, NEW p \in w.live, w.judged[p][f] = "positive"
      PROVE  \E q \in v.live : /\ v.judged[q][f] = "positive"
                               /\ q = p \/ (p = k /\ q \in P)
  <2>1. CASE p \in P
    <3>1. p = k /\ Combine(v, P, f) = "positive"
      BY <1>1, <1>2, <1>6, <2>1
    <3>2. PICK q \in P : v.judged[q][f] = "positive"
      BY <1>2, <3>1, CombineFacts
    <3> QED
      BY <1>1, <3>1, <3>2
  <2>2. CASE p \notin P
    BY <1>1, <1>2, <1>6, <2>2
  <2> QED
    BY <2>1, <2>2
<1>7. KeepsOne(v, w, x, verdict)
  <2> SUFFICES ASSUME NEW e \in Entity,
                      OneAt(v, e) \/ (e = x /\ verdict = "positive"),
                      NEW p \in w.live, NEW r \in w.live,
                      w.judged[p][e] = "positive", w.judged[r][e] = "positive"
               PROVE  p = r
    BY DEF KeepsOne, OneAt
  <2>1. CASE e # x
    <3>1. PICK q \in v.live : /\ v.judged[q][e] = "positive"
                              /\ q = p \/ (p = k /\ q \in P)
      BY <1>6, <2>1
    <3>2. PICK s \in v.live : /\ v.judged[s][e] = "positive"
                              /\ s = r \/ (r = k /\ s \in P)
      BY <1>6, <2>1
    <3>3. q = s
      BY <2>1, <3>1, <3>2 DEF OneAt
    <3> QED
      BY <1>1, <3>1, <3>2, <3>3
  <2>2. CASE e = x /\ verdict = "positive"
    <3>1. ASSUME NEW q \in w.live, w.judged[q][x] = "positive"
          PROVE  q = k
      <4>1. CASE q \notin P
        <5>1. q \in v.live /\ v.judged[q][x] = "positive"
          BY <1>1, <1>2, <3>1, <4>1
        <5> QED
          BY <1>3, <2>2, <4>1, <5>1 DEF PositiveIn
      <4>2. CASE q \in P
        BY <1>1, <3>1, <4>2
      <4> QED
        BY <4>1, <4>2
    <3> QED
      BY <2>2, <3>1
  <2>3. CASE e = x /\ verdict # "positive"
    <3>1. ASSUME NEW q \in w.live, w.judged[q][x] = "positive"
          PROVE  q \in v.live /\ v.judged[q][x] = "positive"
      BY <1>1, <1>2, <1>4, <2>3, <3>1
    <3> QED
      BY <2>3, <3>1 DEF OneAt
  <2> QED
    BY <2>1, <2>2, <2>3
<1>8. KeepsTogether(v, w, x)
  <2> SUFFICES ASSUME NEW e \in Entity \ {x}, NEW f \in Entity \ {x},
                      TogetherIn(v, e, f), ~DoubtedIn(v, e), ~DoubtedIn(v, f)
               PROVE  TogetherIn(w, e, f)
    BY DEF KeepsTogether
  <2>1. PICK p \in v.live : v.judged[p][e] = "positive" /\ v.judged[p][f] = "positive"
    BY DEF TogetherIn
  <2>2. CASE p \in P
    <3>1. ASSUME NEW g \in {e, f}
          PROVE  Combine(v, P, g) = "positive"
      <4>1. \A q \in P : v.judged[q][g] \in {None, "positive"}
        BY <1>1, <1>2, <3>1 DEF DoubtedIn, Judgement
      <4>2. g \in Entity /\ v.judged[p][g] = "positive"
        BY <2>1, <3>1
      <4>3. \E q \in P : v.judged[q][g] = "positive"
        BY <2>2, <4>2
      <4> QED
        BY <1>2, <4>1, <4>2, <4>3, CombineFacts
    <3>2. w.judged[k][e] = "positive" /\ w.judged[k][f] = "positive" /\ k \in w.live
      BY <1>1, <1>2, <3>1
    <3> QED
      BY <3>2 DEF TogetherIn
  <2>3. CASE p \notin P
    BY <1>1, <1>2, <2>1, <2>3 DEF TogetherIn
  <2> QED
    BY <2>2, <2>3
<1>9. KeepsApart(v, w, x)
  <2> SUFFICES ASSUME NEW e \in Entity \ {x}, NEW f \in Entity \ {x},
                      ApartIn(v, e, f),
                      NEW p \in w.live, w.judged[p][f] = "positive"
               PROVE  w.judged[p][e] = "negative"
    BY DEF KeepsApart, ApartIn
  <2>1. PICK q \in v.live : /\ v.judged[q][f] = "positive"
                            /\ q = p \/ (p = k /\ q \in P)
    BY <1>6
  <2>2. v.judged[q][e] = "negative"
    BY <2>1 DEF ApartIn
  <2>3. CASE p \in P
    <3>1. q \in P /\ p = k
      BY <1>1, <2>1, <2>3
    <3>2. Combine(v, P, e) = "negative"
      BY <1>2, <2>2, <3>1, CombineFacts
    <3> QED
      BY <1>1, <1>2, <3>1, <3>2
  <2>4. CASE p \notin P
    BY <1>1, <1>2, <2>1, <2>2, <2>4
  <2> QED
    BY <2>3, <2>4
<1> QED
  BY <1>1, <1>5, <1>7, <1>8, <1>9 DEF w

-----------------------------------------------------------------------------
(* Requests in progress, and what they do to what others have committed.   *)

New(q) == q.after.live \ q.before.live

\* What a request means to commit, and what it will keep.
GoodRequest(q, n) ==
  /\ q \in Request
  /\ q.before.live \cup q.after.live \subseteq 1 .. n
  /\ SameElsewhere(q.before, q.after)
  /\ \A p \in New(q), e \in Entity : q.before.judged[p][e] = None
  /\ KeepsOne(q.before, q.after, q.saved, q.verdict)
  /\ KeepsTogether(q.before, q.after, q.saved)
  /\ KeepsApart(q.before, q.after, q.saved)

\* A profile that a request creates is unknown to all others.
Fresh(r, p) ==
  /\ p \notin live
  /\ \A e \in Entity : judged[p][e] = None
  /\ \A s \in Process \ {r} : proc[s] # None =>
       p \notin proc[s].before.live \cup proc[s].after.live

Inv ==
  /\ TypeOK
  /\ \A p \in Profile, e \in Entity : p > created => judged[p][e] = None
  /\ \A r \in Process : proc[r] # None =>
       /\ GoodRequest(proc[r], created)
       /\ \A p \in New(proc[r]) : Fresh(r, p)

LEMMA CommittedFacts ==
  ASSUME TypeOK
  PROVE  Committed \in View /\ created \in Nat /\ 1 .. created \subseteq Profile
BY BoundsType DEF TypeOK, Committed, View, Profile

\* A request that judges in a profile of the database is good.
LEMMA JudgingIsGood ==
  ASSUME Inv, NEW p \in live, NEW e \in Entity, NEW verdict \in Verdict,
         NEW q, q = [before |-> Committed, after |-> Save(Committed, p, e, verdict),
                     saved |-> e, verdict |-> verdict]
  PROVE  GoodRequest(q, created) /\ New(q) = {}
<1>1. TypeOK /\ Committed \in View /\ Committed.live = live
  BY CommittedFacts DEF Inv, Committed
<1> DEFINE w == Save(Committed, p, e, verdict)
<1>2. /\ w \in View /\ w.live \subseteq live /\ SameElsewhere(Committed, w)
      /\ KeepsOne(Committed, w, e, verdict)
      /\ KeepsTogether(Committed, w, e) /\ KeepsApart(Committed, w, e)
  BY <1>1, SaveKeeps
<1> HIDE DEF w
<1>3. /\ q.before = Committed /\ q.after = w /\ q.saved = e /\ q.verdict = verdict
      /\ q \in Request
  BY <1>1, <1>2 DEF w, Request
<1> QED
  BY <1>1, <1>2, <1>3 DEF GoodRequest, New, TypeOK

\* So is one that judges in a profile it creates.
LEMMA CreatingIsGood ==
  ASSUME Inv, created < MaxProfiles,
         NEW e \in Entity, NEW m \in Entity, NEW verdict \in Verdict,
         PositiveIn(Committed, e) = {},
         NEW n, n = created + 1
  PROVE  LET fresh == [Committed EXCEPT !.live = @ \cup {n}]
             first == Save(fresh, n, e, "positive")
             q == [before |-> Committed, after |-> Save(first, n, m, verdict),
                   saved |-> m, verdict |-> verdict]
         IN /\ GoodRequest(q, n) /\ New(q) \subseteq {n}
            /\ fresh \in View /\ first \in View
<1> DEFINE fresh == [Committed EXCEPT !.live = @ \cup {n}]
           first == Save(fresh, n, e, "positive")
           after == Save(first, n, m, verdict)
           q == [before |-> Committed, after |-> after,
                 saved |-> m, verdict |-> verdict]
<1>1. /\ TypeOK /\ Committed \in View /\ Committed.live = live
      /\ Committed.judged = judged /\ created \in Nat
  BY CommittedFacts DEF Inv, Committed
<1>2. n \in Profile /\ n > created /\ n \notin live
  BY <1>1, BoundsType DEF TypeOK, Profile
<1>3. /\ fresh \in View /\ fresh.live = live \cup {n} /\ fresh.judged = judged
  BY <1>1, <1>2 DEF Committed, View
<1> HIDE DEF fresh
<1>4. \A f \in Entity : judged[n][f] = None
  BY <1>2 DEF Inv
<1>5. "positive" \in Verdict
  BY DEF Verdict, Judgement
<1>6. /\ first \in View /\ first.live \subseteq fresh.live
      /\ SameElsewhere(fresh, first) /\ KeepsOne(fresh, first, e, "positive")
  <2>1. n \in fresh.live
    BY <1>3
  <2> QED
    BY <1>3, <1>5, <2>1, SaveKeeps, Zenon
<1>7. PositiveIn(fresh, e) = {}
  <2> SUFFICES ASSUME NEW p \in PositiveIn(fresh, e) PROVE FALSE
    OBVIOUS
  <2>1. p \in live \cup {n} /\ judged[p][e] = "positive"
    BY <1>3 DEF PositiveIn
  <2>2. p # n
    BY <1>4, <2>1, NoneIsNoProfile DEF Judgement
  <2>3. p \in PositiveIn(Committed, e)
    BY <1>1, <2>1, <2>2 DEF PositiveIn
  <2> QED
    BY <2>3
<1>8. n \in fresh.live /\ Unjudged(fresh, n)
  BY <1>3, <1>4 DEF Unjudged
<1>9. /\ first.live = live \cup {n}
      /\ \A p \in Profile, f \in Entity :
           first.judged[p][f] = IF p = n /\ f = e THEN "positive" ELSE judged[p][f]
  <2>1. WithItem(fresh, first, n, e)
    BY <1>3, <1>7, <1>8, FirstItem, Zenon
  <2> HIDE DEF first
  <2> QED
    BY <1>3, <2>1 DEF WithItem
<1> HIDE DEF first
<1>10. /\ after \in View /\ after.live \subseteq first.live
       /\ SameElsewhere(first, after) /\ KeepsOne(first, after, m, verdict)
       /\ KeepsTogether(first, after, m) /\ KeepsApart(first, after, m)
  <2>1. n \in first.live
    BY <1>9
  <2> QED
    BY <1>6, <2>1, SaveKeeps, Zenon
<1> HIDE DEF after
<1>11. live \subseteq Profile /\ \A p \in live : p # n
  BY <1>1, <1>2, ViewFields
\* An entity of the database but e is linked in first as it was.
<1>12. ASSUME NEW f \in Entity, f # e
       PROVE  /\ \A p \in live : first.judged[p][f] = judged[p][f]
              /\ first.judged[n][f] = None
  BY <1>2, <1>4, <1>9, <1>11, <1>12
<1>13. \A p \in live : judged[p][e] # "positive"
  BY <1>1 DEF PositiveIn
<1>14. KeepsOne(Committed, after, m, verdict)
  <2>1. ASSUME NEW f \in Entity, OneAt(Committed, f)
        PROVE  OneAt(first, f)
    <3>1. OneAt(fresh, f)
      BY <1>1, <1>3, <1>4, <2>1, NoneIsNoProfile DEF OneAt, Judgement
    <3> QED
      BY <1>6, <3>1 DEF KeepsOne
  <2> QED
    BY <1>10, <2>1 DEF KeepsOne
<1>15. KeepsTogether(Committed, after, m)
  <2> SUFFICES ASSUME NEW f \in Entity \ {m}, NEW g \in Entity \ {m},
                      TogetherIn(Committed, f, g),
                      ~DoubtedIn(Committed, f), ~DoubtedIn(Committed, g)
               PROVE  TogetherIn(after, f, g)
    BY DEF KeepsTogether
  <2>1. PICK p \in live : judged[p][f] = "positive" /\ judged[p][g] = "positive"
    BY <1>1 DEF TogetherIn
  <2>2. f # e /\ g # e
    BY <1>13, <2>1
  <2>3. TogetherIn(first, f, g)
    BY <1>9, <1>12, <2>1, <2>2 DEF TogetherIn
  <2>4. ASSUME NEW h \in {f, g}
        PROVE  ~DoubtedIn(first, h)
    <3>1. h \in Entity /\ h # e /\ ~DoubtedIn(Committed, h)
      BY <2>2
    <3>2. \A s \in live : judged[s][h] \notin {"negative", "unsure"}
      BY <1>1, <3>1 DEF DoubtedIn
    <3>3. first.judged[n][h] \notin {"negative", "unsure"}
      BY <1>12, <3>1, NoneIsNoProfile DEF Judgement
    <3>4. \A s \in first.live : s \in live \/ s = n
      BY <1>9
    <3>5. \A s \in live : first.judged[s][h] = judged[s][h]
      BY <1>12, <3>1
    <3>6. \A s \in first.live : first.judged[s][h] \notin {"negative", "unsure"}
      BY <3>2, <3>3, <3>4, <3>5
    <3> QED
      BY <3>6 DEF DoubtedIn
  <2> QED
    BY <1>10, <2>3, <2>4 DEF KeepsTogether
<1>16. KeepsApart(Committed, after, m)
  <2> SUFFICES ASSUME NEW f \in Entity \ {m}, NEW g \in Entity \ {m},
                      PositiveIn(Committed, g) # {}, ApartIn(Committed, f, g)
               PROVE  ApartIn(after, f, g)
    BY DEF KeepsApart
  <2>1. PICK p \in live : judged[p][g] = "positive"
    BY <1>1 DEF PositiveIn
  <2>2. g # e
    BY <1>13, <2>1
  <2>3. PositiveIn(first, g) # {}
    BY <1>9, <1>12, <2>1, <2>2 DEF PositiveIn
  <2>4. ApartIn(first, f, g)
    <3> SUFFICES ASSUME NEW s \in first.live, first.judged[s][g] = "positive"
                 PROVE  first.judged[s][f] = "negative"
      BY DEF ApartIn
    <3>1. s # n
      BY <1>12, <2>2, NoneIsNoProfile DEF Judgement
    <3>2. s \in live /\ judged[s][g] = "positive"
      BY <1>9, <1>12, <2>2, <3>1
    <3>3. judged[s][f] = "negative"
      BY <1>1, <3>2 DEF ApartIn
    <3>4. s \in Profile
      BY <1>11, <3>2
    <3> QED
      BY <1>9, <3>1, <3>3, <3>4
  <2> QED
    BY <1>10, <2>3, <2>4 DEF KeepsApart
<1>17. SameElsewhere(Committed, after)
  <2> SUFFICES ASSUME NEW p \in Profile \ (live \cup after.live), NEW f \in Entity
               PROVE  after.judged[p][f] = judged[p][f]
    BY <1>1 DEF SameElsewhere
  <2>1. CASE p # n
    <3>1. p \in Profile \ (first.live \cup after.live)
      BY <1>9, <2>1
    <3>2. after.judged[p][f] = first.judged[p][f]
      BY <1>10, <3>1, Zenon DEF SameElsewhere
    <3> QED
      BY <1>9, <2>1, <3>2
  <2>2. CASE p = n
    <3>1. n \in first.live /\ n \notin after.live
      BY <1>9, <2>2
    <3>2. after.judged[n][f] = None
      BY <1>6, <3>1, MergedIsEmpty DEF after
    <3> QED
      BY <1>4, <2>2, <3>2
  <2> QED
    BY <2>1, <2>2
<1>18. /\ q.before = Committed /\ q.after = after /\ q.saved = m /\ q.verdict = verdict
       /\ q \in Request
  BY <1>1, <1>10 DEF after, Request
<1>19. New(q) \subseteq {n}
  BY <1>1, <1>9, <1>10, <1>18 DEF New
<1>20. q.before.live \cup q.after.live \subseteq 1 .. n
  <2>1. q.before.live \cup q.after.live \subseteq live \cup {n}
    BY <1>1, <1>9, <1>10, <1>18
  <2>2. live \subseteq 1 .. created
    BY <1>1 DEF TypeOK
  <2>3. 1 .. created \subseteq 1 .. n /\ n \in 1 .. n
    BY <1>1
  <2> QED
    BY <2>1, <2>2, <2>3
<1>21. \A p \in New(q), f \in Entity : q.before.judged[p][f] = None
  BY <1>1, <1>4, <1>18, <1>19
<1> HIDE DEF q
<1>22. GoodRequest(q, n)
  BY <1>14, <1>15, <1>16, <1>17, <1>18, <1>20, <1>21 DEF GoodRequest
<1> QED
  BY <1>3, <1>6, <1>19, <1>22 DEF q, after, first, fresh

\* A request that begins leaves those of others as they are.
LEMMA RequestBegins ==
  ASSUME Inv, NEW r \in Process, proc[r] = None,
         NEW n, created' = n, n = created \/ n = created + 1,
         UNCHANGED <<judged, live>>,
         NEW q, GoodRequest(q, n), q.before = Committed,
         New(q) = {} \/ (n = created + 1 /\ New(q) \subseteq {n}),
         proc' = [proc EXCEPT ![r] = q], TypeOK'
  PROVE  Inv'
<1>1. created \in Nat /\ live \subseteq 1 .. created
  BY CommittedFacts DEF Inv, TypeOK
<1>2. 1 .. created \subseteq 1 .. n /\ created + 1 \notin 1 .. created
  BY <1>1
<1>3. proc'[r] = q /\ \A s \in Process \ {r} : proc'[s] = proc[s]
  BY DEF Inv, TypeOK
<1>4. q.before.live = live
  BY DEF Committed
<1>5. \A p \in Profile, e \in Entity : p > created' => judged'[p][e] = None
  BY <1>1 DEF Inv, Profile
<1>6. ASSUME NEW s \in Process, proc'[s] # None
      PROVE  GoodRequest(proc'[s], created') /\ \A p \in New(proc'[s]) : Fresh(s, p)'
  <2>1. CASE s = r
    <3>1. SUFFICES ASSUME NEW p \in New(q) PROVE Fresh(r, p)'
      BY <1>3, <2>1
    <3>2. p = created + 1 /\ p = n
      OBVIOUS
    <3>3. p \in Profile /\ p > created /\ p \notin 1 .. created
      <4>1. p \in q.after.live
        BY DEF New
      <4> QED
        BY <1>1, <1>2, <3>2, <4>1 DEF GoodRequest, Request, View
    <3>4. \A t \in Process \ {r} : proc[t] # None =>
            p \notin proc[t].before.live \cup proc[t].after.live
      BY <3>3 DEF Inv, GoodRequest
    <3>5. p \notin live /\ \A e \in Entity : judged[p][e] = None
      BY <1>1, <3>3 DEF Inv
    <3> QED
      BY <1>3, <3>4, <3>5 DEF Fresh
  <2>2. CASE s # r
    <3>1. proc'[s] = proc[s] /\ GoodRequest(proc[s], created)
      BY <1>3, <1>6, <2>2 DEF Inv
    <3>2. GoodRequest(proc[s], n)
      BY <1>2, <3>1 DEF GoodRequest
    <3>3. ASSUME NEW p \in New(proc[s])
          PROVE  Fresh(s, p)'
      <4>1. Fresh(s, p) /\ p \in 1 .. created
        BY <1>3, <1>6, <2>2, <3>1 DEF Inv, GoodRequest, New
      <4>2. p \notin q.before.live \cup q.after.live
        BY <1>2, <1>4, <4>1 DEF Fresh, New
      <4> QED
        BY <1>3, <4>1, <4>2 DEF Fresh
    <3> QED
      BY <3>1, <3>2, <3>3
  <2> QED
    BY <2>1, <2>2
<1> QED
  BY <1>5, <1>6 DEF Inv

\* The fragments for one entity name profiles.
LEMMA FragmentsType ==
  ASSUME NEW v \in View, NEW e, fragments' \in FragmentsOf(v, e)
  PROVE  fragments' \in [Local -> Profile \cup {None}]
BY ViewFields DEF FragmentsOf, PositiveIn

LEMMA RefragmentType ==
  ASSUME TypeOK, NEW v \in View, NEW e, Refragment(v, e)
  PROVE  fragments' \in [Local -> Profile \cup {None}]
BY FragmentsType DEF Refragment, TypeOK

\* What a request that commits brings about.
LEMMA CommitFacts ==
  ASSUME Inv, NEW r \in Process, Commit(r)
  PROVE  LET b == proc[r].before
             a == proc[r].after
         IN /\ GoodRequest(proc[r], created) /\ a \in View /\ b \in View
            /\ \A p \in New(proc[r]) : Fresh(r, p)
            /\ live' = (live \ (b.live \ a.live)) \cup (a.live \ b.live)
            /\ live' \subseteq 1 .. created
            /\ judged' \in [Profile -> [Entity -> Judgement \cup {None}]]
            /\ \A p \in Profile, e \in Entity : judged'[p][e] =
                 IF a.judged[p][e] # b.judged[p][e] THEN a.judged[p][e]
                 ELSE judged[p][e]
            /\ created' = created
<1> DEFINE b == proc[r].before
           a == proc[r].after
<1>1. /\ GoodRequest(proc[r], created)
      /\ \A p \in New(proc[r]) : Fresh(r, p)
  BY DEF Inv, Commit
<1>2. a \in View /\ b \in View
  BY <1>1 DEF GoodRequest, Request
<1>3. /\ live' = (live \ (b.live \ a.live)) \cup (a.live \ b.live)
      /\ judged' = [p \in Profile |-> [e \in Entity |->
           IF a.judged[p][e] # b.judged[p][e] THEN a.judged[p][e]
           ELSE judged[p][e]]]
      /\ created' = created
  BY DEF Commit
<1>4. live \subseteq 1 .. created /\ a.live \subseteq 1 .. created
  BY <1>1 DEF Inv, TypeOK, GoodRequest
<1>5. /\ a.judged \in [Profile -> [Entity -> Judgement \cup {None}]]
      /\ judged \in [Profile -> [Entity -> Judgement \cup {None}]]
  BY <1>2, ViewFields DEF Inv, TypeOK
<1> HIDE DEF a, b
<1>6. judged' \in [Profile -> [Entity -> Judgement \cup {None}]]
  BY <1>3, <1>5
<1>7. live' \subseteq 1 .. created
  BY <1>3, <1>4
<1> QED
  BY <1>1, <1>2, <1>3, <1>6, <1>7 DEF a, b

LEMMA CommitKeepsInv ==
  ASSUME Inv, NEW r \in Process, Commit(r)
  PROVE  Inv'
<1> DEFINE b == proc[r].before
           a == proc[r].after
<1>1. /\ GoodRequest(proc[r], created) /\ a \in View /\ b \in View
      /\ live' = (live \ (b.live \ a.live)) \cup (a.live \ b.live)
      /\ live' \subseteq 1 .. created
      /\ judged' \in [Profile -> [Entity -> Judgement \cup {None}]]
      /\ \A p \in Profile, e \in Entity : judged'[p][e] =
           IF a.judged[p][e] # b.judged[p][e] THEN a.judged[p][e] ELSE judged[p][e]
      /\ created' = created
  BY CommitFacts
<1>2. UNCHANGED <<fragments, requests>> /\ proc' = [proc EXCEPT ![r] = None]
  BY DEF Commit
<1>3. TypeOK'
  BY <1>1, <1>2 DEF Inv, TypeOK
<1>4. proc'[r] = None /\ \A s \in Process \ {r} : proc'[s] = proc[s]
  BY <1>2 DEF Inv, TypeOK
<1>5. ASSUME NEW p \in Profile, p \notin b.live \cup a.live
      PROVE  (p \notin live => p \notin live') /\
             \A e \in Entity : judged'[p][e] = judged[p][e]
  BY <1>1, <1>5 DEF GoodRequest, SameElsewhere
<1>6. \A p \in Profile, e \in Entity : p > created' => judged'[p][e] = None
  <2> SUFFICES ASSUME NEW p \in Profile, NEW e \in Entity, p > created
               PROVE  judged'[p][e] = None
    BY <1>1
  <2>1. p \notin 1 .. created
    BY CommittedFacts DEF Inv, Profile
  <2>2. p \notin b.live \cup a.live
    BY <1>1, <2>1 DEF GoodRequest
  <2> QED
    BY <1>5, <2>2 DEF Inv
<1>7. ASSUME NEW s \in Process, proc'[s] # None
      PROVE  GoodRequest(proc'[s], created') /\ \A p \in New(proc'[s]) : Fresh(s, p)'
  <2>1. s # r /\ proc'[s] = proc[s] /\ proc[s] # None
    BY <1>4, <1>7
  <2>2. GoodRequest(proc[s], created) /\ \A p \in New(proc[s]) : Fresh(s, p)
    BY <2>1 DEF Inv
  <2>3. ASSUME NEW p \in New(proc[s])
        PROVE  Fresh(s, p)'
    <3>1. Fresh(s, p) /\ p \in Profile
      BY <2>2 DEF New, GoodRequest, Request, View
    <3>2. p \notin b.live \cup a.live
      BY <2>1, <3>1 DEF Fresh, Commit
    <3>3. p \notin live' /\ \A e \in Entity : judged'[p][e] = None
      BY <1>5, <3>1, <3>2 DEF Fresh
    <3> QED
      BY <1>4, <3>1, <3>3 DEF Fresh
  <2> QED
    BY <1>1, <2>1, <2>2, <2>3
<1> QED
  BY <1>3, <1>6, <1>7 DEF Inv

LEMMA InitInv == Init => Inv
<1> SUFFICES ASSUME Init PROVE Inv
  OBVIOUS
<1>1. TypeOK
  BY BoundsType DEF Init, TypeOK, Profile
<1>2. \A r \in Process : proc[r] = None
  BY DEF Init
<1> QED
  BY <1>1, <1>2 DEF Init, Inv

LEMMA NextInv == Inv /\ [Next]_vars => Inv'
<1> SUFFICES ASSUME Inv, [Next]_vars
             PROVE  Inv'
  OBVIOUS
<1>1. TypeOK /\ Committed \in View /\ created \in Nat /\ requests \in Nat
  BY CommittedFacts DEF Inv, TypeOK
<1>2. Committed.live = live
  BY DEF Committed
<1>3. ASSUME NEW r \in Process, NEW e \in Local, NEW m \in Entity,
             NEW j \in Verdict, DecidePairwise(r, e, m, j)
      PROVE  Inv'
  <2>1. PICK p \in PositiveIn(Committed, e) :
          LET after == Save(Committed, p, m, j)
          IN Refragment(after, m) /\ Requested(r, after, m, j)
    BY <1>3 DEF DecidePairwise
  <2> DEFINE after == Save(Committed, p, m, j)
             q == [before |-> Committed, after |-> after, saved |-> m, verdict |-> j]
  <2>2. p \in live
    BY <1>2 DEF PositiveIn
  <2>3. GoodRequest(q, created) /\ New(q) = {}
    BY <2>2, JudgingIsGood
  <2>4. q.before = Committed /\ q.after = after
    OBVIOUS
  <2> HIDE DEF after
  <2>5. /\ proc[r] = None /\ proc' = [proc EXCEPT ![r] = q]
        /\ UNCHANGED <<judged, live, created>> /\ requests' = requests + 1
    BY <1>3, <2>1 DEF DecidePairwise, CanRequest, Requested, after
  <2> HIDE DEF q
  <2>6. after \in View /\ q \in Request
    BY <2>3, <2>4 DEF GoodRequest, Request
  <2>7. fragments' \in [Local -> Profile \cup {None}]
    BY <1>1, <2>1, <2>6, RefragmentType DEF after
  <2>8. TypeOK'
    BY <1>1, <2>5, <2>6, <2>7 DEF TypeOK
  <2> QED
    BY <2>3, <2>4, <2>5, <2>8, RequestBegins
<1>4. ASSUME NEW r \in Process, NEW e \in Local, NEW m \in Entity,
             NEW j \in Verdict, DecideInNewProfile(r, e, m, j)
      PROVE  Inv'
  <2> DEFINE n == created + 1
             fresh == [Committed EXCEPT !.live = @ \cup {n}]
             first == Save(fresh, n, e, "positive")
             after == Save(first, n, m, j)
             q == [before |-> Committed, after |-> after, saved |-> m, verdict |-> j]
  <2>1. /\ created < MaxProfiles /\ created' = n
        /\ PositiveIn(Committed, e) = {}
        /\ proc[r] = None /\ UNCHANGED <<judged, live>>
    BY <1>4 DEF DecideInNewProfile, CanRequest
  <2>2. e \in Entity
    BY LocalEntities
  <2>3. GoodRequest(q, n) /\ New(q) \subseteq {n} /\ fresh \in View /\ first \in View
    BY <2>1, <2>2, CreatingIsGood
  <2>4. q.before = Committed /\ q.after = after
    OBVIOUS
  <2>5. /\ IF m \in Local THEN Refragment(after, m) ELSE Refragment(first, e)
        /\ Requested(r, after, m, j)
    BY <1>4, <2>1 DEF DecideInNewProfile
  <2>6. proc' = [proc EXCEPT ![r] = q] /\ requests' = requests + 1
    BY <2>5 DEF Requested
  <2> HIDE DEF q, after, first, fresh
  <2>7. after \in View /\ q \in Request
    BY <2>3, <2>4 DEF GoodRequest, Request
  <2>8. fragments' \in [Local -> Profile \cup {None}]
    BY <1>1, <2>3, <2>5, <2>7, RefragmentType
  <2>9. TypeOK'
    <3>1. created' \in 0 .. MaxProfiles
      BY <1>1, <2>1, BoundsType
    <3>2. live' \subseteq 1 .. created'
      BY <1>1, <2>1 DEF TypeOK
    <3> QED
      BY <1>1, <2>1, <2>6, <2>7, <2>8, <3>1, <3>2 DEF TypeOK
  <2> QED
    BY <2>1, <2>3, <2>4, <2>6, <2>9, RequestBegins
<1>5. ASSUME NEW r \in Process, NEW p \in Profile, NEW e \in Entity,
             NEW j \in Verdict, ItemUpdate(r, p, e, j)
      PROVE  Inv'
  <2> DEFINE after == Save(Committed, p, e, j)
             q == [before |-> Committed, after |-> after, saved |-> e, verdict |-> j]
  <2>2. p \in live
    BY <1>5 DEF ItemUpdate
  <2>3. GoodRequest(q, created) /\ New(q) = {}
    BY <2>2, JudgingIsGood
  <2>4. q.before = Committed /\ q.after = after
    OBVIOUS
  <2>5. /\ proc[r] = None /\ proc' = [proc EXCEPT ![r] = q]
        /\ UNCHANGED <<judged, live, created>> /\ requests' = requests + 1
        /\ Refragment(after, e)
    BY <1>5 DEF ItemUpdate, CanRequest, Requested
  <2> HIDE DEF q, after
  <2>6. after \in View /\ q \in Request
    BY <2>3, <2>4 DEF GoodRequest, Request
  <2>7. fragments' \in [Local -> Profile \cup {None}]
    BY <1>1, <2>5, <2>6, RefragmentType
  <2>8. TypeOK'
    BY <1>1, <2>5, <2>6, <2>7 DEF TypeOK
  <2> QED
    BY <2>3, <2>4, <2>5, <2>8, RequestBegins
<1>6. ASSUME NEW r \in Process, Commit(r)
      PROVE  Inv'
  BY <1>6, CommitKeepsInv
<1>7. ASSUME NEW r \in Process, Rollback(r)
      PROVE  Inv'
  <2>1. /\ UNCHANGED <<judged, live, created, fragments, requests>>
        /\ proc'[r] = None /\ \A s \in Process \ {r} : proc'[s] = proc[s]
        /\ proc' \in [Process -> Request \cup {None}]
    BY <1>1, <1>7 DEF Rollback, TypeOK
  <2>2. TypeOK'
    BY <1>1, <2>1 DEF TypeOK
  <2>3. \A s \in Process : \A p : Fresh(s, p) => Fresh(s, p)'
    BY <2>1 DEF Fresh
  <2> QED
    BY <2>1, <2>2, <2>3 DEF Inv
<1>8. ASSUME NEW r \in Process, NEW p \in Profile, Delete(r, p)
      PROVE  Inv'
  <2>1. /\ UNCHANGED <<judged, created, fragments, proc, requests>>
        /\ live' \subseteq live
    BY <1>8 DEF Delete
  <2>2. TypeOK'
    BY <1>1, <2>1 DEF TypeOK
  <2>3. \A s \in Process : \A q : Fresh(s, q) => Fresh(s, q)'
    BY <2>1 DEF Fresh
  <2> QED
    BY <2>1, <2>2, <2>3 DEF Inv
<1>9. ASSUME UNCHANGED <<judged, live, created, proc, requests>>,
             fragments' \in [Local -> Profile \cup {None}]
      PROVE  Inv'
  <2>1. TypeOK'
    BY <1>1, <1>9 DEF TypeOK
  <2>2. \A s \in Process : \A p : Fresh(s, p) => Fresh(s, p)'
    BY <1>9 DEF Fresh
  <2> QED
    BY <1>9, <2>1, <2>2 DEF Inv
<1>10. ASSUME NEW e \in Local, UpdateEntity(e)
       PROVE  Inv'
  BY <1>1, <1>9, <1>10, FragmentsType DEF UpdateEntity
<1>11. CASE Reindex
  BY <1>9, <1>11 DEF Reindex
<1>12. CASE UNCHANGED vars
  BY <1>1, <1>9, <1>12 DEF vars, TypeOK
<1> QED
  BY <1>3, <1>4, <1>5, <1>6, <1>7, <1>8, <1>10, <1>11, <1>12 DEF Next, Step

THEOREM AlwaysInv == Spec => []Inv
BY InitInv, NextInv, PTL DEF Spec

(* The profiles, their items and the requests keep their types, however    *)
(* many requests overlap.                                                  *)
THEOREM ProfileTypes == Spec => []TypeOK
<1>1. Inv => TypeOK
  BY DEF Inv
<1> QED
  BY <1>1, AlwaysInv, PTL

-----------------------------------------------------------------------------
(* What a commit does to an entity that the request has read as it still is. *)

\* What the database holds of it afterwards is what the request meant.
LEMMA CommitsAsMeant ==
  ASSUME Inv, NEW r \in Process, Commit(r), NEW e \in Entity, UpToDate(r, e),
         NEW p \in live'
  PROVE  judged'[p][e] =
           IF p \in proc[r].after.live THEN proc[r].after.judged[p][e] ELSE None
<1> DEFINE b == proc[r].before
           a == proc[r].after
<1>1. /\ GoodRequest(proc[r], created) /\ a \in View /\ b \in View
      /\ \A q \in New(proc[r]) : Fresh(r, q)
      /\ live' = (live \ (b.live \ a.live)) \cup (a.live \ b.live)
      /\ live' \subseteq 1 .. created
      /\ \A q \in Profile, f \in Entity : judged'[q][f] =
           IF a.judged[q][f] # b.judged[q][f] THEN a.judged[q][f] ELSE judged[q][f]
  BY CommitFacts
<1>2. p \in Profile
  BY <1>1, CommittedFacts DEF Inv
<1>3. (IF p \in b.live THEN b.judged[p][e] ELSE None) =
      (IF p \in live THEN judged[p][e] ELSE None)
  BY <1>2 DEF UpToDate, Known, Committed
<1>4. p \in a.live \ b.live => b.judged[p][e] = None /\ judged[p][e] = None
  BY <1>1 DEF GoodRequest, New, Fresh
<1>5. p \notin a.live \cup b.live => a.judged[p][e] = b.judged[p][e]
  BY <1>1, <1>2 DEF GoodRequest, SameElsewhere
<1> HIDE DEF a, b
<1>6. CASE p \in a.live
  BY <1>1, <1>2, <1>3, <1>4, <1>6 DEF a
<1>7. CASE p \notin a.live
  BY <1>1, <1>2, <1>3, <1>5, <1>7 DEF a
<1> QED
  BY <1>6, <1>7

\* What the request has read of it is what the database holds.
LEMMA ReadAsItIs ==
  ASSUME Inv, NEW r \in Process, Commit(r), NEW e \in Entity, UpToDate(r, e),
         NEW p \in Profile, NEW j \in Judgement
  PROVE  (p \in proc[r].before.live /\ proc[r].before.judged[p][e] = j)
           <=> (p \in live /\ judged[p][e] = j)
<1> DEFINE b == proc[r].before
<1>1. (IF p \in b.live THEN b.judged[p][e] ELSE None) =
      (IF p \in live THEN judged[p][e] ELSE None)
  BY DEF UpToDate, Known, Committed
<1> QED
  BY <1>1, NoneIsNoProfile

LEMMA InOneMeans ==
  ASSUME NEW e \in Entity
  PROVE  InOne(e) <=> \A p, q \in live :
           judged[p][e] = "positive" /\ judged[q][e] = "positive" => p = q
BY DEF InOne, PositiveIn, Committed

-----------------------------------------------------------------------------
(* The properties.                                                         *)

LEMMA CommitAdds ==
  ASSUME Inv, NEW r \in Process, Commit(r), NEW e \in Entity,
         \/ LeavesAlone(r, e) /\ InOne(e)
         \/ UpToDate(r, e) /\ InOne(e)
         \/ UpToDate(r, e) /\ proc[r].saved = e /\ proc[r].verdict = "positive"
  PROVE  InOne(e)'
<1> DEFINE b == proc[r].before
           a == proc[r].after
<1>1. /\ GoodRequest(proc[r], created) /\ a \in View /\ b \in View
      /\ \A q \in New(proc[r]) : Fresh(r, q)
      /\ live' = (live \ (b.live \ a.live)) \cup (a.live \ b.live)
      /\ live' \subseteq 1 .. created
      /\ \A q \in Profile, f \in Entity : judged'[q][f] =
           IF a.judged[q][f] # b.judged[q][f] THEN a.judged[q][f] ELSE judged[q][f]
  BY CommitFacts
<1>2. live' \subseteq Profile /\ live \subseteq Profile /\ b.live \subseteq Profile
  BY <1>1, CommittedFacts, ViewFields DEF Inv, TypeOK
<1>3. InOne(e)' <=> \A p, q \in live' :
        judged'[p][e] = "positive" /\ judged'[q][e] = "positive" => p = q
  BY DEF InOne, PositiveIn, Committed
<1>a. "positive" \in Judgement /\ None # "positive"
  BY NoneIsNoProfile DEF Judgement
<1>4. CASE UpToDate(r, e) /\ (InOne(e) \/
             (proc[r].saved = e /\ proc[r].verdict = "positive"))
  <2>1. InOne(e) => OneAt(b, e)
    <3> SUFFICES ASSUME InOne(e), NEW p \in b.live, NEW q \in b.live,
                        b.judged[p][e] = "positive", b.judged[q][e] = "positive"
                 PROVE  p = q
      BY DEF OneAt
    <3>1. /\ p \in live /\ judged[p][e] = "positive"
          /\ q \in live /\ judged[q][e] = "positive"
      BY <1>2, <1>4, <1>a, ReadAsItIs
    <3> QED
      BY <3>1, InOneMeans
  <2>2. OneAt(a, e)
    BY <1>1, <1>4, <2>1 DEF GoodRequest, KeepsOne
  <2>3. ASSUME NEW p \in live', judged'[p][e] = "positive"
        PROVE  p \in a.live /\ a.judged[p][e] = "positive"
    BY <1>4, <1>a, <2>3, CommitsAsMeant
  <2> QED
    BY <1>3, <2>2, <2>3 DEF OneAt
<1>5. CASE LeavesAlone(r, e) /\ InOne(e)
  <2>1. ASSUME NEW p \in live', judged'[p][e] = "positive"
        PROVE  p \in live /\ judged[p][e] = "positive"
    <3>1. p \in Profile
      BY <1>2
    <3>2. (IF p \in a.live THEN a.judged[p][e] ELSE None) =
          (IF p \in b.live THEN b.judged[p][e] ELSE None)
      BY <1>5, <3>1 DEF LeavesAlone, Known
    <3>3. p \in a.live \ b.live => b.judged[p][e] = None /\ judged[p][e] = None
      BY <1>1 DEF GoodRequest, New, Fresh
    <3>4. p \notin a.live \cup b.live => a.judged[p][e] = b.judged[p][e]
      BY <1>1, <3>1 DEF GoodRequest, SameElsewhere
    <3> HIDE DEF a, b
    <3> QED
      BY <1>1, <1>a, <2>1, <3>1, <3>2, <3>3, <3>4
  <2> QED
    BY <1>3, <1>5, <2>1, InOneMeans
<1> QED
  BY <1>4, <1>5

(* However many requests overlap, a commit never brings an entity into a   *)
(* second profile unless another request has changed what is known of it   *)
(* since this one read it, and a positive judgement leaves it in one.      *)
THEOREM AddingAlwaysMerges == Spec => AddingMerges
<1>1. Inv /\ [Next]_vars =>
        [\A r \in Process : Commit(r) =>
           \A e \in Entity :
             \/ LeavesAlone(r, e) /\ InOne(e)
             \/ UpToDate(r, e) /\ InOne(e)
             \/ UpToDate(r, e) /\ proc[r].saved = e /\ proc[r].verdict = "positive"
             => InOne(e)']_vars
  BY CommitAdds
<1> QED
  BY <1>1, AlwaysInv, PTL DEF Spec, AddingMerges

LEMMA CommitKeepsTogether ==
  ASSUME Inv, NEW r \in Process, Commit(r), proc[r].before.live \subseteq live,
         NEW e \in Entity, NEW f \in Entity,
         Together(e, f), ~Doubted(e), ~Doubted(f), JudgesNeither(r, e, f)
  PROVE  Together(e, f)'
<1> DEFINE b == proc[r].before
           a == proc[r].after
           x == proc[r].saved
<1>1. /\ GoodRequest(proc[r], created) /\ a \in View /\ b \in View
      /\ live' = (live \ (b.live \ a.live)) \cup (a.live \ b.live)
      /\ live \subseteq Profile /\ b.live \subseteq Profile
  BY CommitFacts, CommittedFacts, ViewFields DEF Inv, TypeOK
<1>2. /\ UpToDate(r, e) /\ UpToDate(r, f)
      /\ e \in Entity \ {x} /\ f \in Entity \ {x}
  BY DEF JudgesNeither
<1>j. {"positive", "negative", "unsure"} = Judgement
  BY DEF Judgement
<1>3. PICK p \in live : judged[p][e] = "positive" /\ judged[p][f] = "positive"
  BY DEF Together
<1>4. TogetherIn(b, e, f)
  <2>1. /\ p \in b.live
        /\ b.judged[p][e] = "positive" /\ b.judged[p][f] = "positive"
    BY <1>1, <1>2, <1>3, <1>j, ReadAsItIs
  <2> QED
    BY <2>1 DEF TogetherIn
<1>5. ASSUME NEW g \in {e, f}
      PROVE  ~DoubtedIn(b, g)
  <2> SUFFICES ASSUME NEW q \in b.live, b.judged[q][g] \in {"negative", "unsure"}
               PROVE  FALSE
    BY DEF DoubtedIn
  <2>1. q \in live /\ judged[q][g] \in {"negative", "unsure"}
    BY <1>1, <1>2, <1>j, ReadAsItIs
  <2> QED
    BY <2>1 DEF Doubted
<1>6. TogetherIn(a, e, f)
  BY <1>1, <1>2, <1>4, <1>5 DEF GoodRequest, KeepsTogether
<1>7. PICK q \in a.live : a.judged[q][e] = "positive" /\ a.judged[q][f] = "positive"
  BY <1>6 DEF TogetherIn
<1>8. q \in live'
  BY <1>1
<1>9. judged'[q][e] = "positive" /\ judged'[q][f] = "positive"
  BY <1>2, <1>7, <1>8, CommitsAsMeant
<1> QED
  BY <1>8, <1>9 DEF Together

(* Two entities in one profile stay in one profile, whatever others are    *)
(* judged and however profiles are merged, with requests that overlap.     *)
THEOREM MergesAlwaysKeepTogether == Spec => MergesKeepTogether
<1>1. Inv /\ [Next]_vars =>
        [\A r \in Process : Commit(r) /\ proc[r].before.live \subseteq live =>
           \A e, f \in Entity :
             Together(e, f) /\ ~Doubted(e) /\ ~Doubted(f) /\ JudgesNeither(r, e, f)
             => Together(e, f)']_vars
  BY CommitKeepsTogether
<1> QED
  BY <1>1, AlwaysInv, PTL DEF Spec, MergesKeepTogether

LEMMA CommitKeepsApart ==
  ASSUME Inv, NEW r \in Process, Commit(r), NEW e \in Entity, NEW f \in Entity,
         PositiveIn(Committed, f) # {}, Apart(e, f), JudgesNeither(r, e, f)
  PROVE  Apart(e, f)'
<1> DEFINE b == proc[r].before
           a == proc[r].after
           x == proc[r].saved
<1>1. /\ GoodRequest(proc[r], created) /\ a \in View /\ b \in View
      /\ live \subseteq Profile /\ b.live \subseteq Profile
  BY CommitFacts, CommittedFacts, ViewFields DEF Inv, TypeOK
<1>2. /\ UpToDate(r, e) /\ UpToDate(r, f)
      /\ e \in Entity \ {x} /\ f \in Entity \ {x}
  BY DEF JudgesNeither
<1>j. {"positive", "negative", "unsure"} = Judgement /\ None \notin Judgement
  BY NoneIsNoProfile DEF Judgement
<1>3. \A p \in live : judged[p][f] = "positive" => judged[p][e] = "negative"
  BY DEF Apart, PositiveIn, Committed
<1>4. ApartIn(b, e, f)
  <2> SUFFICES ASSUME NEW p \in b.live, b.judged[p][f] = "positive"
               PROVE  b.judged[p][e] = "negative"
    BY DEF ApartIn
  <2>1. p \in live /\ judged[p][f] = "positive"
    BY <1>1, <1>2, <1>j, ReadAsItIs
  <2>2. judged[p][e] = "negative"
    BY <1>3, <2>1
  <2> QED
    BY <1>1, <1>2, <1>j, <2>1, <2>2, ReadAsItIs
<1>5. PositiveIn(b, f) # {}
  <2>1. PICK p \in live : judged[p][f] = "positive"
    BY DEF PositiveIn, Committed
  <2>2. p \in b.live /\ b.judged[p][f] = "positive"
    BY <1>1, <1>2, <1>j, <2>1, ReadAsItIs
  <2> QED
    BY <2>2 DEF PositiveIn
<1>6. ApartIn(a, e, f)
  BY <1>1, <1>2, <1>4, <1>5 DEF GoodRequest, KeepsApart
<1>7. ASSUME NEW p \in live', judged'[p][f] = "positive"
      PROVE  judged'[p][e] = "negative"
  <2>1. p \in a.live /\ a.judged[p][f] = "positive"
    BY <1>2, <1>j, <1>7, CommitsAsMeant
  <2>2. a.judged[p][e] = "negative"
    BY <1>6, <2>1 DEF ApartIn
  <2> QED
    BY <1>2, <2>1, <2>2, CommitsAsMeant
<1> QED
  BY <1>7 DEF Apart, PositiveIn, Committed

(* What was judged different from an entity of a profile stays so, with    *)
(* requests that overlap: a merge never loses a negative judgement.        *)
THEOREM NegativesAlwaysKept == Spec => NegativesKept
<1>1. Inv /\ [Next]_vars =>
        [\A r \in Process : Commit(r) =>
           \A e, f \in Entity :
             /\ PositiveIn(Committed, f) # {} /\ Apart(e, f)
             /\ JudgesNeither(r, e, f)
             => Apart(e, f)']_vars
  BY CommitKeepsApart
<1> QED
  BY <1>1, AlwaysInv, PTL DEF Spec, NegativesKept
=============================================================================
