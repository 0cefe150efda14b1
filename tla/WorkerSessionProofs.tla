------------------------ MODULE WorkerSessionProofs ------------------------
(***************************************************************************)
(* The Session for any number of processes, inputs and Segments.           *)
(***************************************************************************)
EXTENDS WorkerSession, SequenceTheorems, TLAPS

(***************************************************************************)
(* Sequences                                                               *)
(***************************************************************************)
Injective(s) == \A j, k \in 1..Len(s) : s[j] = s[k] => j = k

LEMMA ToSetIs ==
    ASSUME NEW S, NEW s \in Seq(S)
    PROVE  ToSet(s) = {s[k] : k \in 1..Len(s)} /\ ToSet(s) \subseteq S
BY DEF ToSet

LEMMA ToSetEmpty == ToSet(<<>>) = {}
BY DEF ToSet

LEMMA PushFront ==
    ASSUME NEW S, NEW s \in Seq(S), NEW x \in S
    PROVE  /\ <<x>> \o s \in Seq(S)
           /\ ToSet(<<x>> \o s) = ToSet(s) \cup {x}
           /\ Injective(s) /\ x \notin ToSet(s) => Injective(<<x>> \o s)
<1> DEFINE t == <<x>> \o s
<1>0. <<x>> \in Seq(S) /\ Len(<<x>>) = 1 /\ <<x>>[1] = x
  OBVIOUS
<1>1. t \in Seq(S) /\ Len(t) = Len(s) + 1
  BY <1>0, ConcatProperties
<1>2. \A k \in 1..Len(s) + 1 : t[k] = IF k = 1 THEN x ELSE s[k - 1]
  <2> SUFFICES ASSUME NEW k \in 1..Len(s) + 1 PROVE t[k] = IF k = 1 THEN x ELSE s[k - 1]
    OBVIOUS
  <2>1. t[k] = IF k <= 1 THEN <<x>>[k] ELSE s[k - 1]
    BY <1>0, ConcatProperties
  <2> QED BY <2>1, <1>0
<1> HIDE DEF t
<1>3. ToSet(t) = ToSet(s) \cup {x}
  <2>1. ToSet(t) = {t[k] : k \in 1..Len(t)} /\ ToSet(s) = {s[k] : k \in 1..Len(s)}
    BY <1>1, ToSetIs
  <2>2. \A k \in 1..Len(s) : s[k] = t[k + 1] /\ k + 1 \in 1..Len(t)
    BY <1>1, <1>2
  <2> QED BY <2>1, <2>2, <1>1, <1>2
<1>4. ASSUME Injective(s), x \notin ToSet(s) PROVE Injective(t)
  <2> SUFFICES ASSUME NEW j \in 1..Len(t), NEW k \in 1..Len(t), t[j] = t[k] PROVE j = k
    BY DEF Injective
  <2>1. ToSet(s) = {s[i] : i \in 1..Len(s)}
    BY ToSetIs
  <2>2. (j = 1) <=> (k = 1)
    BY <1>1, <1>2, <1>4, <2>1
  <2>3. CASE j # 1
    <3>1. s[j - 1] = s[k - 1] /\ j - 1 \in 1..Len(s) /\ k - 1 \in 1..Len(s)
      BY <1>1, <1>2, <2>2, <2>3
    <3>2. j - 1 = k - 1
      BY <3>1, <1>4 DEF Injective
    <3> QED BY <3>2
  <2> QED BY <2>2, <2>3
<1> QED BY <1>1, <1>3, <1>4 DEF t

LEMMA PushBack ==
    ASSUME NEW S, NEW s \in Seq(S), NEW x \in S
    PROVE  /\ Append(s, x) \in Seq(S)
           /\ ToSet(Append(s, x)) = ToSet(s) \cup {x}
           /\ Injective(s) /\ x \notin ToSet(s) => Injective(Append(s, x))
<1> DEFINE t == Append(s, x)
<1>1. /\ t \in Seq(S) /\ Len(t) = Len(s) + 1
      /\ \A k \in 1..Len(s) : t[k] = s[k]
      /\ t[Len(s) + 1] = x
  OBVIOUS
<1> HIDE DEF t
<1>2. ToSet(t) = {t[k] : k \in 1..Len(t)} /\ ToSet(s) = {s[k] : k \in 1..Len(s)}
  BY <1>1, ToSetIs
<1>3. ToSet(t) = ToSet(s) \cup {x}
  BY <1>1, <1>2
<1>4. ASSUME Injective(s), x \notin ToSet(s) PROVE Injective(t)
  BY <1>1, <1>2, <1>4 DEF Injective
<1> QED BY <1>1, <1>3, <1>4 DEF t

LEMMA PopFront ==
    ASSUME NEW S, NEW s \in Seq(S), s # <<>>, Injective(s)
    PROVE  /\ Head(s) \in S /\ Tail(s) \in Seq(S)
           /\ ToSet(s) = ToSet(Tail(s)) \cup {Head(s)}
           /\ Injective(Tail(s)) /\ Head(s) \notin ToSet(Tail(s))
<1> DEFINE t == Tail(s)
<1>1. /\ t \in Seq(S) /\ Len(t) = Len(s) - 1 /\ Head(s) = s[1] /\ Head(s) \in S
      /\ Len(s) \in Nat \ {0}
      /\ \A k \in 1..Len(t) : t[k] = s[k + 1]
  BY HeadTailProperties
<1> HIDE DEF t
<1>2. ToSet(t) = {t[k] : k \in 1..Len(t)} /\ ToSet(s) = {s[k] : k \in 1..Len(s)}
  BY <1>1, ToSetIs
<1>3. ToSet(s) = ToSet(t) \cup {s[1]}
  <2>1. \A k \in 1..Len(s) : k # 1 => k - 1 \in 1..Len(t) /\ s[k] = t[k - 1]
    BY <1>1
  <2>2. \A k \in 1..Len(t) : k + 1 \in 1..Len(s) /\ t[k] = s[k + 1]
    BY <1>1
  <2> QED BY <1>1, <1>2, <2>1, <2>2, SMTT(30)
<1>4. Injective(t)
  <2> SUFFICES ASSUME NEW j \in 1..Len(t), NEW k \in 1..Len(t), t[j] = t[k] PROVE j = k
    BY DEF Injective
  <2>1. s[j + 1] = s[k + 1] /\ j + 1 \in 1..Len(s) /\ k + 1 \in 1..Len(s)
    BY <1>1
  <2>2. j + 1 = k + 1
    BY <2>1 DEF Injective
  <2> QED BY <2>2
<1>5. s[1] \notin ToSet(t)
  <2> SUFFICES ASSUME NEW k \in 1..Len(t), t[k] = s[1] PROVE FALSE
    BY <1>2
  <2>1. s[k + 1] = s[1] /\ k + 1 \in 1..Len(s) /\ 1 \in 1..Len(s)
    BY <1>1
  <2>2. k + 1 = 1
    BY <2>1 DEF Injective
  <2> QED BY <2>2
<1> QED BY <1>1, <1>3, <1>4, <1>5 DEF t

LEMMA RemoveOne ==
    ASSUME NEW S, NEW s \in Seq(S), Injective(s), NEW i \in 1..Len(s)
    PROVE  /\ RemoveAt(s, i) \in Seq(S)
           /\ ToSet(RemoveAt(s, i)) = ToSet(s) \ {s[i]}
           /\ Injective(RemoveAt(s, i))
<1> DEFINE a == SubSeq(s, 1, i - 1)
           b == SubSeq(s, i + 1, Len(s))
           t == a \o b
<1>0. Len(s) \in Nat /\ (\A k \in 1..Len(s) : s[k] \in S)
  OBVIOUS
<1>1. a \in Seq(S) /\ Len(a) = i - 1 /\ \A k \in 1..i - 1 : a[k] = s[k]
  <2>1. /\ a \in Seq(S) /\ Len(a) = (IF 1 <= i - 1 THEN i - 1 - 1 + 1 ELSE 0)
        /\ \A k \in 1..i - 1 - 1 + 1 : a[k] = s[1 + k - 1]
    <3>1. \A k \in 1..i - 1 : s[k] \in S
      BY <1>0
    <3> QED BY <3>1, SubSeqProperties
  <2> QED BY <2>1
<1>2. b \in Seq(S) /\ Len(b) = Len(s) - i /\ \A k \in 1..Len(s) - i : b[k] = s[i + k]
  <2>1. /\ b \in Seq(S) /\ Len(b) = (IF i + 1 <= Len(s) THEN Len(s) - (i + 1) + 1 ELSE 0)
        /\ \A k \in 1..Len(s) - (i + 1) + 1 : b[k] = s[(i + 1) + k - 1]
    <3>1. \A k \in i + 1..Len(s) : s[k] \in S
      BY <1>0
    <3> QED BY <3>1, <1>0, SubSeqProperties
  <2> QED BY <2>1, <1>0
<1> HIDE DEF a, b
<1>3. /\ t \in Seq(S) /\ Len(t) = Len(s) - 1
      /\ \A k \in 1..Len(s) - 1 : t[k] = IF k < i THEN s[k] ELSE s[k + 1]
  <2>1. /\ t \in Seq(S) /\ Len(t) = Len(a) + Len(b)
        /\ \A k \in 1..Len(a) + Len(b) : t[k] = IF k <= Len(a) THEN a[k] ELSE b[k - Len(a)]
    BY <1>1, <1>2, ConcatProperties
  <2>2. ASSUME NEW k \in 1..Len(s) - 1 PROVE t[k] = IF k < i THEN s[k] ELSE s[k + 1]
    <3>1. t[k] = IF k <= i - 1 THEN a[k] ELSE b[k - (i - 1)]
      BY <2>1, <1>1, <1>2
    <3>2. CASE k < i
      BY <3>1, <3>2, <1>1
    <3>3. CASE ~(k < i)
      <4>1. k - (i - 1) \in 1..Len(s) - i
        BY <3>3
      <4>2. b[k - (i - 1)] = s[i + (k - (i - 1))]
        BY <4>1, <1>2
      <4>3. i + (k - (i - 1)) = k + 1
        OBVIOUS
      <4> QED BY <3>1, <3>3, <4>2, <4>3
    <3> QED BY <3>2, <3>3
  <2> QED BY <2>1, <2>2, <1>1, <1>2
<1> HIDE DEF t
<1>4. ToSet(t) = {t[k] : k \in 1..Len(t)} /\ ToSet(s) = {s[k] : k \in 1..Len(s)}
  BY <1>3, ToSetIs
<1>5. ASSUME NEW k \in 1..Len(s), k # i
      PROVE  \E j \in 1..Len(t) : t[j] = s[k]
  <2>1. CASE k < i
    BY <1>3, <2>1
  <2>2. CASE k > i
    <3>1. k - 1 \in 1..Len(s) - 1 /\ ~(k - 1 < i) /\ (k - 1) + 1 = k
      BY <2>2
    <3> QED BY <3>1, <1>3
  <2> QED BY <1>5, <2>1, <2>2
<1>6. ASSUME NEW j \in 1..Len(t)
      PROVE  \E k \in 1..Len(s) : k # i /\ s[k] = t[j] /\ k = IF j < i THEN j ELSE j + 1
  BY <1>3
<1>7. ToSet(t) = ToSet(s) \ {s[i]}
  <2>1. ASSUME NEW x \in ToSet(t) PROVE x \in ToSet(s) \ {s[i]}
    <3>1. PICK j \in 1..Len(t) : x = t[j]
      BY <1>4
    <3>2. PICK k \in 1..Len(s) : k # i /\ s[k] = x
      BY <3>1, <1>6
    <3> QED BY <3>2, <1>4 DEF Injective
  <2>2. ASSUME NEW x \in ToSet(s) \ {s[i]} PROVE x \in ToSet(t)
    BY <1>4, <1>5
  <2> QED BY <2>1, <2>2
<1>8. Injective(t)
  <2> SUFFICES ASSUME NEW j \in 1..Len(t), NEW k \in 1..Len(t), t[j] = t[k] PROVE j = k
    BY DEF Injective
  <2>1. PICK j1 \in 1..Len(s) : s[j1] = t[j] /\ j1 = IF j < i THEN j ELSE j + 1
    BY <1>6
  <2>2. PICK k1 \in 1..Len(s) : s[k1] = t[k] /\ k1 = IF k < i THEN k ELSE k + 1
    BY <1>6
  <2>3. j1 = k1
    BY <2>1, <2>2 DEF Injective
  <2> QED BY <2>1, <2>2, <2>3, <1>3
<1> QED BY <1>3, <1>7, <1>8 DEF RemoveAt, t, a, b

(***************************************************************************)
(* Well-formed memories                                                    *)
(***************************************************************************)
\* No submission is queued twice, everything pending has a receipt, and only
\* what is pending is marked as activated at once.
WellFormed(m) ==
    /\ Injective(m.pending) /\ Injective(m.notifications)
    /\ m.activating \notin ToSet(m.pending)
    /\ (ToSet(m.pending) \cup {m.activating}) \ {None} \subseteq m.receipts
    /\ ToSet(m.notifications) \subseteq m.receipts
    /\ m.direct \subseteq ToSet(m.pending) \cup {m.activating}

Good == {m \in Pending : WellFormed(m)}

\* The inputs a memory still has to run, those activated at once included.
Waiting(m) ==
    ((ToSet(m.pending) \cup {m.activating}) \ {None}) \cup ToSet(m.notifications)

LEMMA GoodFields ==
    ASSUME NEW m \in Good
    PROVE  /\ m \in Pending /\ WellFormed(m)
           /\ m.activating \in Subs \cup {None} /\ m.pending \in Seq(Subs)
           /\ m.direct \in SUBSET Subs /\ m.notifications \in Seq(Notes)
           /\ m.receipts \in SUBSET (Subs \cup Notes)
           /\ m.invocations \in [Invs -> {"none", "started", "succeeded", "failed"}]
           /\ ToSet(m.pending) \subseteq Subs /\ ToSet(m.notifications) \subseteq Notes
BY ToSetIs DEF Good, Pending

LEMMA NoPendingGood == NoPending \in Good /\ Queued(NoPending) = {}
BY ToSetEmpty DEF NoPending, Good, Pending, WellFormed, Injective, Queued

LEMMA RestoredGood ==
    ASSUME NEW m \in Good
    PROVE  /\ RestoredPending(m) \in Good
           /\ Queued(RestoredPending(m)) = Queued(m)
           /\ Waiting(RestoredPending(m)) = Waiting(m)
           /\ RestoredPending(m).activating = None
           /\ RestoredPending(m).receipts = m.receipts
           /\ RestoredPending(m).invocations = m.invocations
<1> DEFINE r == RestoredPending(m)
<1>1. CASE m.activating = None
  BY <1>1 DEF RestoredPending
<1>2. CASE m.activating # None
  <2> USE GoodFields
  <2> DEFINE s == m.activating
  <2>1. s \in Subs /\ s \notin ToSet(m.pending) /\ Injective(m.pending)
    BY <1>2 DEF WellFormed
  <2>2. /\ r = [m EXCEPT !.pending = <<s>> \o m.pending, !.activating = None]
        /\ r.pending = <<s>> \o m.pending /\ r.activating = None
        /\ r.direct = m.direct /\ r.notifications = m.notifications
        /\ r.receipts = m.receipts /\ r.invocations = m.invocations
    BY <1>2 DEF RestoredPending, Pending
  <2>3. /\ r.pending \in Seq(Subs) /\ ToSet(r.pending) = ToSet(m.pending) \cup {s}
        /\ Injective(r.pending)
    BY <2>1, <2>2, PushFront
  <2>4. r \in Pending
    BY <2>2, <2>3 DEF Pending
  <2>5. None \notin ToSet(r.pending)
    BY <2>3, <2>1, NoneAssumption
  <2>6. WellFormed(r)
    BY <2>2, <2>3, <2>5, <2>1 DEF WellFormed
  <2>7. Queued(r) = Queued(m) /\ Waiting(r) = Waiting(m)
    BY <2>2, <2>3, <2>1 DEF Queued, Waiting
  <2> QED BY <2>2, <2>4, <2>6, <2>7 DEF Good
<1> QED BY <1>1, <1>2

LEMMA PreparedGood ==
    ASSUME NEW m \in Good, m.pending # <<>>, m.activating = None
    PROVE  /\ PreparedNext(m) \in Good
           /\ Queued(PreparedNext(m)) = Queued(m)
           /\ Waiting(PreparedNext(m)) = Waiting(m)
           /\ PreparedNext(m).activating \in Subs
           /\ PreparedNext(m).receipts = m.receipts
           /\ PreparedNext(m).invocations = m.invocations
<1> USE GoodFields
<1> DEFINE r == PreparedNext(m)
<1>1. /\ r = [m EXCEPT !.activating = Head(m.pending), !.pending = Tail(m.pending)]
      /\ r.pending = Tail(m.pending) /\ r.activating = Head(m.pending)
      /\ r.direct = m.direct /\ r.notifications = m.notifications
      /\ r.receipts = m.receipts /\ r.invocations = m.invocations
  BY DEF PreparedNext, Pending
<1>2. /\ Head(m.pending) \in Subs /\ Tail(m.pending) \in Seq(Subs)
      /\ ToSet(m.pending) = ToSet(r.pending) \cup {r.activating}
      /\ Injective(r.pending) /\ r.activating \notin ToSet(r.pending)
  BY <1>1, PopFront DEF WellFormed
<1>3. r \in Pending
  BY <1>1, <1>2 DEF Pending
<1>4. None \notin ToSet(m.pending) /\ None \notin m.direct
  BY NoneAssumption
<1>5. WellFormed(r)
  BY <1>1, <1>2, <1>4 DEF WellFormed
<1>6. Queued(r) = Queued(m) /\ Waiting(r) = Waiting(m)
  BY <1>1, <1>2 DEF Queued, Waiting
<1> QED BY <1>1, <1>2, <1>3, <1>5, <1>6 DEF Good

LEMMA ClearedGood ==
    ASSUME NEW m \in Good, m.activating \in Subs
    PROVE  /\ ClearedActivation(m) \in Good
           /\ Queued(ClearedActivation(m)) = Queued(m) \ {m.activating}
           /\ Waiting(ClearedActivation(m)) = Waiting(m) \ {m.activating}
           /\ m.activating \in Waiting(m) /\ m.activating \in m.receipts
           /\ ClearedActivation(m).activating = None
           /\ ClearedActivation(m).pending = m.pending
           /\ ClearedActivation(m).direct = m.direct \ {m.activating}
           /\ ClearedActivation(m).notifications = m.notifications
           /\ ClearedActivation(m).receipts = m.receipts
           /\ ClearedActivation(m).invocations = m.invocations
<1> USE GoodFields
<1> DEFINE r == ClearedActivation(m)
<1>1. /\ r = [m EXCEPT !.activating = None, !.direct = m.direct \ {m.activating}]
      /\ r.pending = m.pending /\ r.activating = None
      /\ r.direct = m.direct \ {m.activating} /\ r.notifications = m.notifications
      /\ r.receipts = m.receipts /\ r.invocations = m.invocations
  BY DEF ClearedActivation, Pending
<1>2. r \in Pending
  BY <1>1 DEF Pending
<1>3. None \notin ToSet(m.pending) /\ m.activating \notin ToSet(m.notifications)
  BY NoneAssumption, KindsAssumption
<1>4. WellFormed(r)
  BY <1>1, <1>3 DEF WellFormed
<1>5. Queued(r) = Queued(m) \ {m.activating}
  BY <1>1, <1>3 DEF Queued, WellFormed
<1>6. /\ Waiting(r) = Waiting(m) \ {m.activating}
      /\ m.activating \in Waiting(m) /\ m.activating \in m.receipts
  BY <1>1, <1>3, NoneAssumption DEF Waiting, WellFormed
<1> QED BY <1>1, <1>2, <1>4, <1>5, <1>6 DEF Good

LEMMA NowGood ==
    ASSUME NEW m \in Good, NEW s \in Subs, s \notin m.receipts, m.activating = None,
           NEW r, r = [m EXCEPT !.activating = s, !.direct = m.direct \cup {s},
                                !.receipts = m.receipts \cup {s}]
    PROVE  /\ r \in Good /\ Queued(r) = Queued(m) /\ r.activating \in Subs
           /\ Waiting(r) = Waiting(m) \cup {s}
           /\ r.invocations = m.invocations /\ r.receipts = m.receipts \cup {s}
<1> USE GoodFields
<1>1. /\ r.pending = m.pending /\ r.activating = s
      /\ r.direct = m.direct \cup {s} /\ r.notifications = m.notifications
      /\ r.receipts = m.receipts \cup {s} /\ r.invocations = m.invocations
  BY DEF Pending
<1>2. r \in Pending
  BY DEF Pending
<1>3. s \notin ToSet(m.pending) /\ None \notin ToSet(m.pending) /\ s # None
      /\ s \notin ToSet(m.notifications) /\ None \notin m.direct
  BY NoneAssumption, KindsAssumption DEF WellFormed
<1>4. WellFormed(r)
  BY <1>1, <1>3 DEF WellFormed
<1>5. Queued(r) = Queued(m)
  BY <1>1, <1>3 DEF Queued, WellFormed
<1>6. Waiting(r) = Waiting(m) \cup {s}
  BY <1>1, <1>3 DEF Waiting
<1> QED BY <1>1, <1>2, <1>4, <1>5, <1>6 DEF Good

LEMMA QueuedGood ==
    ASSUME NEW m \in Good, NEW s \in Subs, s \notin m.receipts, m.activating = None,
           NEW r, r = [m EXCEPT !.pending = Append(m.pending, s),
                                !.receipts = m.receipts \cup {s}]
    PROVE  /\ r \in Good /\ Queued(r) = Queued(m) \cup {s} /\ r.activating = None
           /\ Waiting(r) = Waiting(m) \cup {s}
           /\ r.invocations = m.invocations /\ r.receipts = m.receipts \cup {s}
<1> USE GoodFields
<1>1. /\ r.pending = Append(m.pending, s) /\ r.activating = None
      /\ r.direct = m.direct /\ r.notifications = m.notifications
      /\ r.receipts = m.receipts \cup {s} /\ r.invocations = m.invocations
  BY DEF Pending
<1>3. s \notin ToSet(m.pending) /\ None \notin ToSet(m.pending) /\ s # None
      /\ s \notin m.direct
  BY NoneAssumption, KindsAssumption DEF WellFormed
<1>2. /\ r.pending \in Seq(Subs) /\ ToSet(r.pending) = ToSet(m.pending) \cup {s}
      /\ Injective(r.pending)
  BY <1>1, <1>3, PushBack DEF WellFormed
<1>4. r \in Pending
  BY <1>2 DEF Pending
<1>5. WellFormed(r)
  BY <1>1, <1>2, <1>3 DEF WellFormed
<1>6. Queued(r) = Queued(m) \cup {s} /\ Waiting(r) = Waiting(m) \cup {s}
  BY <1>1, <1>2, <1>3 DEF Queued, Waiting
<1> QED BY <1>1, <1>4, <1>5, <1>6 DEF Good

LEMMA NotedGood ==
    ASSUME NEW m \in Good, NEW n \in Notes, n \notin m.receipts,
           NEW r, r = [m EXCEPT !.notifications = Append(m.notifications, n),
                                !.receipts = m.receipts \cup {n}]
    PROVE  /\ r \in Good /\ Queued(r) = Queued(m) \cup {n}
           /\ Waiting(r) = Waiting(m) \cup {n}
           /\ r.activating = m.activating
           /\ r.invocations = m.invocations /\ r.receipts = m.receipts \cup {n}
<1> USE GoodFields
<1>1. /\ r.notifications = Append(m.notifications, n) /\ r.activating = m.activating
      /\ r.direct = m.direct /\ r.pending = m.pending
      /\ r.receipts = m.receipts \cup {n} /\ r.invocations = m.invocations
  BY DEF Pending
<1>3. n \notin ToSet(m.notifications)
  BY DEF WellFormed
<1>2. /\ r.notifications \in Seq(Notes)
      /\ ToSet(r.notifications) = ToSet(m.notifications) \cup {n}
      /\ Injective(r.notifications)
  BY <1>1, <1>3, PushBack DEF WellFormed
<1>4. r \in Pending
  BY <1>2 DEF Pending
<1>5. WellFormed(r)
  BY <1>1, <1>2, <1>3 DEF WellFormed
<1>6. Queued(r) = Queued(m) \cup {n} /\ Waiting(r) = Waiting(m) \cup {n}
  BY <1>1, <1>2, <1>3 DEF Queued, Waiting
<1> QED BY <1>1, <1>4, <1>5, <1>6 DEF Good

LEMMA CancelledGood ==
    ASSUME NEW m \in Good, NEW k \in 1..Len(m.pending), m.activating = None,
           NEW r, r = [m EXCEPT !.pending = RemoveAt(m.pending, k),
                                !.direct = m.direct \ {m.pending[k]}]
    PROVE  /\ r \in Good
           /\ Queued(r) = Queued(m) \ (ToSet(m.pending) \ ToSet(r.pending))
           /\ r.activating = None /\ r.invocations = m.invocations
           /\ Waiting(r) \subseteq Waiting(m)
           /\ r.receipts = m.receipts
<1> USE GoodFields
<1>1. /\ r.pending = RemoveAt(m.pending, k) /\ r.activating = None
      /\ r.direct = m.direct \ {m.pending[k]} /\ r.notifications = m.notifications
      /\ r.receipts = m.receipts /\ r.invocations = m.invocations
  BY DEF Pending
<1>2. /\ r.pending \in Seq(Subs) /\ ToSet(r.pending) = ToSet(m.pending) \ {m.pending[k]}
      /\ Injective(r.pending)
  BY <1>1, RemoveOne DEF WellFormed
<1>3. m.pending[k] \in Subs /\ m.pending[k] \in ToSet(m.pending)
  BY ToSetIs
<1>4. /\ None \notin ToSet(m.pending) /\ m.pending[k] \notin ToSet(m.notifications)
      /\ ToSet(m.pending) \ ToSet(r.pending) = {m.pending[k]}
  BY <1>2, <1>3, NoneAssumption, KindsAssumption
<1>5. r \in Pending
  BY <1>2 DEF Pending
<1>6. WellFormed(r)
  BY <1>1, <1>2, <1>4 DEF WellFormed
<1>7. Queued(r) = Queued(m) \ {m.pending[k]} /\ Waiting(r) \subseteq Waiting(m)
  BY <1>1, <1>2, <1>4 DEF Queued, Waiting
<1> QED BY <1>1, <1>4, <1>5, <1>6, <1>7 DEF Good

LEMMA EmptiedGood ==
    ASSUME NEW m \in Good, m.activating = None,
           NEW r, r = [m EXCEPT !.pending = <<>>, !.direct = m.direct \ ToSet(m.pending)]
    PROVE  /\ r \in Good
           /\ Queued(r) = Queued(m) \ (ToSet(m.pending) \ ToSet(r.pending))
           /\ r.activating = None /\ r.invocations = m.invocations
           /\ Waiting(r) \subseteq Waiting(m)
           /\ r.receipts = m.receipts
<1> USE GoodFields
<1>1. /\ r.pending = <<>> /\ r.activating = None
      /\ r.direct = m.direct \ ToSet(m.pending) /\ r.notifications = m.notifications
      /\ r.receipts = m.receipts /\ r.invocations = m.invocations
  BY DEF Pending
<1>2. r.pending \in Seq(Subs) /\ ToSet(r.pending) = {} /\ Injective(r.pending)
  BY <1>1, ToSetEmpty DEF Injective
<1>4. ToSet(m.pending) \cap ToSet(m.notifications) = {} /\ None \notin ToSet(m.pending)
  BY KindsAssumption, NoneAssumption
<1>5. r \in Pending
  BY <1>1, <1>2 DEF Pending
<1>6. WellFormed(r)
  BY <1>1, <1>2, <1>4 DEF WellFormed
<1>7. Queued(r) = Queued(m) \ ToSet(m.pending) /\ Waiting(r) \subseteq Waiting(m)
  BY <1>1, <1>2, <1>4 DEF Queued, Waiting
<1> QED BY <1>1, <1>2, <1>5, <1>6, <1>7 DEF Good

LEMMA AbortedGood ==
    ASSUME NEW m \in Good, m.activating \in Subs,
           NEW r, r = IF m.activating \in m.direct
                      THEN [ClearedActivation(m) EXCEPT !.receipts = @ \ {m.activating}]
                      ELSE [ClearedActivation(m) EXCEPT !.pending = <<m.activating>> \o @]
    PROVE  /\ r \in Good /\ Queued(r) = Queued(m) /\ r.activating = None
           /\ r.invocations = m.invocations /\ Waiting(r) \subseteq Waiting(m)
           /\ m.activating \in Waiting(m)
           /\ m.receipts \ {m.activating} \subseteq r.receipts
<1> USE GoodFields, ClearedGood
<1> DEFINE s == m.activating
           c == ClearedActivation(m)
<1>0. s \notin ToSet(m.pending) /\ s # None /\ s \notin ToSet(m.notifications)
      /\ None \notin ToSet(m.pending)
  BY NoneAssumption, KindsAssumption DEF WellFormed
<1>1. CASE s \in m.direct
  <2>1. /\ r.pending = m.pending /\ r.activating = None /\ r.direct = m.direct \ {s}
        /\ r.notifications = m.notifications /\ r.receipts = m.receipts \ {s}
        /\ r.invocations = m.invocations
    BY <1>1 DEF Pending
  <2>2. r \in Pending
    BY <1>1 DEF Pending
  <2>3. WellFormed(r)
    BY <2>1, <1>0 DEF WellFormed
  <2>4. /\ Queued(r) = Queued(m) /\ Waiting(r) \subseteq Waiting(m)
        /\ m.activating \in Waiting(m)
    BY <2>1, <1>0, <1>1 DEF Queued, Waiting
  <2> QED BY <2>1, <2>2, <2>3, <2>4 DEF Good
<1>2. CASE s \notin m.direct
  <2>1. /\ r.pending = <<s>> \o m.pending /\ r.activating = None
        /\ r.direct = m.direct \ {s}
        /\ r.notifications = m.notifications /\ r.receipts = m.receipts
        /\ r.invocations = m.invocations
    BY <1>2 DEF Pending
  <2>2. /\ r.pending \in Seq(Subs) /\ ToSet(r.pending) = ToSet(m.pending) \cup {s}
        /\ Injective(r.pending)
    BY <2>1, <1>0, PushFront DEF WellFormed
  <2>3. r \in Pending
    BY <2>2, <2>1, <1>2 DEF Pending
  <2>4. WellFormed(r)
    BY <2>1, <2>2, <1>0 DEF WellFormed
  <2>5. /\ Queued(r) = Queued(m) /\ Waiting(r) \subseteq Waiting(m)
        /\ m.activating \in Waiting(m)
    BY <2>1, <2>2, <1>0, <1>2 DEF Queued, Waiting
  <2> QED BY <2>1, <2>3, <2>4, <2>5 DEF Good
<1> QED BY <1>1, <1>2

LEMMA InvokedGood ==
    ASSUME NEW m \in Good, NEW f \in [Invs -> {"none", "started", "succeeded", "failed"}],
           NEW r, r = [m EXCEPT !.invocations = f]
    PROVE  /\ r \in Good /\ Queued(r) = Queued(m) /\ r.activating = m.activating
           /\ r.invocations = f /\ r.receipts = m.receipts /\ Waiting(r) = Waiting(m)
<1> USE GoodFields
<1>1. /\ r.pending = m.pending /\ r.activating = m.activating /\ r.direct = m.direct
      /\ r.notifications = m.notifications /\ r.receipts = m.receipts
      /\ r.invocations = f
  BY DEF Pending
<1>2. r \in Pending
  BY DEF Pending
<1> QED BY <1>1, <1>2 DEF Good, WellFormed, Queued, Waiting

LEMMA DeliveredGood ==
    ASSUME NEW m \in Good, m.notifications # <<>>,
           NEW r, r = [m EXCEPT !.notifications = Tail(m.notifications)]
    PROVE  /\ r \in Good /\ Queued(r) = Queued(m) \ {Head(m.notifications)}
           /\ r.activating = m.activating /\ r.invocations = m.invocations
           /\ r.receipts = m.receipts /\ Head(m.notifications) \in Notes
           /\ Head(m.notifications) \in m.receipts
           /\ Waiting(r) = Waiting(m) \ {Head(m.notifications)}
           /\ Head(m.notifications) \in Waiting(m)
<1> USE GoodFields
<1>1. /\ r.pending = m.pending /\ r.activating = m.activating /\ r.direct = m.direct
      /\ r.notifications = Tail(m.notifications) /\ r.receipts = m.receipts
      /\ r.invocations = m.invocations
  BY DEF Pending
<1>2. /\ Head(m.notifications) \in Notes /\ Tail(m.notifications) \in Seq(Notes)
      /\ ToSet(m.notifications) = ToSet(r.notifications) \cup {Head(m.notifications)}
      /\ Injective(r.notifications) /\ Head(m.notifications) \notin ToSet(r.notifications)
  BY <1>1, PopFront DEF WellFormed
<1>3. r \in Pending
  BY <1>2, ZenonT(60) DEF Pending
<1>4. Head(m.notifications) \notin ToSet(m.pending) \cup {m.activating}
  BY <1>2, KindsAssumption, NoneAssumption
<1>8. Head(m.notifications) # None
  BY <1>2, NoneAssumption
<1>5. WellFormed(r)
  BY <1>1, <1>2 DEF WellFormed
<1>6. Queued(r) = Queued(m) \ {Head(m.notifications)}
  BY <1>1, <1>2, <1>4 DEF Queued
<1>7. /\ Waiting(r) = Waiting(m) \ {Head(m.notifications)}
      /\ Head(m.notifications) \in Waiting(m)
  BY <1>1, <1>2, <1>4, <1>8 DEF Waiting
<1> QED BY <1>1, <1>2, <1>3, <1>5, <1>6, <1>7 DEF Good, WellFormed

(***************************************************************************)
(* What a step of the writing process does                                 *)
(***************************************************************************)
Inputs == Subs \cup Notes

GoodSegment == [history: Seq(Inputs), checkpoint: Good]

GoodRecord == [phase: Phases, loc: Segments, mem: Good, extension: Good,
               source: GoodSegment, prefix: GoodSegment \cup {None},
               next: Segments, resume: Phases]

\* The phase of the run a Segment switch belongs to.
Caller(p) == IF proc[p].phase \in Switching THEN proc[p].resume ELSE proc[p].phase

\* The effects, and which of them are out of account.
Counters == effects \in [Invs -> Nat] /\ astray \in [Invs -> BOOLEAN]

Shaped ==
    /\ log \in Seq(GoodSegment) /\ Len(log) \in Segments
    /\ pointer \in 1..Len(log)
    /\ alloc \in [owner: Procs \cup {None}, segment: Segments]
    /\ lock \in Procs \cup {None}
    /\ proc \in [Procs -> GoodRecord]
    /\ Counters
    /\ owed \subseteq Inputs
    /\ stale \in BOOLEAN /\ torn \in BOOLEAN

Placed ==
    \A p \in Procs :
        /\ proc[p].phase \notin {"off", "dead"} => proc[p].loc \in 1..Len(log)
        /\ proc[p].phase \in Switching =>
               /\ proc[p].next \in 1..Len(log) /\ proc[p].next # proc[p].loc
               /\ proc[p].resume \in {"started", "running", "compacting"}
        /\ proc[p].phase \in Writing =>
               (proc[p].mem.activating \in Subs <=> Caller(p) \in {"prepared", "started"})

Typed == Shaped /\ Placed

LEMMA Fields ==
    ASSUME Typed, NEW p \in Procs
    PROVE  /\ proc[p] \in GoodRecord
           /\ proc[p].phase \in Phases /\ proc[p].loc \in Segments
           /\ proc[p].mem \in Good /\ proc[p].extension \in Good
           /\ proc[p].source \in GoodSegment /\ proc[p].prefix \in GoodSegment \cup {None}
           /\ proc[p].next \in Segments /\ proc[p].resume \in Phases
BY DEF Typed, Shaped, GoodRecord

LEMMA OpenFields ==
    ASSUME Typed, NEW p \in Procs, proc[p].phase \in Open
    PROVE  /\ proc[p].loc \in 1..Len(log) /\ Written(p) \in GoodSegment
           /\ Written(p).history \in Seq(Inputs) /\ Written(p).checkpoint \in Good
           /\ proc[p].mem.activating \in Subs <=> proc[p].phase \in {"prepared", "started"}
           /\ proc[p].mem.activating \in Subs \cup {None}
           /\ proc[p].mem.activating = None <=> proc[p].phase \notin {"prepared", "started"}
<1>1. /\ proc[p].phase \notin {"off", "dead"} \cup Switching
      /\ proc[p].phase \in Writing
  BY DEF Open, Switching, Writing, Turn
<1>2. /\ proc[p].loc \in 1..Len(log)
      /\ proc[p].mem.activating \in Subs <=> proc[p].phase \in {"prepared", "started"}
  BY <1>1 DEF Typed, Placed, Caller
<1>3. Written(p) \in GoodSegment
  BY <1>2 DEF Typed, Shaped, Written
<1>4. proc[p].mem.activating \in Subs \cup {None} /\ None \notin Subs
  BY Fields, GoodFields, NoneAssumption
<1>5. Written(p).history \in Seq(Inputs) /\ Written(p).checkpoint \in Good
  BY <1>3 DEF GoodSegment
<1> QED BY <1>2, <1>3, <1>4, <1>5

\* The writer p changes its own memory and its own Segment, and keeps memory
\* and log in step with what is owed.
WriterStep(p) ==
    LET r == proc'[p]
        g == log'[proc[p].loc]
    IN  /\ proc' = [proc EXCEPT ![p] = r] /\ r \in GoodRecord
        /\ log' = [log EXCEPT ![proc[p].loc] = g] /\ g \in GoodSegment
        /\ proc[p].phase \in Open /\ r.phase \in Open
        /\ r.loc = proc[p].loc /\ r.next = proc[p].next /\ r.resume = proc[p].resume
        /\ r.mem.activating \in Subs <=> r.phase \in {"prepared", "started"}
        /\ UNCHANGED <<pointer, alloc, lock, torn>>
        /\ Counters' /\ owed' \subseteq Inputs /\ stale' \in BOOLEAN
        /\ Queued(proc[p].mem) = owed => Queued(r.mem) = owed'
        /\ Queued(proc[p].mem) = owed /\ (stale \/ Queued(Written(p).checkpoint) = owed)
               => stale' \/ Queued(g.checkpoint) = owed'

\* A step that leaves the log alone.
LEMMA MemoryStep ==
    ASSUME Typed, NEW p \in Procs, proc[p].phase \in Open,
           NEW ph \in Open, NEW m \in Good, NEW e \in Good,
           NEW x \in GoodSegment \cup {None},
           NEW r, r = [proc[p] EXCEPT !.phase = ph, !.mem = m, !.extension = e, !.prefix = x],
           proc' = [proc EXCEPT ![p] = r],
           Queued(m) = Queued(proc[p].mem),
           m.activating \in Subs <=> ph \in {"prepared", "started"},
           Counters',
           UNCHANGED <<log, pointer, alloc, lock, torn, owed, stale>>
    PROVE  WriterStep(p)
<1>1. ph \in Phases
  BY DEF Phases, Writing
<1>2. /\ r \in GoodRecord /\ proc'[p] = r
      /\ r.phase = ph /\ r.mem = m /\ r.loc = proc[p].loc /\ r.next = proc[p].next
      /\ r.resume = proc[p].resume
  BY <1>1, Fields DEF GoodRecord, Typed, Shaped
<1>3. log' = [log EXCEPT ![proc[p].loc] = log'[proc[p].loc]]
      /\ log'[proc[p].loc] \in GoodSegment
  BY OpenFields DEF Typed, Shaped, Written
<1>4. owed' \subseteq Inputs /\ stale' \in BOOLEAN
  BY DEF Typed, Shaped
<1> QED BY <1>2, <1>3, <1>4 DEF WriterStep, Written

\* A step that replaces the Segment by g.
LEMMA LogStep ==
    ASSUME Typed, NEW p \in Procs, proc[p].phase \in Open,
           NEW ph \in Open, NEW m \in Good, NEW e \in Good,
           NEW x \in GoodSegment \cup {None}, NEW g \in GoodSegment,
           NEW r, r = [proc[p] EXCEPT !.phase = ph, !.mem = m, !.extension = e, !.prefix = x],
           proc' = [proc EXCEPT ![p] = r],
           log' = [log EXCEPT ![proc[p].loc] = g],
           Queued(proc[p].mem) = owed => Queued(m) = owed',
           m.activating \in Subs <=> ph \in {"prepared", "started"},
           stale' \in BOOLEAN, ~stale' => g.checkpoint = m, owed' \subseteq Inputs,
           Counters',
           UNCHANGED <<pointer, alloc, lock, torn>>
    PROVE  WriterStep(p)
<1>1. ph \in Phases
  BY DEF Phases, Writing
<1>2. /\ r \in GoodRecord /\ proc'[p] = r
      /\ r.phase = ph /\ r.mem = m /\ r.loc = proc[p].loc /\ r.next = proc[p].next
      /\ r.resume = proc[p].resume
  BY <1>1, Fields DEF GoodRecord, Typed, Shaped
<1>3. proc[p].loc \in 1..Len(log) /\ log \in Seq(GoodSegment)
  BY OpenFields DEF Typed, Shaped
<1>4. log'[proc[p].loc] = g
  BY <1>3, ExceptSeq
<1> QED BY <1>2, <1>4 DEF WriterStep

\* A step that appends an entry with checkpoint c.
LEMMA AppendStep ==
    ASSUME Typed, NEW p \in Procs, proc[p].phase \in Open,
           NEW ph \in Open, NEW m \in Good, NEW e \in Good, NEW c \in Good,
           NEW x \in GoodSegment \cup {None}, NEW inputs \in Seq(Inputs),
           NEW r, r = [proc[p] EXCEPT !.phase = ph, !.mem = m, !.extension = e, !.prefix = x],
           proc' = [proc EXCEPT ![p] = r],
           Appends(p, inputs, c),
           Queued(proc[p].mem) = owed => Queued(m) = owed',
           m.activating \in Subs <=> ph \in {"prepared", "started"},
           stale' \in BOOLEAN, ~stale' => c = m, owed' \subseteq Inputs,
           Counters',
           UNCHANGED <<pointer, alloc, lock, torn>>
    PROVE  WriterStep(p)
<1> DEFINE g == [history |-> Written(p).history \o inputs, checkpoint |-> c]
<1>1. g \in GoodSegment /\ g.checkpoint = c
  BY OpenFields, ConcatProperties DEF GoodSegment
<1>2. proc[p].loc \in 1..Len(log) /\ log \in Seq(GoodSegment)
  BY OpenFields DEF Typed, Shaped
<1>3. log' = [log EXCEPT ![proc[p].loc] = g]
  BY <1>2 DEF Appends, Written
<1> HIDE DEF g
<1> QED BY <1>1, <1>3, LogStep

\* A step that saves its new memory m.
LEMMA PersistStep ==
    ASSUME Typed, NEW p \in Procs, proc[p].phase \in Open,
           NEW ph \in Open, NEW m \in Good, NEW e \in Good,
           NEW x \in GoodSegment \cup {None},
           NEW r, r = [proc[p] EXCEPT !.phase = ph, !.mem = m, !.extension = e, !.prefix = x],
           proc' = [proc EXCEPT ![p] = r],
           Persists(p, m),
           Queued(proc[p].mem) = owed => Queued(m) = owed',
           m.activating \in Subs <=> ph \in {"prepared", "started"},
           owed' \subseteq Inputs,
           Counters',
           UNCHANGED <<pointer, alloc, lock, torn>>
    PROVE  WriterStep(p)
<1>1. <<>> \in Seq(Inputs)
  OBVIOUS
<1>2. Appends(p, <<>>, m) /\ stale' = FALSE
  BY DEF Persists
<1> QED BY <1>1, <1>2, AppendStep

LEMMA AcceptNowStep ==
    ASSUME Typed, NEW p \in Procs, NEW s \in Subs, AcceptNow(p, s)
    PROVE  WriterStep(p)
<1> DEFINE m == [Memory(p) EXCEPT !.activating = s, !.direct = @ \cup {s},
                               !.receipts = @ \cup {s}]
           r == [proc[p] EXCEPT !.phase = "prepared", !.mem = m,
                   !.extension = proc[p].extension, !.prefix = proc[p].prefix]
<1>1. proc[p].phase \in Open /\ "prepared" \in Open
  BY DEF AcceptNow, Open
<1>2. proc[p].mem.activating = None /\ s \notin proc[p].mem.receipts
  BY <1>1, OpenFields DEF AcceptNow, Memory
<1>3. m \in Good /\ Queued(m) = Queued(proc[p].mem) /\ m.activating \in Subs
  BY <1>2, Fields, NowGood DEF Memory
<1>4. proc' = [proc EXCEPT ![p] = r]
  BY Fields DEF AcceptNow, GoodRecord, Typed, Shaped
<1> HIDE DEF r, m
<1>5. Counters' /\ UNCHANGED <<log, pointer, alloc, lock, torn, owed, stale>>
  BY DEF AcceptNow, Typed, Shaped, tableVars, tornVars, Counters
<1> QED BY <1>1, <1>3, <1>4, <1>5, MemoryStep, Fields DEF r

LEMMA AcceptQueuedStep ==
    ASSUME Typed, NEW p \in Procs, NEW s \in Subs, AcceptQueued(p, s)
    PROVE  WriterStep(p)
<1> DEFINE o == proc[p].mem
           m == [o EXCEPT !.pending = Append(o.pending, s), !.receipts = o.receipts \cup {s}]
           r == [proc[p] EXCEPT !.phase = proc[p].phase, !.mem = m,
                   !.extension = proc[p].extension, !.prefix = proc[p].prefix]
<1>1. proc[p].phase \in Open /\ proc[p].phase \notin {"prepared", "started"}
  BY DEF AcceptQueued, Open, Turn
<1>2. proc[p].mem.activating = None /\ s \notin proc[p].mem.receipts
  BY <1>1, OpenFields DEF AcceptQueued, Memory
<1>3. m \in Good /\ Queued(m) = Queued(proc[p].mem) \cup {s} /\ m.activating = None
  <2>1. m = [o EXCEPT !.pending = Append(o.pending, s), !.receipts = o.receipts \cup {s}]
    OBVIOUS
  <2>2. o \in Good
    BY Fields
  <2> HIDE DEF m, o
  <2> QED BY <1>2, <2>1, <2>2, QueuedGood, ZenonT(60) DEF o
<1>4. proc' = [proc EXCEPT ![p] = r]
  BY Fields DEF AcceptQueued, GoodRecord, Typed, Shaped, Memory
<1>5. /\ Counters' /\ UNCHANGED <<pointer, alloc, lock, torn>>
      /\ owed' = owed \cup {s} /\ owed' \subseteq Inputs /\ Persists(p, m)
  BY DEF AcceptQueued, Typed, Shaped, tableVars, tornVars, Counters, Inputs, Memory
<1> HIDE DEF r, m
<1> QED BY <1>1, <1>3, <1>4, <1>5, PersistStep, Fields, NoneAssumption DEF r

LEMMA AcceptNotificationStep ==
    ASSUME Typed, NEW p \in Procs, NEW n \in Notes, AcceptNotification(p, n)
    PROVE  WriterStep(p)
<1> DEFINE o == proc[p].mem
           m == [o EXCEPT !.notifications = Append(o.notifications, n),
                          !.receipts = o.receipts \cup {n}]
           r == [proc[p] EXCEPT !.phase = proc[p].phase, !.mem = m,
                   !.extension = proc[p].extension, !.prefix = proc[p].prefix]
<1>1. proc[p].phase \in Open /\ n \notin proc[p].mem.receipts
  BY DEF AcceptNotification, Memory
<1>2. proc[p].mem.activating \in Subs <=> proc[p].phase \in {"prepared", "started"}
  BY <1>1, OpenFields
<1>3. /\ m \in Good /\ Queued(m) = Queued(proc[p].mem) \cup {n}
      /\ m.activating = proc[p].mem.activating
  <2>1. m = [o EXCEPT !.notifications = Append(o.notifications, n),
                      !.receipts = o.receipts \cup {n}]
    OBVIOUS
  <2>2. o \in Good
    BY Fields
  <2> HIDE DEF m, o
  <2> QED BY <1>1, <2>1, <2>2, NotedGood, ZenonT(60) DEF o
<1>4. proc' = [proc EXCEPT ![p] = r]
  BY Fields DEF AcceptNotification, GoodRecord, Typed, Shaped, Memory
<1>5. /\ Counters' /\ UNCHANGED <<pointer, alloc, lock, torn>>
      /\ owed' = owed \cup {n} /\ owed' \subseteq Inputs /\ Persists(p, m)
  BY DEF AcceptNotification, Typed, Shaped, tableVars, tornVars, Counters, Inputs, Memory
<1> HIDE DEF r, m
<1> QED BY <1>1, <1>2, <1>3, <1>4, <1>5, PersistStep, Fields DEF r

LEMMA WithdrawsStep ==
    ASSUME Typed, NEW p \in Procs, NEW m \in Good, Withdraws(p, m),
           m.activating = None,
           Queued(m) = Queued(proc[p].mem) \ (ToSet(proc[p].mem.pending) \ ToSet(m.pending))
    PROVE  WriterStep(p)
<1> DEFINE r == [proc[p] EXCEPT !.phase = proc[p].phase, !.mem = m,
                   !.extension = proc[p].extension, !.prefix = proc[p].prefix]
<1>1. proc[p].phase \in Open /\ proc[p].phase \notin {"prepared", "started"}
  BY DEF Withdraws
<1>2. proc' = [proc EXCEPT ![p] = r]
  BY Fields DEF Withdraws, GoodRecord, Typed, Shaped
<1>3. /\ Counters' /\ UNCHANGED <<pointer, alloc, lock, torn>>
      /\ owed' = owed \ (ToSet(proc[p].mem.pending) \ ToSet(m.pending))
      /\ owed' \subseteq Inputs /\ Persists(p, m)
  BY DEF Withdraws, Typed, Shaped, tableVars, tornVars, Counters, Inputs, Memory
<1> HIDE DEF r
<1> QED BY <1>1, <1>2, <1>3, PersistStep, Fields, NoneAssumption DEF r

LEMMA CancelStep ==
    ASSUME Typed, NEW p \in Procs, Cancel(p) \/ Clear(p)
    PROVE  WriterStep(p)
<1>1. proc[p].phase \in Open /\ proc[p].phase \notin {"prepared", "started"}
  BY DEF Cancel, Clear, Withdraws
<1>2. proc[p].mem \in Good /\ proc[p].mem.activating = None
  BY <1>1, OpenFields, Fields
<1>3. CASE Cancel(p)
  <2>1. PICK k \in DOMAIN proc[p].mem.pending :
            Withdraws(p, [proc[p].mem EXCEPT !.pending = RemoveAt(@, k),
                                 !.direct = @ \ {proc[p].mem.pending[k]}])
    BY <1>3 DEF Cancel, Memory
  <2> DEFINE m == [proc[p].mem EXCEPT !.pending = RemoveAt(proc[p].mem.pending, k),
                        !.direct = proc[p].mem.direct \ {proc[p].mem.pending[k]}]
  <2>2. k \in 1..Len(proc[p].mem.pending)
    BY <1>2, <2>1, GoodFields
  <2>3. Withdraws(p, m)
    BY <2>1
  <2>4. /\ m \in Good /\ m.activating = None
        /\ Queued(m) = Queued(proc[p].mem) \ (ToSet(proc[p].mem.pending) \ ToSet(m.pending))
    BY <1>2, <2>2, CancelledGood, ZenonT(60)
  <2> HIDE DEF m
  <2> QED BY <2>3, <2>4, WithdrawsStep
<1>4. CASE Clear(p)
  <2> DEFINE m == [proc[p].mem EXCEPT !.pending = <<>>,
                        !.direct = proc[p].mem.direct \ ToSet(proc[p].mem.pending)]
  <2>1. Withdraws(p, m)
    BY <1>4 DEF Clear, Memory
  <2>2. /\ m \in Good /\ m.activating = None
        /\ Queued(m) = Queued(proc[p].mem) \ (ToSet(proc[p].mem.pending) \ ToSet(m.pending))
    BY <1>2, EmptiedGood
  <2> HIDE DEF m
  <2> QED BY <2>1, <2>2, WithdrawsStep
<1> QED BY <1>3, <1>4

LEMMA ContinuePendingStep ==
    ASSUME Typed, NEW p \in Procs, ContinuePending(p)
    PROVE  WriterStep(p)
<1> DEFINE m == PreparedNext(proc[p].mem)
           r == [proc[p] EXCEPT !.phase = "prepared", !.mem = m,
                   !.extension = proc[p].extension, !.prefix = proc[p].prefix]
<1>1. proc[p].phase \in Open /\ proc[p].phase = "idle" /\ "prepared" \in Open
  BY DEF ContinuePending, Open
<1>2. m \in Good /\ Queued(m) = Queued(proc[p].mem) /\ m.activating \in Subs
  BY <1>1, OpenFields, Fields, PreparedGood DEF ContinuePending, Memory
<1>3. proc' = [proc EXCEPT ![p] = r]
  BY Fields DEF ContinuePending, GoodRecord, Typed, Shaped
<1> HIDE DEF r, m
<1>4. Counters' /\ UNCHANGED <<log, pointer, alloc, lock, torn, owed, stale>>
  BY DEF ContinuePending, Typed, Shaped, tableVars, tornVars, Counters
<1> QED BY <1>1, <1>2, <1>3, <1>4, MemoryStep, Fields DEF r

LEMMA StartRunStep ==
    ASSUME Typed, NEW p \in Procs, StartRun(p)
    PROVE  WriterStep(p)
<1> DEFINE e == ClearedActivation(proc[p].mem)
           r == [proc[p] EXCEPT !.phase = "started", !.mem = proc[p].mem,
                   !.extension = e, !.prefix = proc[p].prefix]
<1>1. proc[p].phase \in Open /\ proc[p].phase = "prepared" /\ "started" \in Open
  BY DEF StartRun, Open
<1>2. e \in Good /\ proc[p].mem \in Good /\ proc[p].mem.activating \in Subs
  BY <1>1, OpenFields, Fields, ClearedGood
<1>3. proc' = [proc EXCEPT ![p] = r]
  BY Fields DEF StartRun, GoodRecord, Typed, Shaped, Memory
<1> HIDE DEF r, e
<1>4. Counters' /\ UNCHANGED <<log, pointer, alloc, lock, torn, owed, stale>>
  BY DEF StartRun, Typed, Shaped, tableVars, tornVars, Counters
<1> QED BY <1>1, <1>2, <1>3, <1>4, MemoryStep, Fields DEF r

LEMMA AbortActivationStep ==
    ASSUME Typed, NEW p \in Procs, AbortActivation(p)
    PROVE  WriterStep(p)
<1> DEFINE o == proc[p].mem
           m == IF o.activating \in o.direct
                THEN [ClearedActivation(o) EXCEPT !.receipts = @ \ {o.activating}]
                ELSE [ClearedActivation(o) EXCEPT !.pending = <<o.activating>> \o @]
           r == [proc[p] EXCEPT !.phase = "idle", !.mem = m,
                   !.extension = NoPending, !.prefix = proc[p].prefix]
<1>1. proc[p].phase \in Open /\ proc[p].phase = "started" /\ "idle" \in Open
  BY DEF AbortActivation, Open
<1>2. m \in Good /\ Queued(m) = Queued(o) /\ m.activating = None
  <2>1. o \in Good /\ o.activating \in Subs
    BY <1>1, OpenFields, Fields
  <2>2. m = IF o.activating \in o.direct
            THEN [ClearedActivation(o) EXCEPT !.receipts = @ \ {o.activating}]
            ELSE [ClearedActivation(o) EXCEPT !.pending = <<o.activating>> \o @]
    OBVIOUS
  <2> HIDE DEF m, o
  <2> QED BY <2>1, <2>2, AbortedGood
<1>3. proc' = [proc EXCEPT ![p] = r]
  BY Fields DEF AbortActivation, GoodRecord, Typed, Shaped, Memory
<1>4. /\ Counters' /\ UNCHANGED <<pointer, alloc, lock, torn, owed>>
      /\ Persists(p, m) \/ UNCHANGED <<log, stale>>
      /\ owed' \subseteq Inputs
  BY DEF AbortActivation, Typed, Shaped, tableVars, tornVars, Counters, Memory
<1> HIDE DEF r, m
<1>5. CASE Persists(p, m)
  BY <1>1, <1>2, <1>3, <1>4, <1>5, PersistStep, Fields, NoPendingGood, NoneAssumption DEF r
<1>6. CASE UNCHANGED <<log, stale>>
  BY <1>1, <1>2, <1>3, <1>4, <1>6, MemoryStep, Fields, NoPendingGood, NoneAssumption DEF r
<1> QED BY <1>4, <1>5, <1>6

LEMMA CommitInputStep ==
    ASSUME Typed, NEW p \in Procs, CommitInput(p)
    PROVE  WriterStep(p)
<1> DEFINE o == proc[p].mem
           s == o.activating
           m == ClearedActivation(o)
           ph == IF InvOf[s] = None THEN "running" ELSE "invoking"
           x == IF InvOf[s] = None THEN Written(p) ELSE None
           r == [proc[p] EXCEPT !.phase = ph, !.mem = m,
                   !.extension = NoPending, !.prefix = x]
<1>1. proc[p].phase \in Open /\ proc[p].phase = "started"
  BY DEF CommitInput, Open
<1>2. /\ m \in Good /\ Queued(m) = Queued(o) \ {s} /\ m.activating = None
      /\ s \in Subs /\ proc[p].extension \in Good
  BY <1>1, OpenFields, Fields, ClearedGood
<1>3. ph \in Open \ {"prepared", "started"} /\ x \in GoodSegment \cup {None}
  BY <1>1, OpenFields DEF Open, Turn
<1>4. proc' = [proc EXCEPT ![p] = r]
  BY Fields DEF CommitInput, GoodRecord, Typed, Shaped, Memory
<1>5. /\ Counters' /\ UNCHANGED <<pointer, alloc, lock, torn>>
      /\ Appends(p, <<s>>, proc[p].extension) /\ owed' = owed \ {s}
      /\ stale' = (proc[p].extension # m) /\ owed' \subseteq Inputs
  BY DEF CommitInput, Typed, Shaped, tableVars, tornVars, Counters, Memory
<1>6. <<s>> \in Seq(Inputs)
  BY <1>2 DEF Inputs
<1> HIDE DEF r, m, x, ph, s
<1>7. stale' \in BOOLEAN /\ (~stale' => proc[p].extension = m)
  BY <1>5
<1> QED BY <1>1, <1>2, <1>3, <1>4, <1>5, <1>6, <1>7, AppendStep, NoPendingGood, NoneAssumption DEF r

LEMMA StartInvocationStep ==
    ASSUME Typed, NEW p \in Procs, StartInvocation(p)
    PROVE  WriterStep(p)
<1> DEFINE o == proc[p].mem
           i == Invocation(p)
           m == [o EXCEPT !.invocations[i] = "started"]
           r == [proc[p] EXCEPT !.phase = "effect", !.mem = m,
                   !.extension = proc[p].extension, !.prefix = proc[p].prefix]
<1>1. proc[p].phase \in Open /\ proc[p].phase = "invoking" /\ "effect" \in Open
  BY DEF StartInvocation, Open, Turn
<1>2. m \in Good /\ Queued(m) = Queued(o) /\ m.activating = None
  <2>1. o \in Good /\ o.activating = None
    BY <1>1, OpenFields, Fields
  <2> DEFINE f == [o.invocations EXCEPT ![i] = "started"]
  <2>2. m = [o EXCEPT !.invocations = f]
    OBVIOUS
  <2> HIDE DEF m, o, i
  <2>3. f \in [Invs -> {"none", "started", "succeeded", "failed"}]
    BY <2>1, GoodFields
  <2> HIDE DEF f
  <2> QED BY <2>1, <2>2, <2>3, InvokedGood
<1>3. proc' = [proc EXCEPT ![p] = r]
  <2> HIDE DEF i
  <2> QED BY Fields DEF StartInvocation, GoodRecord, Typed, Shaped, Memory, i
<1>4. /\ Counters' /\ UNCHANGED <<pointer, alloc, lock, torn, owed>>
      /\ Persists(p, m) /\ owed' \subseteq Inputs
  BY DEF StartInvocation, Typed, Shaped, tableVars, tornVars, Counters, Memory
<1> HIDE DEF r, m
<1> QED BY <1>1, <1>2, <1>3, <1>4, PersistStep, Fields, NoneAssumption DEF r

LEMMA PerformInvocationStep ==
    ASSUME Typed, NEW p \in Procs, PerformInvocation(p)
    PROVE  WriterStep(p)
<1> DEFINE r == [proc[p] EXCEPT !.phase = "recording", !.mem = proc[p].mem,
                   !.extension = proc[p].extension, !.prefix = proc[p].prefix]
<1>1. proc[p].phase \in Open /\ proc[p].phase = "effect" /\ "recording" \in Open
  BY DEF PerformInvocation, Open, Turn
<1>2. ~(proc[p].mem.activating \in Subs)
  BY <1>1, OpenFields
<1>3. proc' = [proc EXCEPT ![p] = r]
  BY Fields DEF PerformInvocation, GoodRecord, Typed, Shaped
<1>4. Counters'
  <2> DEFINE i == Invocation(p)
  <2>1. /\ effects' = [effects EXCEPT ![i] = effects[i] + 1] /\ effects \in [Invs -> Nat]
        /\ astray' = IF torn THEN [astray EXCEPT ![i] = TRUE] ELSE astray
        /\ astray \in [Invs -> BOOLEAN]
    BY DEF PerformInvocation, Typed, Shaped, Counters
  <2> HIDE DEF i
  <2>2. effects' \in [Invs -> Nat]
    <3>1. CASE i \in Invs
      BY <2>1, <3>1
    <3>2. CASE i \notin Invs
      BY <2>1, <3>2
    <3> QED BY <3>1, <3>2
  <2>3. astray' \in [Invs -> BOOLEAN]
    BY <2>1
  <2> QED BY <2>2, <2>3 DEF Counters
<1> HIDE DEF r
<1>5. UNCHANGED <<log, pointer, alloc, lock, torn, owed, stale>>
  BY DEF PerformInvocation, tableVars
<1> QED BY <1>1, <1>2, <1>3, <1>4, <1>5, MemoryStep, Fields DEF r

LEMMA RecordInvocationStep ==
    ASSUME Typed, NEW p \in Procs, RecordInvocation(p)
    PROVE  WriterStep(p)
<1> DEFINE o == proc[p].mem
           i == Invocation(p)
           n(v) == [o EXCEPT !.invocations[i] =
                        IF o.invocations[i] \in {"none", "started"} THEN v
                        ELSE o.invocations[i]]
           ph(v) == IF v = "succeeded" THEN "running" ELSE "idle"
<1>1. /\ Results(p) \subseteq {"succeeded", "failed"}
      /\ Results(p) # {} => proc[p].phase \in {"recording", "invoking"}
  BY DEF Results
<1>2. PICK v \in Results(p) :
          \/ /\ Persists(p, n(v))
             /\ proc' = [proc EXCEPT ![p].phase = ph(v), ![p].mem = n(v)]
             /\ UNCHANGED <<pointer, tableVars, effects, owed, tornVars>>
          \/ /\ proc' = [proc EXCEPT ![p].phase = "idle"]
             /\ UNCHANGED <<log, pointer, tableVars, effects, owed, stale, tornVars>>
  <2> HIDE DEF i
  <2> QED BY DEF RecordInvocation, Memory, i
<1>3. proc[p].phase \in Open /\ proc[p].phase \in {"recording", "invoking"}
  BY <1>1, <1>2 DEF Open, Turn
<1>4. o \in Good /\ o.activating = None
  BY <1>3, OpenFields, Fields
<1>5. n(v) \in Good /\ Queued(n(v)) = Queued(o) /\ n(v).activating = None
  <2> DEFINE u == IF o.invocations[i] \in {"none", "started"} THEN v ELSE o.invocations[i]
             f == [o.invocations EXCEPT ![i] = u]
             m == n(v)
  <2>1. m = [o EXCEPT !.invocations = f]
    OBVIOUS
  <2>2. o.invocations \in [Invs -> {"none", "started", "succeeded", "failed"}]
    BY <1>4, GoodFields
  <2>3. f \in [Invs -> {"none", "started", "succeeded", "failed"}]
    <3> HIDE DEF o, i, m
    <3>1. i \in Invs => u \in {"none", "started", "succeeded", "failed"}
      BY <1>1, <1>2, <2>2
    <3> HIDE DEF u
    <3> QED BY <2>2, <3>1
  <2> HIDE DEF m, f, o
  <2> QED BY <1>4, <2>1, <2>3, InvokedGood DEF m
<1>6. owed \subseteq Inputs
  BY DEF Typed, Shaped
<1> HIDE DEF n
<1>7. CASE /\ Persists(p, n(v))
           /\ proc' = [proc EXCEPT ![p].phase = ph(v), ![p].mem = n(v)]
           /\ UNCHANGED <<pointer, tableVars, effects, owed, tornVars>>
  <2> DEFINE m == n(v)
             end == ph(v)
             r == [proc[p] EXCEPT !.phase = end, !.mem = m,
                   !.extension = proc[p].extension, !.prefix = proc[p].prefix]
  <2>1. /\ m \in Good /\ Queued(m) = Queued(proc[p].mem) /\ m.activating = None
        /\ Persists(p, m)
    BY <1>5, <1>7
  <2>2. /\ Counters' /\ UNCHANGED <<pointer, alloc, lock, torn, owed>>
        /\ owed' \subseteq Inputs
    BY <1>6, <1>7 DEF Typed, Shaped, tableVars, tornVars, Counters
  <2>3. end \in Open \ {"prepared", "started"}
    BY DEF Open, Turn
  <2>4. proc' = [proc EXCEPT ![p].phase = end, ![p].mem = m]
    BY <1>7
  <2> HIDE DEF end, m
  <2>5. proc' = [proc EXCEPT ![p] = r]
    BY <2>4, Fields DEF GoodRecord, Typed, Shaped
  <2> HIDE DEF r
  <2> QED BY <1>3, <2>1, <2>2, <2>3, <2>5, PersistStep, Fields, NoneAssumption DEF r
<1>8. CASE /\ proc' = [proc EXCEPT ![p].phase = "idle"]
           /\ UNCHANGED <<log, pointer, tableVars, effects, owed, stale, tornVars>>
  <2> DEFINE r == [proc[p] EXCEPT !.phase = "idle", !.mem = o,
                   !.extension = proc[p].extension, !.prefix = proc[p].prefix]
  <2>1. proc' = [proc EXCEPT ![p] = r]
    BY <1>8, Fields DEF GoodRecord, Typed, Shaped
  <2>2. Counters' /\ UNCHANGED <<log, pointer, alloc, lock, torn, owed, stale>>
    BY <1>8 DEF Typed, Shaped, tableVars, tornVars, Counters
  <2>3. "idle" \in Open
    BY DEF Open
  <2> HIDE DEF r
  <2> QED BY <1>3, <1>4, <2>1, <2>2, <2>3, MemoryStep, Fields, NoneAssumption DEF r
<1> QED BY <1>2, <1>7, <1>8

LEMMA CommitNotificationStep ==
    ASSUME Typed, NEW p \in Procs, CommitNotification(p)
    PROVE  WriterStep(p)
<1> DEFINE o == proc[p].mem
           n == Head(o.notifications)
           m == [o EXCEPT !.notifications = Tail(o.notifications)]
           r == [proc[p] EXCEPT !.phase = proc[p].phase, !.mem = m,
                   !.extension = proc[p].extension, !.prefix = proc[p].prefix]
<1>1. proc[p].phase \in Open /\ proc[p].phase = "running" /\ o.notifications # <<>>
  BY DEF CommitNotification, Open, Turn, Memory
<1>2. m \in Good /\ Queued(m) = Queued(o) \ {n} /\ m.activating = None /\ n \in Notes
  <2>1. o \in Good /\ o.activating = None
    BY <1>1, OpenFields, Fields
  <2>2. m = [o EXCEPT !.notifications = Tail(o.notifications)]
    OBVIOUS
  <2> HIDE DEF m, o
  <2> QED BY <1>1, <2>1, <2>2, DeliveredGood DEF n
<1>3. proc' = [proc EXCEPT ![p] = r]
  BY Fields DEF CommitNotification, GoodRecord, Typed, Shaped, Memory
<1>4. /\ Counters' /\ UNCHANGED <<pointer, alloc, lock, torn>>
      /\ Appends(p, <<n>>, m) /\ owed' = owed \ {n} /\ stale' = FALSE
      /\ owed' \subseteq Inputs
  BY DEF CommitNotification, Typed, Shaped, tableVars, tornVars, Counters, Memory
<1>5. <<n>> \in Seq(Inputs)
  BY <1>2 DEF Inputs
<1> HIDE DEF r, m, n
<1> QED BY <1>1, <1>2, <1>3, <1>4, <1>5, AppendStep, Fields, NoneAssumption DEF r

\* A step that changes no more than the phase and the rollback prefix.
Phased(p, ph, x) ==
    /\ proc' = [proc EXCEPT ![p].phase = ph, ![p].prefix = x]
    /\ UNCHANGED <<log, pointer, tableVars, effects, owed, stale, tornVars>>

LEMMA PhaseStep ==
    ASSUME Typed, NEW p \in Procs, proc[p].phase \in Open,
           NEW ph \in Open, NEW x \in GoodSegment \cup {None},
           Phased(p, ph, x),
           ph \in {"prepared", "started"} <=> proc[p].phase \in {"prepared", "started"}
    PROVE  WriterStep(p)
<1> DEFINE m == proc[p].mem
           e == proc[p].extension
           r == [proc[p] EXCEPT !.phase = ph, !.mem = m, !.extension = e, !.prefix = x]
<1>1. proc' = [proc EXCEPT ![p] = r]
  BY Fields DEF GoodRecord, Typed, Shaped, Phased
<1>2. Counters' /\ UNCHANGED <<log, pointer, alloc, lock, torn, owed, stale>>
  BY DEF Typed, Shaped, tableVars, tornVars, Counters, Phased
<1>3. m.activating \in Subs <=> ph \in {"prepared", "started"}
  BY OpenFields
<1>4. m \in Good /\ e \in Good /\ Queued(m) = Queued(proc[p].mem)
  BY Fields
<1>5. r = [proc[p] EXCEPT !.phase = ph, !.mem = m, !.extension = e, !.prefix = x]
  OBVIOUS
<1> HIDE DEF r, m, e
<1> QED BY <1>1, <1>2, <1>3, <1>4, <1>5, MemoryStep

LEMMA StatusStep ==
    ASSUME Typed, NEW p \in Procs, Activity(p) \/ Resume(p) \/ ChangeStatus(p)
    PROVE  WriterStep(p)
<1> DEFINE x == proc[p].prefix
<1>1. x \in GoodSegment \cup {None}
  BY Fields
<1>2. CASE Activity(p)
  <2>1. proc' = [proc EXCEPT ![p].phase = "running", ![p].prefix = None]
    BY <1>2, Fields DEF Activity, GoodRecord, Typed, Shaped
  <2>2. /\ proc[p].phase = "running" /\ "running" \in Open
        /\ UNCHANGED <<log, pointer, tableVars, effects, owed, stale, tornVars>>
    BY <1>2 DEF Activity, Open, Turn
  <2> QED BY <2>1, <2>2, PhaseStep DEF Phased
<1>3. CASE Resume(p)
  <2>1. proc' = [proc EXCEPT ![p].phase = "running", ![p].prefix = x]
    BY <1>3, Fields DEF Resume, GoodRecord, Typed, Shaped
  <2>2. /\ proc[p].phase \in Open \ {"prepared", "started"} /\ "running" \in Open
        /\ UNCHANGED <<log, pointer, tableVars, effects, owed, stale, tornVars>>
    BY <1>3 DEF Resume, Open, Turn
  <2> HIDE DEF x
  <2> QED BY <1>1, <2>1, <2>2, PhaseStep DEF Phased
<1>4. CASE ChangeStatus(p)
  <2>1. PICK change \in {<<"paused", "idle">>, <<"idle", "compacting">>,
                         <<"compacting", "idle">>} :
            /\ proc[p].phase = change[1]
            /\ proc' = [proc EXCEPT ![p].phase = change[2]]
    BY <1>4 DEF ChangeStatus
  <2> DEFINE ph == change[2]
  <2>2. /\ proc[p].phase \in Open \ {"prepared", "started"}
        /\ ph \in Open \ {"prepared", "started"}
    BY <2>1 DEF Open
  <2>3. proc' = [proc EXCEPT ![p].phase = ph]
    BY <2>1
  <2>4. UNCHANGED <<log, pointer, tableVars, effects, owed, stale, tornVars>>
    BY <1>4 DEF ChangeStatus
  <2> HIDE DEF ph
  <2>5. proc' = [proc EXCEPT ![p].phase = ph, ![p].prefix = x]
    BY <2>3, Fields DEF GoodRecord, Typed, Shaped
  <2> HIDE DEF x
  <2> QED BY <1>1, <2>2, <2>4, <2>5, PhaseStep DEF Phased
<1> QED BY <1>2, <1>3, <1>4

LEMMA EndTurnStep ==
    ASSUME Typed, NEW p \in Procs, EndTurn(p)
    PROVE  WriterStep(p)
<1>1. /\ proc[p].phase \in Open /\ proc[p].phase = "running"
      /\ {"idle", "paused", "prepared"} \subseteq Open
      /\ UNCHANGED <<log, pointer, tableVars, effects, owed, stale, tornVars>>
  BY DEF EndTurn, Open, Turn
<1>2. CASE /\ Memory(p).pending # <<>>
           /\ proc' = [proc EXCEPT ![p].phase = "prepared", ![p].prefix = None,
                                   ![p].mem = PreparedNext(@)]
  <2> DEFINE m == PreparedNext(proc[p].mem)
             r == [proc[p] EXCEPT !.phase = "prepared", !.mem = m,
                     !.extension = proc[p].extension, !.prefix = None]
  <2>1. m \in Good /\ Queued(m) = Queued(proc[p].mem) /\ m.activating \in Subs
    BY <1>1, <1>2, OpenFields, Fields, PreparedGood DEF Memory
  <2>2. proc' = [proc EXCEPT ![p] = r]
    BY <1>2, Fields DEF GoodRecord, Typed, Shaped
  <2>3. Counters' /\ UNCHANGED <<log, pointer, alloc, lock, torn, owed, stale>>
    BY <1>1 DEF Typed, Shaped, tableVars, tornVars, Counters
  <2> HIDE DEF r, m
  <2> QED BY <1>1, <2>1, <2>2, <2>3, MemoryStep, Fields DEF r
<1>3. CASE proc' = [proc EXCEPT ![p].phase = "idle", ![p].prefix = None]
  BY <1>1, <1>3, PhaseStep DEF Phased
<1>4. CASE proc' = [proc EXCEPT ![p].phase = "paused", ![p].prefix = None]
  BY <1>1, <1>4, PhaseStep DEF Phased
<1> QED BY <1>2, <1>3, <1>4 DEF EndTurn

LEMMA RollBackStep ==
    ASSUME Typed, NEW p \in Procs, RollBack(p)
    PROVE  WriterStep(p)
<1> DEFINE g == proc[p].prefix
           r == [proc[p] EXCEPT !.phase = "idle", !.mem = proc[p].mem,
                   !.extension = proc[p].extension, !.prefix = None]
<1>1. /\ proc[p].phase \in Open /\ proc[p].phase = "running" /\ "idle" \in Open
      /\ g \in GoodSegment
  BY Fields DEF RollBack, Open, Turn
<1>2. proc[p].mem \in Good /\ ~(proc[p].mem.activating \in Subs)
  BY <1>1, OpenFields, Fields
<1>3. proc' = [proc EXCEPT ![p] = r]
  BY Fields DEF RollBack, GoodRecord, Typed, Shaped
<1>4. /\ Counters' /\ UNCHANGED <<pointer, alloc, lock, torn, owed>>
      /\ owed' \subseteq Inputs /\ log' = [log EXCEPT ![proc[p].loc] = g]
      /\ stale' = (g.checkpoint # proc[p].mem)
  BY DEF RollBack, Typed, Shaped, tableVars, tornVars, Counters, Memory
<1> HIDE DEF r, g
<1>5. stale' \in BOOLEAN /\ (~stale' => g.checkpoint = proc[p].mem)
  BY <1>4
<1> QED BY <1>1, <1>2, <1>3, <1>4, <1>5, LogStep, Fields DEF r

LEMMA RewindStep ==
    ASSUME Typed, NEW p \in Procs, Rewind(p)
    PROVE  WriterStep(p)
<1>1. /\ proc[p].phase \in Open /\ proc[p].phase = "idle"
      /\ proc[p].loc \in 1..Len(log) /\ Written(p).history \in Seq(Inputs)
  BY OpenFields DEF Rewind, Open
<1>2. PICK k \in DOMAIN Written(p).history :
          log' = [log EXCEPT ![proc[p].loc] =
                     [history |-> SubSeq(@.history, 1, k - 1), checkpoint |-> Memory(p)]]
  BY DEF Rewind
<1> DEFINE g == [history |-> SubSeq(Written(p).history, 1, k - 1),
                 checkpoint |-> proc[p].mem]
           r == [proc[p] EXCEPT !.phase = proc[p].phase, !.mem = proc[p].mem,
                   !.extension = proc[p].extension, !.prefix = proc[p].prefix]
<1>3. g \in GoodSegment /\ g.checkpoint = proc[p].mem
  <2>1. k \in 1..Len(Written(p).history)
    BY <1>1, <1>2
  <2>2. SubSeq(Written(p).history, 1, k - 1) \in Seq(Inputs)
    BY <1>1, <2>1, SubSeqProperties
  <2> QED BY <2>2, Fields DEF GoodSegment
<1>4. log' = [log EXCEPT ![proc[p].loc] = g]
  BY <1>1, <1>2 DEF Written, Memory, Typed, Shaped
<1>5. proc' = [proc EXCEPT ![p] = r]
  BY Fields DEF Rewind, GoodRecord, Typed, Shaped
<1>6. /\ Counters' /\ UNCHANGED <<pointer, alloc, lock, torn, owed>>
      /\ owed' \subseteq Inputs /\ stale' = FALSE
  BY DEF Rewind, Typed, Shaped, tableVars, tornVars, Counters
<1>7. proc[p].mem \in Good /\ ~(proc[p].mem.activating \in Subs)
  BY <1>1, OpenFields, Fields
<1> HIDE DEF r, g
<1> QED BY <1>1, <1>3, <1>4, <1>5, <1>6, <1>7, LogStep, Fields, ZenonT(60) DEF r

\* Every step of admission and of a turn keeps memory, log and debt in step.
LEMMA WriterSteps ==
    ASSUME Typed, NEW p \in Procs, Admission(p) \/ TurnStep(p)
    PROVE  WriterStep(p)
<1>1. CASE Admission(p)
  BY <1>1, AcceptNowStep, AcceptQueuedStep, AcceptNotificationStep, CancelStep DEF Admission
<1>2. CASE TurnStep(p)
  BY <1>2, ContinuePendingStep, StartRunStep, AbortActivationStep, CommitInputStep,
     StartInvocationStep, PerformInvocationStep, RecordInvocationStep,
     CommitNotificationStep, StatusStep, RollBackStep, EndTurnStep, RewindStep DEF TurnStep
<1> QED BY <1>1, <1>2

(***************************************************************************)
(* The invariant                                                           *)
(***************************************************************************)
\* The phases in which a process holds the allocation row.
Owning == Writing \cup {"closed", "installed", "validated"}

\* What a process may rely on in each phase.
Held(p) ==
    /\ proc[p].phase \in Owning => alloc.owner = p
    /\ proc[p].phase \in Writing =>
           /\ alloc.segment = proc[p].loc
           /\ ~torn => pointer = IF proc[p].phase = "swapped" THEN proc[p].next
                                 ELSE proc[p].loc
           /\ torn => pointer # proc[p].loc /\ proc[p].phase # "swapped"
           /\ Queued(proc[p].mem) = owed
    /\ proc[p].phase \in {"installed", "validated"} => alloc.segment = proc[p].loc
    /\ proc[p].phase = "validated" => pointer = proc[p].loc /\ log[pointer] = proc[p].source
    /\ proc[p].phase \in {"staged", "begun"} => log[proc[p].next].checkpoint = proc[p].mem

\* The active Segment accounts for what is owed, unless a live writer has
\* still to save its memory, or writes another Segment.
Accounted ==
    /\ torn \/ stale \/ Queued(log[pointer].checkpoint) = owed
    /\ torn \/ stale => \E p \in Procs : proc[p].phase \in Writing \ {"swapped"}

SessionInv == Typed /\ (\A p \in Procs : Held(p)) /\ Accounted

LEMMA TypedStep ==
    ASSUME Typed, NEW p \in Procs, NEW r \in GoodRecord,
           proc' = [proc EXCEPT ![p] = r],
           log' \in Seq(GoodSegment), Len(log') \in Segments, Len(log) <= Len(log'),
           pointer' \in 1..Len(log'),
           alloc' \in [owner: Procs \cup {None}, segment: Segments],
           lock' \in Procs \cup {None}, Counters', owed' \subseteq Inputs,
           stale' \in BOOLEAN, torn' \in BOOLEAN,
           r.phase \notin {"off", "dead"} => r.loc \in 1..Len(log'),
           r.phase \in Switching =>
               /\ r.next \in 1..Len(log') /\ r.next # r.loc
               /\ r.resume \in {"started", "running", "compacting"},
           r.phase \in Writing =>
               (r.mem.activating \in Subs <=>
                  (IF r.phase \in Switching THEN r.resume ELSE r.phase)
                      \in {"prepared", "started"})
    PROVE  Typed'
<1>1. /\ proc' \in [Procs -> GoodRecord] /\ proc'[p] = r
      /\ \A q \in Procs \ {p} : proc'[q] = proc[q]
  BY DEF Typed, Shaped
<1>2. Shaped'
  BY <1>1 DEF Shaped, Counters
<1>3. Len(log) \in Nat /\ Len(log') \in Nat
  BY BoundsAssumption DEF Typed, Shaped, Segments
<1>4. Placed'
  <2> SUFFICES ASSUME NEW q \in Procs
               PROVE  /\ proc'[q].phase \notin {"off", "dead"} => proc'[q].loc \in 1..Len(log')
                      /\ proc'[q].phase \in Switching =>
                             /\ proc'[q].next \in 1..Len(log') /\ proc'[q].next # proc'[q].loc
                             /\ proc'[q].resume \in {"started", "running", "compacting"}
                      /\ proc'[q].phase \in Writing =>
                             (proc'[q].mem.activating \in Subs <=>
                                (IF proc'[q].phase \in Switching THEN proc'[q].resume
                                 ELSE proc'[q].phase) \in {"prepared", "started"})
    BY DEF Placed, Caller
  <2>1. CASE q = p
    BY <1>1, <2>1
  <2>2. CASE q # p
    BY <1>1, <1>3, <2>2 DEF Typed, Placed, Caller
  <2> QED BY <2>1, <2>2
<1> QED BY <1>2, <1>4 DEF Typed

\* While p holds the row nobody else does.
LEMMA OnlyOwner ==
    ASSUME SessionInv, NEW p \in Procs, proc[p].phase \in Owning
    PROVE  \A q \in Procs \ {p} : proc[q].phase \notin Owning
BY DEF SessionInv, Held

\* A step of the process that holds the row.
LEMMA OwnerStep ==
    ASSUME SessionInv, NEW p \in Procs, proc[p].phase \in Owning, NEW r,
           proc' = [proc EXCEPT ![p] = r], Typed', Held(p)', Accounted'
    PROVE  SessionInv'
<1>1. \A q \in Procs \ {p} : proc'[q].phase \notin Owning
  BY OnlyOwner DEF SessionInv, Typed, Shaped
<1>2. \A q \in Procs \ {p} : Held(q)'
  BY <1>1 DEF Held, Owning, Writing, Switching
<1> QED BY <1>2 DEF SessionInv

\* A step of another process that leaves the Session alone.
LEMMA OutsideStep ==
    ASSUME SessionInv, NEW p \in Procs, proc[p].phase \notin Owning, NEW r,
           proc' = [proc EXCEPT ![p] = r], Typed', r.phase \notin Owning,
           UNCHANGED <<log, pointer, alloc, owed, stale, torn>>
    PROVE  SessionInv'
<1>1. proc'[p] = r /\ \A q \in Procs \ {p} : proc'[q] = proc[q]
  BY DEF SessionInv, Typed, Shaped
<1>2. \A q \in Procs \ {p} : Held(q)'
  BY <1>1 DEF SessionInv, Held
<1>3. Held(p)'
  BY <1>1 DEF Held, Owning, Writing, Switching
<1>4. Accounted'
  BY <1>1 DEF SessionInv, Accounted, Owning
<1> QED BY <1>2, <1>3, <1>4 DEF SessionInv

LEMMA WriterTyped ==
    ASSUME Typed, NEW p \in Procs, WriterStep(p)
    PROVE  Typed'
<1> DEFINE r == proc'[p]
           g == log'[proc[p].loc]
<1>1. /\ proc[p].phase \in Open /\ r.phase \in Writing
      /\ r.phase \notin Switching \cup {"off", "dead"}
  BY DEF WriterStep, Writing, Open, Turn, Switching
<1>2. /\ log \in Seq(GoodSegment) /\ pointer \in 1..Len(log) /\ Len(log) \in Segments
      /\ proc[p].loc \in 1..Len(log)
  BY <1>1, OpenFields DEF Typed, Shaped
<1>3. log' \in Seq(GoodSegment) /\ Len(log') = Len(log)
  <2>1. log' = [log EXCEPT ![proc[p].loc] = g] /\ g \in GoodSegment
    BY DEF WriterStep
  <2> HIDE DEF g
  <2> QED BY <1>2, <2>1, ExceptSeq
<1>4. /\ r \in GoodRecord /\ proc' = [proc EXCEPT ![p] = r] /\ r.loc = proc[p].loc
      /\ r.mem.activating \in Subs <=> r.phase \in {"prepared", "started"}
      /\ Counters' /\ owed' \subseteq Inputs /\ stale' \in BOOLEAN
      /\ pointer' = pointer /\ alloc' = alloc /\ lock' = lock /\ torn' = torn
  BY DEF WriterStep
<1>5. /\ torn \in BOOLEAN /\ alloc \in [owner: Procs \cup {None}, segment: Segments]
      /\ lock \in Procs \cup {None} /\ Len(log) <= Len(log')
  BY <1>2, <1>3, LenProperties DEF Typed, Shaped
<1> HIDE DEF r
<1> QED BY <1>1, <1>2, <1>3, <1>4, <1>5, TypedStep

LEMMA WriterInv ==
    ASSUME SessionInv, NEW p \in Procs, WriterStep(p)
    PROVE  SessionInv'
<1> DEFINE r == proc'[p]
           g == log'[proc[p].loc]
<1>1. /\ proc[p].phase \in Owning /\ r.phase \in Owning
      /\ r.phase \in Writing \ {"swapped"} /\ proc[p].phase \in Writing \ {"swapped"}
      /\ r.phase \notin Switching \cup {"off", "dead", "closed", "installed", "validated"}
  BY DEF WriterStep, Owning, Writing, Open, Turn, Switching
<1>2. /\ alloc.owner = p /\ alloc.segment = proc[p].loc /\ torn' = torn
      /\ Queued(proc[p].mem) = owed /\ (torn => pointer # proc[p].loc)
      /\ ~torn => pointer = proc[p].loc /\ (stale \/ Queued(Written(p).checkpoint) = owed)
  BY <1>1 DEF SessionInv, Held, Accounted, Written, WriterStep
<1>3. /\ log \in Seq(GoodSegment) /\ pointer \in 1..Len(log)
  BY DEF SessionInv, Typed, Shaped
<1>4. ~torn => log'[pointer] = g
  <2>1. log' = [log EXCEPT ![proc[p].loc] = g] /\ g \in GoodSegment
    BY DEF WriterStep
  <2> HIDE DEF g
  <2> QED BY <1>2, <1>3, <2>1, ExceptSeq
<1>5. Typed'
  BY WriterTyped DEF SessionInv
<1>6. Held(p)'
  <2>1. /\ r.loc = proc[p].loc /\ pointer' = pointer /\ alloc' = alloc
        /\ Queued(r.mem) = owed'
    BY <1>2 DEF WriterStep
  <2>2. r.phase \notin {"staged", "begun"}
    BY <1>1 DEF Switching
  <2> QED BY <1>1, <1>2, <2>1, <2>2 DEF Held
<1>7. Accounted'
  BY <1>1, <1>2, <1>4 DEF Accounted, WriterStep
<1>8. proc' = [proc EXCEPT ![p] = r]
  BY DEF WriterStep
<1> HIDE DEF r
<1> QED BY <1>1, <1>5, <1>6, <1>7, <1>8, OwnerStep

(***************************************************************************)
(* The Segment switch                                                      *)
(***************************************************************************)
LEMMA StageTyped ==
    ASSUME Typed, NEW p \in Procs, StageSegment(p)
    PROVE  /\ Typed'
           /\ proc[p].loc \in 1..Len(log) /\ Len(log) \in Nat
           /\ \A k \in 1..Len(log) : log'[k] = log[k]
           /\ log'[Len(log) + 1].checkpoint = proc[p].mem
           /\ proc' = [proc EXCEPT ![p] = proc'[p]]
           /\ proc'[p].phase = "staged" /\ proc'[p].next = Len(log) + 1
           /\ proc'[p].loc = proc[p].loc /\ proc'[p].mem = proc[p].mem
<1> DEFINE g == [Written(p) EXCEPT !.checkpoint = proc[p].mem]
           r == [proc[p] EXCEPT !.phase = "staged", !.resume = proc[p].phase,
                                !.next = Len(log) + 1, !.prefix = None]
<1>1. proc[p].phase \in Open /\ proc[p].phase \in {"started", "running", "compacting"}
  BY DEF StageSegment, Open, Turn
<1>2. /\ log \in Seq(GoodSegment) /\ pointer \in 1..Len(log) /\ Len(log) \in Nat
      /\ proc[p].loc \in 1..Len(log) /\ Len(log) < MaxSegments
      /\ proc[p].mem.activating \in Subs <=> proc[p].phase \in {"prepared", "started"}
  BY <1>1, OpenFields, LenProperties DEF Typed, Shaped, StageSegment
<1>3. g \in GoodSegment /\ g.checkpoint = proc[p].mem
  BY <1>1, OpenFields, Fields DEF GoodSegment
<1>4. log' = Append(log, g)
  BY DEF StageSegment, Memory
<1> HIDE DEF g
<1>5. /\ log' \in Seq(GoodSegment) /\ Len(log') = Len(log) + 1
      /\ log'[Len(log) + 1] = g /\ \A k \in 1..Len(log) : log'[k] = log[k]
  BY <1>2, <1>3, <1>4, AppendProperties
<1>6. Len(log) + 1 \in Segments /\ "staged" \in Phases
  BY <1>2, BoundsAssumption DEF Segments, Phases, Writing, Switching
<1>7. /\ r \in GoodRecord /\ r.phase = "staged" /\ r.next = Len(log) + 1
      /\ r.loc = proc[p].loc /\ r.mem = proc[p].mem /\ r.resume = proc[p].phase
  BY <1>6, Fields DEF GoodRecord
<1>8. proc' = [proc EXCEPT ![p] = r]
  BY Fields DEF StageSegment, GoodRecord, Typed, Shaped
<1> HIDE DEF r
<1>9. /\ pointer' = pointer /\ alloc' = alloc /\ lock' = lock /\ Counters'
      /\ owed' = owed /\ stale' = stale /\ torn' = torn
      /\ alloc \in [owner: Procs \cup {None}, segment: Segments]
      /\ lock \in Procs \cup {None} /\ torn \in BOOLEAN
      /\ owed \subseteq Inputs /\ stale \in BOOLEAN
  BY DEF StageSegment, tableVars, tornVars, Counters, Typed, Shaped
<1>10. /\ Len(log') \in Segments /\ Len(log) <= Len(log') /\ pointer \in 1..Len(log')
       /\ r.loc \in 1..Len(log') /\ r.next \in 1..Len(log') /\ r.next # r.loc
  BY <1>2, <1>5, <1>6, <1>7
<1>11. "staged" \in Switching
  BY DEF Switching
<1>12. Typed'
  BY <1>1, <1>2, <1>5, <1>7, <1>8, <1>9, <1>10, <1>11, TypedStep
<1>13. proc'[p] = r
  BY <1>8 DEF Typed, Shaped
<1> QED BY <1>2, <1>3, <1>5, <1>7, <1>8, <1>12, <1>13

LEMMA StageInv ==
    ASSUME SessionInv, NEW p \in Procs, StageSegment(p)
    PROVE  SessionInv'
<1> DEFINE r == proc'[p]
<1>1. Typed /\ Typed'
  BY StageTyped DEF SessionInv
<1>2. /\ proc[p].phase \in Writing \ {"swapped"} /\ proc[p].phase \in Owning
      /\ pointer' = pointer /\ alloc' = alloc /\ owed' = owed /\ stale' = stale
      /\ torn' = torn
  BY DEF StageSegment, tableVars, tornVars, Owning, Writing, Open, Turn
<1>3. /\ alloc.owner = p /\ alloc.segment = proc[p].loc
      /\ torn => pointer # proc[p].loc
      /\ ~torn => pointer = proc[p].loc
      /\ Queued(proc[p].mem) = owed /\ pointer \in 1..Len(log)
      /\ torn \/ stale \/ Queued(log[pointer].checkpoint) = owed
  BY <1>2 DEF SessionInv, Held, Accounted, Typed, Shaped
<1>4. /\ proc' = [proc EXCEPT ![p] = r] /\ r.phase = "staged" /\ r.loc = proc[p].loc
      /\ r.mem = proc[p].mem /\ log'[r.next].checkpoint = r.mem
      /\ log'[pointer] = log[pointer]
  BY <1>1, <1>3, StageTyped
<1>5. Held(p)'
  BY <1>2, <1>3, <1>4 DEF Held
<1>6. Accounted'
  BY <1>2, <1>3, <1>4 DEF Accounted, Writing, Switching
<1> HIDE DEF r
<1> QED BY <1>1, <1>2, <1>4, <1>5, <1>6, OwnerStep

\* A step of a switch writes no entry: it moves the process, and perhaps the
\* metadata, the row or the lock.
SwitchMove(p, r) ==
    /\ proc' = [proc EXCEPT ![p] = r]
    /\ r \in GoodRecord /\ r.mem = proc[p].mem
    /\ UNCHANGED <<log, effects, owed, astray>>
    /\ stale' \in {stale, FALSE} /\ torn' \in {torn, TRUE}

LEMMA SwitchingFields ==
    ASSUME Typed, NEW p \in Procs, proc[p].phase \in Switching
    PROVE  /\ proc[p].loc \in 1..Len(log) /\ proc[p].next \in 1..Len(log)
           /\ proc[p].next # proc[p].loc /\ proc[p].next \in Segments
           /\ proc[p].resume \in {"started", "running", "compacting"}
           /\ proc[p].mem.activating \in Subs <=> proc[p].resume = "started"
           /\ log \in Seq(GoodSegment) /\ 1 \in 1..Len(log) /\ Len(log) \in Segments
           /\ Len(log) \in Nat
<1>1. /\ log \in Seq(GoodSegment) /\ Len(log) \in Segments /\ Len(log) \in Nat
      /\ 1 \in 1..Len(log)
  BY LenProperties, BoundsAssumption DEF Typed, Shaped, Segments
<1>2. proc[p].phase \notin {"off", "dead"} /\ proc[p].phase \in Writing
  BY DEF Switching, Writing
<1> QED BY <1>1, <1>2, Fields DEF Typed, Placed, Caller

LEMMA SwitchTyped ==
    ASSUME Typed, NEW p \in Procs, NEW r, SwitchMove(p, r), proc[p].phase \in Switching,
           pointer' \in 1..Len(log),
           alloc' \in [owner: Procs \cup {None}, segment: Segments],
           lock' \in Procs \cup {None},
           r.loc \in {proc[p].loc, proc[p].next},
           \/ r.phase \in Switching /\ r.next = proc[p].next /\ r.loc = proc[p].loc
                 /\ r.resume = proc[p].resume
           \/ r.phase = proc[p].resume
           \/ r.phase = "closed"
    PROVE  Typed'
<1>1. /\ proc[p].loc \in 1..Len(log) /\ proc[p].next \in 1..Len(log)
      /\ proc[p].next # proc[p].loc /\ Len(log) \in Segments /\ Len(log) <= Len(log)
      /\ proc[p].resume \in {"started", "running", "compacting"}
      /\ proc[p].mem.activating \in Subs <=> proc[p].resume = "started"
      /\ log \in Seq(GoodSegment)
  BY SwitchingFields
<1>2. /\ proc' = [proc EXCEPT ![p] = r] /\ r \in GoodRecord /\ r.mem = proc[p].mem
      /\ log' = log /\ Counters' /\ owed' \subseteq Inputs
      /\ stale' \in BOOLEAN /\ torn' \in BOOLEAN
  BY DEF SwitchMove, Counters, Typed, Shaped
<1>3. /\ r.loc \in 1..Len(log')
      /\ r.phase \in Switching =>
           /\ r.next \in 1..Len(log') /\ r.next # r.loc
           /\ r.resume \in {"started", "running", "compacting"}
  BY <1>1, <1>2 DEF Switching
<1>4. r.phase \in Writing =>
        (r.mem.activating \in Subs <=>
           (IF r.phase \in Switching THEN r.resume ELSE r.phase) \in {"prepared", "started"})
  BY <1>1, <1>2 DEF Switching, Writing, Open, Turn
<1> QED BY <1>1, <1>2, <1>3, <1>4, TypedStep

LEMMA BeginMove ==
    ASSUME Typed, NEW p \in Procs, BeginActivation(p)
    PROVE  LET r == [proc[p] EXCEPT !.phase = "begun"]
           IN  SwitchMove(p, r) /\ r.phase = "begun" /\ r.loc = proc[p].loc
               /\ r.next = proc[p].next /\ r.resume = proc[p].resume
<1>1. "begun" \in Phases
  BY DEF Phases, Writing, Switching
<1> QED BY <1>1, Fields DEF BeginActivation, SwitchMove, tornVars, GoodRecord, Typed, Shaped

LEMMA SwapMove ==
    ASSUME Typed, NEW p \in Procs, SwapMetadata(p)
    PROVE  \/ LET r == [proc[p] EXCEPT !.phase = "swapped"]
              IN  SwitchMove(p, r) /\ r.phase = "swapped" /\ r.loc = proc[p].loc
                  /\ r.next = proc[p].next /\ r.resume = proc[p].resume
                  /\ lock' = lock /\ torn' = torn
           \/ LET r == [proc[p] EXCEPT !.phase = proc[p].resume, !.next = 1,
                                       !.resume = "off"]
              IN  SwitchMove(p, r) /\ r.phase = proc[p].resume /\ r.loc = proc[p].loc
                  /\ lock' = None /\ torn' = TRUE
<1>1. "swapped" \in Phases /\ "off" \in Phases /\ 1 \in Segments
  BY BoundsAssumption DEF Phases, Writing, Switching, Segments
<1>2. UNCHANGED <<log, effects, owed, astray>> /\ stale' \in {stale, FALSE}
  BY DEF SwapMetadata
<1>3. CASE proc' = [proc EXCEPT ![p].phase = "swapped"] /\ UNCHANGED <<lock, torn>>
  BY <1>1, <1>2, <1>3, Fields DEF SwitchMove, GoodRecord, Typed, Shaped
<1>4. CASE /\ lock' = None /\ torn' = TRUE
           /\ proc' = [proc EXCEPT ![p].phase = proc[p].resume, ![p].next = 1,
                                   ![p].resume = "off"]
  BY <1>1, <1>2, <1>4, Fields DEF SwitchMove, GoodRecord, Typed, Shaped
<1> QED BY <1>3, <1>4 DEF SwapMetadata

LEMMA CommitMove ==
    ASSUME Typed, NEW p \in Procs, CommitActivation(p)
    PROVE  LET r == [proc[p] EXCEPT !.phase = proc[p].resume, !.loc = proc[p].next,
                                    !.next = 1, !.resume = "off"]
           IN  SwitchMove(p, r) /\ r.phase = proc[p].resume /\ r.loc = proc[p].next
<1>1. "off" \in Phases /\ 1 \in Segments
  BY BoundsAssumption DEF Phases, Segments
<1> QED BY <1>1, Fields DEF CommitActivation, SwitchMove, tornVars, GoodRecord, Typed, Shaped

LEMMA CloseMove ==
    ASSUME Typed, NEW p \in Procs, FailClosed(p)
    PROVE  LET r == [proc[p] EXCEPT !.phase = "closed"]
           IN  SwitchMove(p, r) /\ r.phase = "closed" /\ r.loc = proc[p].loc
<1>1. "closed" \in Phases
  BY DEF Phases
<1> QED BY <1>1, Fields, ZenonT(60) DEF FailClosed, SwitchMove, tornVars, GoodRecord, Typed, Shaped

LEMMA FailsMove ==
    ASSUME Typed, NEW p \in Procs, SwitchFails(p)
    PROVE  LET r == [proc[p] EXCEPT !.phase = proc[p].resume, !.next = 1, !.resume = "off"]
           IN  SwitchMove(p, r) /\ r.phase = proc[p].resume /\ r.loc = proc[p].loc
<1>1. "off" \in Phases /\ 1 \in Segments
  BY BoundsAssumption DEF Phases, Segments
<1> QED BY <1>1, Fields DEF SwitchFails, SwitchMove, tornVars, GoodRecord, Typed, Shaped

LEMMA SwitchStepTyped ==
    ASSUME Typed, NEW p \in Procs, SwitchStep(p)
    PROVE  Typed'
<1>0. /\ pointer \in 1..Len(log) /\ lock \in Procs \cup {None}
      /\ alloc \in [owner: Procs \cup {None}, segment: Segments]
      /\ {"staged", "begun", "swapped"} \subseteq Switching
  BY DEF Typed, Shaped, Switching
<1>1. CASE StageSegment(p)
  BY <1>1, StageTyped
<1>2. CASE BeginActivation(p)
  BY <1>0, <1>2, BeginMove, SwitchTyped, ZenonT(60) DEF BeginActivation
<1>3. CASE SwapMetadata(p)
  <2>1. proc[p].phase \in Switching /\ pointer' \in 1..Len(log) /\ alloc' = alloc
    BY <1>0, <1>3, SwitchingFields DEF SwapMetadata
  <2> QED BY <1>0, <1>3, <2>1, SwapMove, SwitchTyped
<1>4. CASE CommitActivation(p)
  <2>1. /\ proc[p].phase \in Switching /\ pointer' = pointer /\ lock' = None
        /\ alloc' \in [owner: Procs \cup {None}, segment: Segments]
    BY <1>0, <1>4, SwitchingFields DEF CommitActivation
  <2> QED BY <1>0, <1>4, <2>1, CommitMove, SwitchTyped
<1>5. CASE FailClosed(p)
  <2>1. /\ proc[p].phase \in Switching /\ pointer' = pointer /\ lock' = lock
        /\ alloc' \in [owner: Procs \cup {None}, segment: Segments]
    BY <1>0, <1>5, SwitchingFields DEF FailClosed
  <2> QED BY <1>0, <1>5, <2>1, CloseMove, SwitchTyped
<1>6. CASE SwitchFails(p)
  <2>1. /\ proc[p].phase \in Switching /\ pointer' = pointer /\ alloc' = alloc
        /\ lock' \in Procs \cup {None}
    BY <1>0, <1>6 DEF SwitchFails
  <2> QED BY <1>0, <1>6, <2>1, FailsMove, SwitchTyped
<1> QED BY <1>1, <1>2, <1>3, <1>4, <1>5, <1>6 DEF SwitchStep

LEMMA SwitchStepInv ==
    ASSUME SessionInv, NEW p \in Procs, SwitchStep(p)
    PROVE  SessionInv'
<1>0. Typed /\ Typed'
  BY SwitchStepTyped DEF SessionInv
<1>1. CASE StageSegment(p)
  BY <1>1, StageInv
<1>2. ASSUME proc[p].phase \in Switching
      PROVE  /\ proc[p].phase \in Owning /\ proc[p].phase \in Writing
             /\ alloc.owner = p /\ alloc.segment = proc[p].loc
             /\ ~torn => pointer = IF proc[p].phase = "swapped" THEN proc[p].next
                                   ELSE proc[p].loc
             /\ torn => pointer # proc[p].loc
             /\ proc[p].next # proc[p].loc
             /\ Queued(proc[p].mem) = owed
             /\ proc[p].phase \in {"staged", "begun"} =>
                    log[proc[p].next].checkpoint = proc[p].mem
             /\ proc[p].resume \in Open \ {"off"}
             /\ torn \/ stale \/ Queued(log[pointer].checkpoint) = owed
             /\ torn \/ stale => proc[p].phase # "swapped"
  <2>1. proc[p].phase \in Writing /\ proc[p].phase \in Owning
    BY <1>2 DEF Writing, Owning
  <2>2. proc[p].resume \in Open \ {"off"} /\ proc[p].next # proc[p].loc
    BY <1>0, <1>2, SwitchingFields DEF Open, Turn
  <2>3. torn \/ stale => proc[p].phase # "swapped"
    BY <2>1, OnlyOwner DEF SessionInv, Accounted, Owning
  <2> QED BY <2>1, <2>2, <2>3 DEF SessionInv, Held, Accounted
<1>3. \A ph \in Open : ph \in Writing \ {"swapped"}
                       /\ ph \notin {"staged", "begun", "installed", "validated"}
  BY DEF Open, Writing, Turn
<1>4. CASE BeginActivation(p)
  <2> DEFINE r == [proc[p] EXCEPT !.phase = "begun"]
  <2>1. SwitchMove(p, r) /\ r.phase = "begun" /\ r.loc = proc[p].loc /\ r.next = proc[p].next
    BY <1>0, <1>4, BeginMove
  <2> HIDE DEF r
  <2>2. /\ proc[p].phase \in Switching /\ proc[p].phase = "staged"
        /\ pointer' = pointer /\ alloc' = alloc /\ stale' = stale /\ torn' = torn
    BY <1>4 DEF BeginActivation, Switching, tornVars
  <2>3. /\ proc'[p] = r /\ proc' = [proc EXCEPT ![p] = r] /\ r.mem = proc[p].mem
        /\ log' = log /\ owed' = owed
    BY <1>0, <2>1 DEF SwitchMove, Typed, Shaped
  <2>4. Held(p)'
    BY <1>2, <2>1, <2>2, <2>3 DEF Held
  <2>5. Accounted'
    BY <1>2, <2>1, <2>2, <2>3 DEF Accounted, Writing, Switching
  <2> QED BY <1>0, <1>2, <2>2, <2>3, <2>4, <2>5, OwnerStep
<1>5. CASE SwapMetadata(p)
  <2>0. /\ proc[p].phase \in Switching /\ proc[p].phase = "begun" /\ pointer = proc[p].loc
        /\ pointer' = proc[p].next /\ alloc' = alloc /\ stale' = FALSE
    BY <1>5 DEF SwapMetadata, Switching
  <2>1. ~torn
    BY <1>2, <2>0
  <2>2. PICK r : /\ SwitchMove(p, r) /\ r.loc = proc[p].loc
                 /\ \/ /\ r.phase = "swapped" /\ r.next = proc[p].next /\ torn' = torn
                    \/ r.phase = proc[p].resume /\ torn' = TRUE
    BY <1>0, <1>5, SwapMove
  <2>3. /\ proc'[p] = r /\ proc' = [proc EXCEPT ![p] = r] /\ r.mem = proc[p].mem
        /\ log' = log /\ owed' = owed
    BY <1>0, <2>2 DEF SwitchMove, Typed, Shaped
  <2>4. Held(p)'
    <3>1. CASE r.phase = "swapped" /\ r.next = proc[p].next /\ torn' = torn
      BY <1>2, <2>0, <2>1, <2>2, <2>3, <3>1 DEF Held
    <3>2. CASE r.phase = proc[p].resume /\ torn' = TRUE
      BY <1>2, <1>3, <2>0, <2>2, <2>3, <3>2 DEF Held
    <3> QED BY <2>2, <3>1, <3>2
  <2>5. Accounted'
    <3>1. CASE r.phase = "swapped" /\ torn' = torn
      BY <1>2, <2>0, <2>1, <2>3, <3>1 DEF Accounted
    <3>2. CASE r.phase = proc[p].resume /\ torn' = TRUE
      BY <1>2, <1>3, <2>0, <2>3, <3>2 DEF Accounted
    <3> QED BY <2>2, <3>1, <3>2
  <2> QED BY <1>0, <1>2, <2>0, <2>3, <2>4, <2>5, OwnerStep
<1>6. CASE CommitActivation(p)
  <2> DEFINE r == [proc[p] EXCEPT !.phase = proc[p].resume, !.loc = proc[p].next,
                                  !.next = 1, !.resume = "off"]
  <2>1. SwitchMove(p, r) /\ r.phase = proc[p].resume /\ r.loc = proc[p].next
    BY <1>0, <1>6, CommitMove
  <2> HIDE DEF r
  <2>2. /\ proc[p].phase \in Switching /\ proc[p].phase = "swapped"
        /\ pointer' = pointer /\ stale' = stale /\ torn' = torn
        /\ alloc' = [alloc EXCEPT !.segment = proc[p].next]
    BY <1>6 DEF CommitActivation, Switching, tornVars
  <2>3. /\ proc'[p] = r /\ proc' = [proc EXCEPT ![p] = r] /\ r.mem = proc[p].mem
        /\ log' = log /\ owed' = owed
        /\ alloc'.owner = alloc.owner /\ alloc'.segment = proc[p].next
    BY <1>0, <2>1, <2>2 DEF SwitchMove, Typed, Shaped
  <2>4. Held(p)'
    BY <1>2, <1>3, <2>1, <2>2, <2>3 DEF Held
  <2>5. Accounted'
    BY <1>2, <2>2, <2>3 DEF Accounted
  <2> QED BY <1>0, <1>2, <2>2, <2>3, <2>4, <2>5, OwnerStep
<1>7. CASE FailClosed(p)
  <2> DEFINE r == [proc[p] EXCEPT !.phase = "closed"]
  <2>1. SwitchMove(p, r) /\ r.phase = "closed" /\ r.loc = proc[p].loc
    BY <1>0, <1>7, CloseMove
  <2> HIDE DEF r
  <2>2. /\ proc[p].phase \in Switching /\ proc[p].phase = "swapped"
        /\ pointer' = pointer /\ stale' = stale /\ torn' = torn
        /\ alloc' \in {alloc, [alloc EXCEPT !.segment = proc[p].next]}
    BY <1>7 DEF FailClosed, Switching, tornVars
  <2>3. /\ proc'[p] = r /\ proc' = [proc EXCEPT ![p] = r] /\ log' = log /\ owed' = owed
        /\ alloc'.owner = alloc.owner
    BY <1>0, <2>1, <2>2 DEF SwitchMove, Typed, Shaped
  <2>4. Held(p)'
    <3>1. "closed" \notin Writing \cup {"installed", "validated", "staged", "begun"}
      BY DEF Writing, Open, Turn, Switching
    <3>2. alloc'.owner = p
      BY <1>2, <2>2, <2>3
    <3> QED BY <2>1, <2>3, <3>1, <3>2 DEF Held
  <2>5. Accounted'
    BY <1>2, <2>2, <2>3 DEF Accounted
  <2> QED BY <1>0, <1>2, <2>2, <2>3, <2>4, <2>5, OwnerStep
<1>8. CASE SwitchFails(p)
  <2> DEFINE r == [proc[p] EXCEPT !.phase = proc[p].resume, !.next = 1, !.resume = "off"]
  <2>1. SwitchMove(p, r) /\ r.phase = proc[p].resume /\ r.loc = proc[p].loc
    BY <1>0, <1>8, FailsMove
  <2> HIDE DEF r
  <2>2. /\ proc[p].phase \in Switching /\ proc[p].phase # "swapped"
        /\ pointer' = pointer /\ stale' = stale /\ alloc' = alloc
        /\ torn' = torn
    BY <1>8 DEF SwitchFails, Switching, tornVars
  <2>3. /\ proc'[p] = r /\ proc' = [proc EXCEPT ![p] = r] /\ r.mem = proc[p].mem
        /\ log' = log /\ owed' = owed
    BY <1>0, <2>1, <2>2 DEF SwitchMove, Typed, Shaped
  <2>4. Held(p)'
    BY <1>2, <1>3, <2>1, <2>2, <2>3 DEF Held
  <2>5. Accounted'
    BY <1>2, <1>3, <2>1, <2>2, <2>3 DEF Accounted
  <2> QED BY <1>0, <1>2, <2>2, <2>3, <2>4, <2>5, OwnerStep
<1> QED BY <1>1, <1>4, <1>5, <1>6, <1>7, <1>8 DEF SwitchStep

(***************************************************************************)
(* The end of a process, and the restore in the next one                   *)
(***************************************************************************)
LEMMA FreshGood ==
    LET dead == [Fresh EXCEPT !.phase = "dead"]
    IN  /\ Fresh \in GoodRecord /\ Fresh.phase = "off" /\ EmptySegment \in GoodSegment
        /\ dead \in GoodRecord /\ dead.phase = "dead"
<1>1. EmptySegment \in GoodSegment
  BY NoPendingGood DEF EmptySegment, GoodSegment
<1>2. 1 \in Segments /\ "off" \in Phases /\ "dead" \in Phases
  BY BoundsAssumption DEF Segments, Phases
<1> QED BY <1>1, <1>2, NoPendingGood DEF Fresh, GoodRecord

LEMMA QueuedInputs ==
    ASSUME NEW m \in Good
    PROVE  Queued(m) \subseteq Inputs
<1>1. /\ ToSet(m.pending) \subseteq Subs /\ ToSet(m.notifications) \subseteq Notes
      /\ m.activating \in Subs \cup {None}
  BY GoodFields, ToSetIs
<1> QED BY <1>1 DEF Queued, Inputs

LEMMA RestoredQueue ==
    ASSUME NEW g \in GoodSegment
    PROVE  Queued(Restored(g)) = Queued(g.checkpoint) /\ Queued(g.checkpoint) \subseteq Inputs
BY RestoredGood, QueuedInputs DEF Restored, GoodSegment

LEMMA ForgetTyped ==
    ASSUME Typed, NEW p \in Procs, Forget(p), log' = log, pointer' = pointer,
           UNCHANGED <<effects, astray>>, lock' \in Procs \cup {None},
           alloc' \in [owner: Procs \cup {None}, segment: Segments]
    PROVE  Typed'
<1> DEFINE r == [Fresh EXCEPT !.phase = "dead"]
<1>1. r \in GoodRecord /\ r.phase = "dead" /\ proc' = [proc EXCEPT ![p] = r]
  BY FreshGood DEF Forget
<1>2. log[pointer] \in GoodSegment /\ log \in Seq(GoodSegment) /\ Len(log) \in Segments
      /\ pointer \in 1..Len(log) /\ Counters' /\ Len(log) <= Len(log)
  BY LenProperties DEF Typed, Shaped, Counters
<1>3. owed' \subseteq Inputs /\ stale' \in BOOLEAN /\ torn' \in BOOLEAN
  BY <1>2, RestoredQueue DEF Forget, Typed, Shaped
<1>4. r.phase \notin Switching /\ r.phase \notin Writing
  BY <1>1 DEF Switching, Writing, Open, Turn
<1> HIDE DEF r
<1> QED BY <1>1, <1>2, <1>3, <1>4, TypedStep

LEMMA ForgetInv ==
    ASSUME SessionInv, Typed', NEW p \in Procs, Forget(p), log' = log, pointer' = pointer,
           proc[p].phase \notin Owning => alloc' = alloc
    PROVE  SessionInv'
<1> DEFINE r == [Fresh EXCEPT !.phase = "dead"]
<1>1. r.phase = "dead" /\ proc' = [proc EXCEPT ![p] = r]
  BY FreshGood DEF Forget
<1> HIDE DEF r
<1>2. proc'[p] = r
  BY <1>1 DEF SessionInv, Typed, Shaped
<1>3. "dead" \notin Owning \cup Writing \cup {"installed", "validated", "staged", "begun"}
  BY DEF Owning, Writing, Open, Turn, Switching
<1>4. CASE proc[p].phase \in Owning
  <2>1. Held(p)'
    BY <1>1, <1>2, <1>3 DEF Held
  <2>2. Accounted'
    <3>1. CASE proc[p].phase \in Writing /\ (stale \/ torn)
      <4>1. log[pointer] \in GoodSegment
        BY DEF SessionInv, Typed, Shaped
      <4>2. owed' = Queued(Restored(log[pointer])) /\ stale' = FALSE /\ torn' = FALSE
        BY <3>1 DEF Forget
      <4> QED BY <4>1, <4>2, RestoredQueue DEF Accounted
    <3>2. CASE ~(proc[p].phase \in Writing /\ (stale \/ torn))
      <4>1. owed' = owed /\ stale' = stale /\ torn' = torn
        BY <3>2 DEF Forget
      <4>2. ~stale /\ ~torn
        BY <1>4, <3>2, OnlyOwner DEF SessionInv, Accounted, Owning
      <4> QED BY <4>1, <4>2 DEF SessionInv, Accounted
    <3> QED BY <3>1, <3>2
  <2> QED BY <1>1, <1>4, <2>1, <2>2, OwnerStep
<1>5. CASE proc[p].phase \notin Owning
  <2>1. owed' = owed /\ stale' = stale /\ torn' = torn
    BY <1>5 DEF Forget, Owning
  <2> QED BY <1>1, <1>3, <1>5, <2>1, OutsideStep
<1> QED BY <1>4, <1>5

LEMMA EndTyped ==
    ASSUME Typed, NEW p \in Procs, Stop(p) \/ Crash(p)
    PROVE  Typed'
<1>1. NoAllocation \in [owner: Procs \cup {None}, segment: Segments]
  BY BoundsAssumption DEF NoAllocation, Segments
<1>2. /\ Forget(p) /\ log' = log /\ pointer' = pointer
      /\ UNCHANGED <<effects, astray>>
      /\ lock' \in Procs \cup {None}
      /\ alloc' \in [owner: Procs \cup {None}, segment: Segments]
  BY <1>1 DEF Stop, Crash, Typed, Shaped
<1> QED BY <1>2, ForgetTyped

LEMMA EndInv ==
    ASSUME SessionInv, NEW p \in Procs, Stop(p) \/ Crash(p)
    PROVE  SessionInv'
<1>1. Typed'
  BY EndTyped DEF SessionInv
<1>2. /\ Forget(p) /\ log' = log /\ pointer' = pointer
      /\ proc[p].phase \notin Owning => alloc' = alloc
  BY DEF Stop, Crash, Owning, Writing, Open
<1> QED BY <1>1, <1>2, ForgetInv

\* A step of the restore writes neither the log nor the ledger.
RestoreMove(p, r) ==
    /\ proc' = [proc EXCEPT ![p] = r]
    /\ r \in GoodRecord
    /\ UNCHANGED <<log, lock, effects, owed, stale, torn, astray>>

LEMMA RestoreTyped ==
    ASSUME Typed, NEW p \in Procs, NEW r, RestoreMove(p, r),
           pointer' \in 1..Len(log), r.loc \in 1..Len(log),
           alloc' \in [owner: Procs \cup {None}, segment: Segments],
           \/ r.phase \in {"off", "candidate", "installed", "validated"}
           \/ r.phase = "idle" /\ r.mem.activating = None
           \/ r.phase = "prepared" /\ r.mem.activating \in Subs
    PROVE  Typed'
<1>1. /\ proc' = [proc EXCEPT ![p] = r] /\ r \in GoodRecord
      /\ log' = log /\ Counters' /\ owed' \subseteq Inputs
      /\ stale' \in BOOLEAN /\ torn' \in BOOLEAN /\ lock' \in Procs \cup {None}
      /\ log \in Seq(GoodSegment) /\ Len(log) \in Segments /\ Len(log) <= Len(log)
  BY LenProperties DEF RestoreMove, Counters, Typed, Shaped
<1>2. r.phase \notin Switching
  BY DEF Switching
<1>3. r.phase \in Writing =>
        (r.mem.activating \in Subs <=>
           (IF r.phase \in Switching THEN r.resume ELSE r.phase) \in {"prepared", "started"})
  BY <1>2, NoneAssumption DEF Switching, Writing, Open, Turn
<1> QED BY <1>1, <1>2, <1>3, TypedStep

LEMMA ReadMove ==
    ASSUME Typed, NEW p \in Procs, ReadCandidate(p)
    PROVE  LET r == [proc[p] EXCEPT !.phase = "candidate", !.loc = pointer,
                                    !.source = log[pointer]]
           IN  RestoreMove(p, r) /\ r.phase = "candidate" /\ r.loc = pointer
<1>1. "candidate" \in Phases /\ pointer \in Segments /\ log[pointer] \in GoodSegment
  BY BoundsAssumption DEF Phases, Restoring, Typed, Shaped, Segments
<1> QED BY <1>1, Fields DEF ReadCandidate, RestoreMove, tableVars, tornVars, GoodRecord, Typed, Shaped

LEMMA InstallMove ==
    ASSUME Typed, NEW p \in Procs, Install(p)
    PROVE  LET r == [proc[p] EXCEPT !.phase = "installed"]
           IN  RestoreMove(p, r) /\ r.phase = "installed" /\ r.loc = proc[p].loc
<1>1. "installed" \in Phases
  BY DEF Phases, Restoring
<1> QED BY <1>1, Fields DEF Install, RestoreMove, tornVars, GoodRecord, Typed, Shaped

LEMMA CheckMove ==
    ASSUME Typed, NEW p \in Procs, CheckAfter(p)
    PROVE  LET r == [proc[p] EXCEPT !.phase = "validated"]
           IN  RestoreMove(p, r) /\ r.phase = "validated" /\ r.loc = proc[p].loc
               /\ r.source = proc[p].source
<1>1. "validated" \in Phases
  BY DEF Phases, Restoring
<1> QED BY <1>1, Fields DEF CheckAfter, RestoreMove, tableVars, tornVars, GoodRecord, Typed, Shaped

LEMMA DiscardMove ==
    ASSUME Typed, NEW p \in Procs, Discard(p)
    PROVE  RestoreMove(p, Fresh) /\ Fresh.phase = "off" /\ Fresh.loc = 1
<1>1. Fresh.loc = 1
  BY DEF Fresh
<1> QED BY <1>1, FreshGood DEF Discard, RestoreMove, tornVars

LEMMA ActivateMove ==
    ASSUME Typed, NEW p \in Procs, Activate(p)
    PROVE  \E r \in GoodRecord :
               /\ RestoreMove(p, r) /\ r.loc = proc[p].loc
               /\ Queued(r.mem) = Queued(proc[p].source.checkpoint)
               /\ \/ r.phase = "idle" /\ r.mem.activating = None
                  \/ r.phase = "prepared" /\ r.mem.activating \in Subs
<1> DEFINE m == Restored(proc[p].source)
           n == IF m.pending = <<>> THEN m ELSE PreparedNext(m)
           ph == IF m.pending = <<>> THEN "idle" ELSE "prepared"
           r == [proc[p] EXCEPT !.phase = ph, !.mem = n, !.source = EmptySegment]
<1>1. proc[p].source \in GoodSegment /\ proc[p].source.checkpoint \in Good
  BY Fields DEF GoodSegment
<1>2. /\ m \in Good /\ m.activating = None
      /\ Queued(m) = Queued(proc[p].source.checkpoint)
  BY <1>1, RestoredGood DEF Restored
<1> HIDE DEF m
<1>3. /\ n \in Good /\ Queued(n) = Queued(m)
      /\ \/ ph = "idle" /\ n.activating = None
         \/ ph = "prepared" /\ n.activating \in Subs
  BY <1>2, PreparedGood
<1>4. proc' = [proc EXCEPT ![p].phase = ph, ![p].mem = n, ![p].source = EmptySegment]
  BY DEF Activate, m
<1> HIDE DEF n, ph
<1>5. ph \in Phases /\ EmptySegment \in GoodSegment
  BY <1>3, FreshGood DEF Phases, Writing, Open
<1>6. /\ r \in GoodRecord /\ r.loc = proc[p].loc /\ r.mem = n /\ r.phase = ph
      /\ proc' = [proc EXCEPT ![p] = r]
  BY <1>3, <1>4, <1>5, Fields DEF GoodRecord, Typed, Shaped
<1>7. UNCHANGED <<log, lock, effects, owed, stale, torn, astray>>
  BY DEF Activate, tableVars, tornVars
<1> HIDE DEF r
<1> QED BY <1>2, <1>3, <1>6, <1>7 DEF RestoreMove

LEMMA RestoringFields ==
    ASSUME Typed, NEW p \in Procs, proc[p].phase \in Restoring
    PROVE  proc[p].loc \in 1..Len(log) /\ proc[p].loc \in Segments
BY Fields DEF Typed, Placed, Restoring

LEMMA LifecycleTyped ==
    ASSUME Typed, NEW p \in Procs, Lifecycle(p)
    PROVE  Typed'
<1>0. /\ pointer \in 1..Len(log) /\ 1 \in 1..Len(log)
      /\ alloc \in [owner: Procs \cup {None}, segment: Segments]
      /\ NoAllocation \in [owner: Procs \cup {None}, segment: Segments]
      /\ {"candidate", "installed", "validated"} \subseteq Restoring
  BY BoundsAssumption DEF Typed, Shaped, NoAllocation, Segments, Restoring
<1>1. CASE Stop(p) \/ Crash(p)
  BY <1>1, EndTyped
<1>2. CASE ReadCandidate(p)
  <2>1. pointer' = pointer /\ alloc' = alloc
    BY <1>2 DEF ReadCandidate, tableVars
  <2> QED BY <1>0, <1>2, <2>1, ReadMove, RestoreTyped
<1>3. CASE Install(p)
  <2>1. /\ pointer' = pointer /\ proc[p].phase \in Restoring
        /\ alloc' = [owner |-> p, segment |-> proc[p].loc]
    BY <1>0, <1>3 DEF Install
  <2>2. alloc' \in [owner: Procs \cup {None}, segment: Segments]
    BY <2>1, RestoringFields
  <2> QED BY <1>0, <1>3, <2>1, <2>2, InstallMove, RestoreTyped, RestoringFields
<1>4. CASE CheckAfter(p)
  <2>1. pointer' = pointer /\ alloc' = alloc /\ proc[p].phase \in Restoring
    BY <1>0, <1>4 DEF CheckAfter, tableVars
  <2> QED BY <1>0, <1>4, <2>1, CheckMove, RestoreTyped, RestoringFields
<1>5. CASE Discard(p)
  <2>1. pointer' = pointer /\ alloc' \in {alloc, NoAllocation}
    BY <1>5 DEF Discard
  <2> QED BY <1>0, <1>5, <2>1, DiscardMove, RestoreTyped
<1>6. CASE Activate(p)
  <2>1. pointer' = proc[p].loc /\ alloc' = alloc /\ proc[p].phase \in Restoring
    BY <1>0, <1>6 DEF Activate, tableVars
  <2>2. PICK r \in GoodRecord :
               /\ RestoreMove(p, r) /\ r.loc = proc[p].loc
               /\ \/ r.phase = "idle" /\ r.mem.activating = None
                  \/ r.phase = "prepared" /\ r.mem.activating \in Subs
    BY <1>6, ActivateMove
  <2> QED BY <1>0, <2>1, <2>2, RestoreTyped, RestoringFields
<1> QED BY <1>1, <1>2, <1>3, <1>4, <1>5, <1>6 DEF Lifecycle

LEMMA LifecycleInv ==
    ASSUME SessionInv, NEW p \in Procs, Lifecycle(p)
    PROVE  SessionInv'
<1>0. Typed /\ Typed'
  BY LifecycleTyped DEF SessionInv
<1>1. \A q \in Procs : \A r : RestoreMove(q, r) =>
          proc'[q] = r /\ proc' = [proc EXCEPT ![q] = r] /\ log' = log
          /\ owed' = owed /\ stale' = stale /\ torn' = torn
  BY <1>0 DEF RestoreMove, Typed, Shaped
<1>2. /\ \A ph \in {"off", "dead", "candidate"} : ph \notin Owning
      /\ {"installed", "validated"} \subseteq Owning
      /\ {"installed", "validated"} \cap (Writing \cup {"staged", "begun"}) = {}
      /\ {"idle", "prepared"} \subseteq Writing \ {"swapped", "staged", "begun"}
  BY DEF Owning, Writing, Open, Turn, Switching
<1>3. CASE Stop(p) \/ Crash(p)
  BY <1>3, EndInv
<1>4. CASE ReadCandidate(p)
  <2> DEFINE r == [proc[p] EXCEPT !.phase = "candidate", !.loc = pointer,
                                  !.source = log[pointer]]
  <2>1. RestoreMove(p, r) /\ r.phase = "candidate"
    BY <1>0, <1>4, ReadMove
  <2> HIDE DEF r
  <2>2. proc[p].phase = "off" /\ pointer' = pointer /\ alloc' = alloc
    BY <1>4 DEF ReadCandidate, tableVars
  <2> QED BY <1>0, <1>1, <1>2, <2>1, <2>2, OutsideStep
<1>5. CASE Install(p)
  <2> DEFINE r == [proc[p] EXCEPT !.phase = "installed"]
  <2>1. RestoreMove(p, r) /\ r.phase = "installed" /\ r.loc = proc[p].loc
    BY <1>0, <1>5, InstallMove
  <2> HIDE DEF r
  <2>2. /\ pointer' = pointer /\ alloc'.owner = p /\ alloc'.segment = proc[p].loc
        /\ Claimable /\ proc[p].phase = "candidate"
    BY <1>5 DEF Install
  <2>3. \A q \in Procs : proc[q].phase \notin Owning
    BY <1>2, <2>2, NoneAssumption DEF SessionInv, Held, Claimable
  <2>4. /\ proc'[p] = r /\ log' = log /\ owed' = owed /\ stale' = stale /\ torn' = torn
        /\ \A q \in Procs \ {p} : proc'[q] = proc[q]
    BY <1>0, <1>1, <2>1 DEF Typed, Shaped
  <2>5. Held(p)'
    BY <1>2, <2>1, <2>2, <2>4 DEF Held
  <2>6. \A q \in Procs \ {p} : Held(q)'
    BY <2>3, <2>4 DEF Held, Owning, Writing, Switching
  <2>7. Accounted'
    BY <2>2, <2>3, <2>4 DEF SessionInv, Accounted, Owning
  <2> QED BY <1>0, <2>5, <2>6, <2>7 DEF SessionInv
<1>6. ASSUME proc[p].phase \in {"installed", "validated"}
      PROVE  /\ ~stale /\ ~torn /\ Queued(log[pointer].checkpoint) = owed
             /\ alloc.owner = p /\ alloc.segment = proc[p].loc
             /\ proc[p].phase = "validated" =>
                    pointer = proc[p].loc /\ log[pointer] = proc[p].source
  <2>1. \A q \in Procs : proc[q].phase \notin Writing
    BY <1>2, <1>6, OnlyOwner DEF Owning
  <2> QED BY <1>2, <1>6, <2>1 DEF SessionInv, Held, Accounted
<1>7. CASE CheckAfter(p)
  <2> DEFINE r == [proc[p] EXCEPT !.phase = "validated"]
  <2>1. RestoreMove(p, r) /\ r.phase = "validated" /\ r.loc = proc[p].loc
        /\ r.source = proc[p].source
    BY <1>0, <1>7, CheckMove
  <2> HIDE DEF r
  <2>2. /\ pointer' = pointer /\ alloc' = alloc /\ proc[p].phase = "installed"
        /\ pointer = proc[p].loc /\ log[pointer] = proc[p].source
    BY <1>7 DEF CheckAfter, tableVars, Unchanged, Written
  <2>3. proc'[p] = r /\ log' = log /\ owed' = owed /\ stale' = stale /\ torn' = torn
    BY <1>1, <2>1
  <2>4. ~stale /\ ~torn /\ Queued(log[pointer].checkpoint) = owed
        /\ alloc.owner = p /\ alloc.segment = proc[p].loc
    BY <1>6, <2>2
  <2>5. Held(p)'
    BY <1>2, <2>1, <2>2, <2>3, <2>4 DEF Held
  <2>6. Accounted'
    BY <2>2, <2>3, <2>4 DEF Accounted
  <2> QED BY <1>0, <1>1, <1>2, <2>1, <2>2, <2>5, <2>6, OwnerStep
<1>8. CASE Discard(p)
  <2>1. RestoreMove(p, Fresh) /\ Fresh.phase = "off"
    BY <1>0, <1>8, DiscardMove
  <2>2. /\ pointer' = pointer /\ proc[p].phase \in {"candidate", "installed", "validated"}
        /\ proc[p].phase = "candidate" => alloc' = alloc
    BY <1>8 DEF Discard, Restoring
  <2>3. CASE proc[p].phase = "candidate"
    BY <1>0, <1>1, <1>2, <2>1, <2>2, <2>3, OutsideStep
  <2>4. CASE proc[p].phase \in {"installed", "validated"}
    <3>1. Held(p)'
      BY <1>1, <2>1 DEF Held, Owning, Writing, Open, Turn, Switching
    <3>2. ~stale /\ ~torn /\ Queued(log[pointer].checkpoint) = owed
      BY <1>6, <2>4
    <3>3. log' = log /\ owed' = owed /\ stale' = stale /\ torn' = torn
      BY <1>1, <2>1
    <3>4. Accounted'
      BY <2>2, <3>2, <3>3 DEF Accounted
    <3> QED BY <1>0, <1>1, <1>2, <2>1, <2>4, <3>1, <3>4, OwnerStep
  <2> QED BY <2>2, <2>3, <2>4
<1>9. CASE Activate(p)
  <2>1. PICK r \in GoodRecord :
               /\ RestoreMove(p, r) /\ r.loc = proc[p].loc
               /\ Queued(r.mem) = Queued(proc[p].source.checkpoint)
               /\ r.phase \in {"idle", "prepared"}
    BY <1>0, <1>9, ActivateMove
  <2>2. /\ pointer' = proc[p].loc /\ alloc' = alloc /\ proc[p].phase = "validated"
    BY <1>9 DEF Activate, tableVars
  <2>3. proc'[p] = r /\ log' = log /\ owed' = owed /\ stale' = stale /\ torn' = torn
    BY <1>1, <2>1
  <2>4. ~stale /\ ~torn /\ Queued(log[pointer].checkpoint) = owed
        /\ alloc.owner = p /\ alloc.segment = proc[p].loc
        /\ pointer = proc[p].loc /\ log[pointer] = proc[p].source
    BY <1>6, <2>2
  <2>5. Held(p)'
    BY <1>2, <2>1, <2>2, <2>3, <2>4 DEF Held
  <2>6. Accounted'
    BY <2>2, <2>3, <2>4 DEF Accounted
  <2> QED BY <1>0, <1>1, <1>2, <2>1, <2>2, <2>5, <2>6, OwnerStep
<1> QED BY <1>3, <1>4, <1>5, <1>7, <1>8, <1>9 DEF Lifecycle

LEMMA InitInv == Init => SessionInv
<1> SUFFICES ASSUME Init PROVE SessionInv
  OBVIOUS
<1>1. /\ 1 \in Segments /\ "idle" \in Phases /\ EmptySegment \in GoodSegment
      /\ EmptySegment.checkpoint = NoPending
  BY BoundsAssumption, FreshGood DEF Segments, Phases, Writing, Open, EmptySegment
<1>2. log \in Seq(GoodSegment) /\ Len(log) = 1 /\ log[1] = EmptySegment
  BY <1>1 DEF Init
<1>3. [Fresh EXCEPT !.phase = "idle"] \in GoodRecord
  BY <1>1, FreshGood DEF GoodRecord
<1>4. proc \in [Procs -> GoodRecord]
  BY <1>3, FreshGood DEF Init
<1>5. /\ proc[First].phase = "idle" /\ proc[First].loc = 1 /\ proc[First].mem = NoPending
      /\ \A p \in Procs \ {First} : proc[p].phase = "off"
  BY FirstAssumption DEF Init, Fresh
<1>6. Shaped
  <2>1. alloc \in [owner: Procs \cup {None}, segment: Segments] /\ pointer \in 1..Len(log)
    BY <1>1, <1>2, FirstAssumption DEF Init
  <2>2. /\ Counters /\ owed \subseteq Inputs /\ stale \in BOOLEAN /\ torn \in BOOLEAN
        /\ lock \in Procs \cup {None}
    BY DEF Init, Counters
  <2>3. Len(log) \in Segments
    BY <1>1, <1>2
  <2> QED BY <1>2, <1>4, <2>1, <2>2, <2>3 DEF Shaped
<1>7. "idle" \notin Switching \cup {"off", "dead", "prepared", "started"}
      /\ "off" \notin Switching \cup Writing \cup Owning
      /\ "idle" \notin {"swapped", "installed", "validated", "staged", "begun"}
  BY DEF Switching, Writing, Open, Turn, Owning
<1>8. NoPending.activating = None /\ None \notin Subs
  BY NoneAssumption DEF NoPending
<1>9. Placed
  BY <1>2, <1>5, <1>7, <1>8 DEF Placed, Caller
<1>10. \A p \in Procs : Held(p)
  <2>1. alloc.owner = First /\ alloc.segment = 1 /\ pointer = 1 /\ owed = {} /\ ~torn
    BY DEF Init
  <2>2. Held(First)
    BY <1>5, <1>7, <2>1, NoPendingGood DEF Held
  <2>3. \A p \in Procs \ {First} : Held(p)
    BY <1>5, <1>7 DEF Held, Switching
  <2> QED BY <2>2, <2>3
<1>11. Accounted
  BY <1>1, <1>2, NoPendingGood DEF Init, Accounted
<1> QED BY <1>6, <1>9, <1>10, <1>11 DEF SessionInv, Typed

LEMMA NextTyped == Typed /\ [Next]_vars => Typed'
<1> SUFFICES ASSUME Typed, [Next]_vars PROVE Typed'
  OBVIOUS
<1>1. CASE Next
  BY <1>1, WriterSteps, WriterTyped, SwitchStepTyped, LifecycleTyped DEF Next
<1>2. CASE UNCHANGED vars
  BY <1>2 DEF vars, Typed, Shaped, Counters, Placed, Caller
<1> QED BY <1>1, <1>2

LEMMA NextInv == SessionInv /\ [Next]_vars => SessionInv'
<1> SUFFICES ASSUME SessionInv, [Next]_vars PROVE SessionInv'
  OBVIOUS
<1>1. CASE Next
  <2>1. Typed
    BY DEF SessionInv
  <2> QED BY <1>1, <2>1, WriterSteps, WriterInv, SwitchStepInv, LifecycleInv DEF Next
<1>2. CASE UNCHANGED vars
  BY <1>2 DEF vars, SessionInv, Typed, Shaped, Counters, Placed, Caller, Held, Accounted
<1> QED BY <1>1, <1>2

(***************************************************************************)
(* Nothing is run twice                                                    *)
(***************************************************************************)
\* How often each invocation was performed, those out of account left out.
Counted == [i \in Invs |-> IF astray[i] THEN 0 ELSE effects[i]]

\* The memory m knows that the inputs H were run, and that of every invocation
\* performed the start: nothing in H is waiting in it or would be accepted again.
Remembers(H, m, e) ==
    /\ H \subseteq m.receipts
    /\ H \cap Waiting(m) = {}
    /\ \A i \in Invs : e[i] # 0 => m.invocations[i] # "none"

\* What a process may put back, into memory or log, remembers what was run.
Recalls(p) ==
    LET r == proc[p]
        g == log[r.loc]
        H == ToSet(g.history)
    IN  /\ r.phase \in Writing =>
               /\ Injective(g.history)
               /\ Remembers(H, r.mem, Counted) /\ Remembers(H, g.checkpoint, Counted)
        /\ r.phase \in Switching => log[r.next].history = g.history
        /\ r.phase \in Writing /\ Caller(p) = "started" =>
               Remembers(H \cup {r.mem.activating}, r.extension, Counted)
        /\ r.prefix # None =>
               /\ r.phase = "running" /\ Injective(r.prefix.history)
               /\ ToSet(r.prefix.history) \subseteq H
               /\ Remembers(ToSet(r.prefix.history), r.prefix.checkpoint, Counted)
        /\ r.phase = "effect" =>
               \A i \in Invs : i = LastInvocation(g.history) =>
                   /\ Counted[i] = 0 /\ r.mem.invocations[i] # "none"
                   /\ g.checkpoint.invocations[i] # "none"

\* So does the active Segment.
Recorded ==
    LET g == log[pointer]
    IN  /\ Injective(g.history)
        /\ Remembers(ToSet(g.history), g.checkpoint, Counted)
        /\ \A i \in Invs : Counted[i] <= 1

HistoryInv == Recorded /\ \A p \in Procs : Recalls(p)

\* A process that does not write has nothing to put back.
LEMMA SilentRecalls ==
    ASSUME NEW p \in Procs, proc[p].phase \notin Writing
    PROVE  Recalls(p) <=> proc[p].prefix = None
<1>1. "running" \in Writing /\ "effect" \in Writing /\ Switching \subseteq Writing
  BY DEF Writing, Open, Turn
<1> QED BY <1>1 DEF Recalls

LEMMA OwnerRecalls ==
    ASSUME SessionInv, HistoryInv, NEW p \in Procs, proc[p].phase \in Owning, NEW r,
           proc' = [proc EXCEPT ![p] = r], Recalls(p)', Recorded'
    PROVE  HistoryInv'
<1> SUFFICES ASSUME NEW q \in Procs \ {p} PROVE Recalls(q)'
  BY DEF HistoryInv
<1>1. proc'[q] = proc[q] /\ proc[q].phase \notin Writing
  BY OnlyOwner DEF SessionInv, Typed, Shaped, Owning
<1>2. proc[q].prefix = None
  BY <1>1, SilentRecalls DEF HistoryInv
<1>3. "running" \in Writing /\ "effect" \in Writing /\ Switching \subseteq Writing
  BY DEF Writing, Open, Turn
<1> QED BY <1>1, <1>2, <1>3 DEF Recalls

\* A step that leaves the Session alone and leaves p with nothing to put back.
LEMMA SilentStep ==
    ASSUME SessionInv, HistoryInv, NEW p \in Procs, NEW r, proc' = [proc EXCEPT ![p] = r],
           r.phase \notin Writing, r.prefix = None, UNCHANGED <<log, pointer, Counted>>
    PROVE  HistoryInv'
<1>1. proc'[p] = r /\ \A q \in Procs \ {p} : proc'[q] = proc[q]
  BY DEF SessionInv, Typed, Shaped
<1>2. "running" \in Writing /\ "effect" \in Writing /\ Switching \subseteq Writing
  BY DEF Writing, Open, Turn
<1>3. Recalls(p)'
  BY <1>1, <1>2 DEF Recalls
<1>4. \A q \in Procs \ {p} : Recalls(q)'
  BY <1>1 DEF HistoryInv, Recalls, Caller
<1>5. Recorded'
  BY DEF HistoryInv, Recorded
<1> QED BY <1>3, <1>4, <1>5 DEF HistoryInv

\* The writer p puts the record r and the Segment g in place of its own.
Retains(p) ==
    LET r == proc'[p]
        g == log'[proc[p].loc]
        G == ToSet(g.history)
    IN  /\ Injective(g.history)
        /\ Remembers(G, g.checkpoint, Counted') /\ Remembers(G, r.mem, Counted')
        /\ r.phase = "started" => Remembers(G \cup {r.mem.activating}, r.extension, Counted')
        /\ r.prefix # None =>
               /\ r.phase = "running" /\ Injective(r.prefix.history)
               /\ ToSet(r.prefix.history) \subseteq G
               /\ Remembers(ToSet(r.prefix.history), r.prefix.checkpoint, Counted')
        /\ r.phase = "effect" =>
               \A i \in Invs : i = LastInvocation(g.history) =>
                   /\ Counted'[i] = 0 /\ r.mem.invocations[i] # "none"
                   /\ g.checkpoint.invocations[i] # "none"
        /\ \A i \in Invs : Counted'[i] <= 1
        /\ torn => \A i \in Invs : Counted'[i] # 0 => Counted[i] # 0

LEMMA WriterHistory ==
    ASSUME SessionInv, HistoryInv, NEW p \in Procs, WriterStep(p), Retains(p)
    PROVE  HistoryInv'
<1> DEFINE r == proc'[p]
           g == log'[proc[p].loc]
<1>1. /\ proc[p].phase \in Owning /\ proc[p].phase \in Writing \ {"swapped"}
      /\ r.phase \in Writing /\ r.phase \notin Switching
  BY DEF WriterStep, Owning, Writing, Open, Turn, Switching
<1>2. /\ pointer' = pointer /\ r.loc = proc[p].loc /\ proc' = [proc EXCEPT ![p] = r]
      /\ ~torn => pointer = proc[p].loc
      /\ torn => pointer # proc[p].loc
  BY <1>1 DEF SessionInv, Held, WriterStep
<1>3. Caller(p)' = r.phase
  BY <1>1 DEF Caller
<1>4. Recalls(p)'
  BY <1>1, <1>2, <1>3 DEF Recalls, Retains
<1>5. Recorded'
  <2>1. CASE ~torn
    BY <1>2, <2>1 DEF Recorded, Retains
  <2>2. CASE torn
    <3>1. log'[pointer] = log[pointer]
      <4>1. /\ log' = [log EXCEPT ![proc[p].loc] = g] /\ g \in GoodSegment
            /\ log \in Seq(GoodSegment) /\ pointer \in 1..Len(log)
        BY DEF WriterStep, SessionInv, Typed, Shaped
      <4> HIDE DEF g
      <4> QED BY <1>2, <2>2, <4>1
    <3>2. \A i \in Invs : Counted'[i] <= 1 /\ (Counted'[i] # 0 => Counted[i] # 0)
      BY <2>2 DEF Retains
    <3> QED BY <1>2, <3>1, <3>2 DEF HistoryInv, Recorded, Remembers
  <2> QED BY <2>1, <2>2
<1> HIDE DEF r
<1> QED BY <1>1, <1>2, <1>4, <1>5, OwnerRecalls

\* What the writer may start from.
LEMMA WriterRecalls ==
    ASSUME SessionInv, HistoryInv, NEW p \in Procs, proc[p].phase \in Open
    PROVE  LET r == proc[p]
               g == Written(p)
               H == ToSet(g.history)
           IN  /\ Typed /\ g = log[r.loc] /\ g.history \in Seq(Inputs)
               /\ Injective(g.history)
               /\ Remembers(H, g.checkpoint, Counted) /\ Remembers(H, r.mem, Counted)
               /\ r.phase = "started" => Remembers(H \cup {r.mem.activating}, r.extension, Counted)
               /\ r.prefix # None =>
                      /\ r.phase = "running" /\ Injective(r.prefix.history)
                      /\ ToSet(r.prefix.history) \subseteq H
                      /\ Remembers(ToSet(r.prefix.history), r.prefix.checkpoint, Counted)
               /\ r.phase = "effect" =>
                      \A i \in Invs : i = LastInvocation(g.history) =>
                          /\ Counted[i] = 0 /\ r.mem.invocations[i] # "none"
                          /\ g.checkpoint.invocations[i] # "none"
               /\ \A i \in Invs : Counted[i] <= 1
               /\ Counted \in [Invs -> Nat]
<1>1. proc[p].phase \in Writing \ {"swapped"} /\ proc[p].phase \notin Switching
  BY DEF Writing, Open, Turn, Switching
<1>2. Typed /\ Caller(p) = proc[p].phase
  BY <1>1 DEF SessionInv, Caller
<1>3. Written(p).history \in Seq(Inputs) /\ Written(p) = log[proc[p].loc]
  BY <1>2, OpenFields DEF Written
<1>4. Recalls(p) /\ Recorded /\ Counted \in [Invs -> Nat]
  BY DEF HistoryInv, SessionInv, Typed, Shaped, Counters, Counted
<1> QED BY <1>1, <1>2, <1>3, <1>4 DEF Recalls, Recorded

\* A step that leaves the log alone.
LEMMA QuietHistory ==
    ASSUME SessionInv, HistoryInv, NEW p \in Procs, WriterStep(p),
           log' = log, Counted' = Counted, NEW r, proc'[p] = r,
           Waiting(r.mem) \cap ToSet(Written(p).history) = {},
           ToSet(Written(p).history) \subseteq r.mem.receipts,
           r.mem.invocations = proc[p].mem.invocations,
           r.phase = "started" =>
               Remembers(ToSet(Written(p).history) \cup {r.mem.activating}, r.extension, Counted),
           r.prefix \in {None, proc[p].prefix}, r.prefix # None => r.phase = "running",
           r.phase # "effect"
    PROVE  HistoryInv'
<1>1. proc[p].phase \in Open
  BY DEF WriterStep
<1>2. Remembers(ToSet(Written(p).history), r.mem, Counted)
  BY <1>1, WriterRecalls DEF Remembers
<1>3. Retains(p)
  BY <1>1, <1>2, WriterRecalls DEF Retains, Written
<1> QED BY <1>3, WriterHistory

LEMMA AppendedSegment ==
    ASSUME Typed, NEW p \in Procs, proc[p].phase \in Open, NEW inputs \in Seq(Inputs),
           NEW c \in Good, Appends(p, inputs, c)
    PROVE  /\ log'[proc[p].loc].history = Written(p).history \o inputs
           /\ log'[proc[p].loc].checkpoint = c
<1> DEFINE g == [history |-> Written(p).history \o inputs, checkpoint |-> c]
<1>1. g \in GoodSegment /\ g.history = Written(p).history \o inputs /\ g.checkpoint = c
  BY OpenFields, ConcatProperties DEF GoodSegment
<1>2. proc[p].loc \in 1..Len(log) /\ log \in Seq(GoodSegment)
  BY OpenFields DEF Typed, Shaped
<1>3. log' = [log EXCEPT ![proc[p].loc] = g]
  BY <1>2 DEF Appends, Written
<1> HIDE DEF g
<1>4. log'[proc[p].loc] = g
  BY <1>1, <1>2, <1>3, ExceptSeq
<1> QED BY <1>1, <1>4

LEMMA PersistedSegment ==
    ASSUME Typed, NEW p \in Procs, proc[p].phase \in Open, NEW c \in Good, Persists(p, c)
    PROVE  /\ log'[proc[p].loc].history = Written(p).history
           /\ log'[proc[p].loc].checkpoint = c
<1>1. Appends(p, <<>>, c) /\ <<>> \in Seq(Inputs)
  BY DEF Persists
<1>2. Written(p).history \o <<>> = Written(p).history
  BY OpenFields, ConcatEmptySeq
<1> QED BY <1>1, <1>2, AppendedSegment

\* A step that saves the new memory.
LEMMA SavedHistory ==
    ASSUME SessionInv, HistoryInv, NEW p \in Procs, WriterStep(p),
           Counted' = Counted, NEW r, proc'[p] = r, Persists(p, r.mem),
           Waiting(r.mem) \cap ToSet(Written(p).history) = {},
           ToSet(Written(p).history) \subseteq r.mem.receipts,
           \A i \in Invs : r.mem.invocations[i] = "none" => proc[p].mem.invocations[i] = "none",
           r.phase = "started" =>
               Remembers(ToSet(Written(p).history) \cup {r.mem.activating}, r.extension, Counted),
           r.prefix \in {None, proc[p].prefix}, r.prefix # None => r.phase = "running",
           r.phase = "effect" =>
               \A i \in Invs : i = Invocation(p) =>
                   Counted[i] = 0 /\ r.mem.invocations[i] # "none"
    PROVE  HistoryInv'
<1>1. proc[p].phase \in Open /\ r.mem \in Good
  BY DEF WriterStep, GoodRecord
<1>2. Remembers(ToSet(Written(p).history), r.mem, Counted)
  BY <1>1, WriterRecalls DEF Remembers
<1>3. /\ log'[proc[p].loc].history = Written(p).history
      /\ log'[proc[p].loc].checkpoint = r.mem
  BY <1>1, PersistedSegment, WriterRecalls
<1>4. Retains(p)
  BY <1>1, <1>2, <1>3, WriterRecalls DEF Retains, Invocation
<1> QED BY <1>4, WriterHistory

LEMMA AcceptNowHistory ==
    ASSUME SessionInv, HistoryInv, NEW p \in Procs, NEW s \in Subs, AcceptNow(p, s)
    PROVE  HistoryInv'
<1> DEFINE o == proc[p].mem
           m == [o EXCEPT !.activating = s, !.direct = o.direct \cup {s},
                          !.receipts = o.receipts \cup {s}]
<1>1. Typed /\ proc[p].phase \in Open /\ proc[p].phase = "idle" /\ o \in Good
  BY Fields DEF SessionInv, AcceptNow, Open
<1>2. o.activating = None /\ s \notin o.receipts /\ proc[p].prefix = None
  BY <1>1, OpenFields, WriterRecalls DEF AcceptNow, Memory
<1>3. /\ Waiting(m) = Waiting(o) \cup {s} /\ m.receipts = o.receipts \cup {s}
      /\ m.invocations = o.invocations
  BY <1>1, <1>2, NowGood, ZenonT(60)
<1>4. /\ proc'[p].mem = m /\ proc'[p].phase = "prepared" /\ proc'[p].prefix = proc[p].prefix
      /\ log' = log /\ Counted' = Counted
  BY <1>1, Fields DEF AcceptNow, Memory, GoodRecord, Typed, Shaped, Counted, tornVars
<1> HIDE DEF m
<1>5. /\ Waiting(m) \cap ToSet(Written(p).history) = {}
      /\ ToSet(Written(p).history) \subseteq m.receipts
  BY <1>1, <1>2, <1>3, WriterRecalls DEF Remembers
<1>6. WriterStep(p)
  BY <1>1, AcceptNowStep
<1> QED BY <1>2, <1>3, <1>4, <1>5, <1>6, QuietHistory

\* Accepting into the queue and withdrawing from it.
LEMMA QueueHistory ==
    ASSUME SessionInv, HistoryInv, NEW p \in Procs, WriterStep(p), NEW m \in Good,
           Persists(p, m), proc' = [proc EXCEPT ![p].mem = m], Counted' = Counted,
           Waiting(m) \cap ToSet(Written(p).history) = {},
           ToSet(Written(p).history) \subseteq m.receipts,
           m.invocations = proc[p].mem.invocations, m.activating = proc[p].mem.activating
    PROVE  HistoryInv'
<1>1. Typed /\ proc[p].phase \in Open /\ proc[p] \in GoodRecord
  BY Fields DEF SessionInv, WriterStep
<1>2. /\ proc'[p].mem = m /\ proc'[p].phase = proc[p].phase /\ proc'[p].prefix = proc[p].prefix
      /\ proc'[p].extension = proc[p].extension
  BY <1>1 DEF GoodRecord, Typed, Shaped
<1>4. proc[p].phase = "effect" =>
          \A i \in Invs : i = Invocation(p) => Counted[i] = 0 /\ m.invocations[i] # "none"
  BY <1>1, WriterRecalls DEF Invocation
<1>5. /\ proc[p].phase = "started" =>
            Remembers(ToSet(Written(p).history) \cup {m.activating}, proc[p].extension, Counted)
      /\ proc[p].prefix # None => proc[p].phase = "running"
  BY <1>1, WriterRecalls
<1> DEFINE r == proc'[p]
<1>6. /\ Persists(p, r.mem) /\ Waiting(r.mem) \cap ToSet(Written(p).history) = {}
      /\ ToSet(Written(p).history) \subseteq r.mem.receipts
      /\ \A i \in Invs : r.mem.invocations[i] = "none" => proc[p].mem.invocations[i] = "none"
      /\ r.phase = "started" =>
             Remembers(ToSet(Written(p).history) \cup {r.mem.activating}, r.extension, Counted)
      /\ r.prefix \in {None, proc[p].prefix} /\ (r.prefix # None => r.phase = "running")
      /\ r.phase = "effect" =>
             \A i \in Invs : i = Invocation(p) =>
                 Counted[i] = 0 /\ r.mem.invocations[i] # "none"
  BY <1>2, <1>4, <1>5
<1>7. proc'[p] = r
  OBVIOUS
<1> HIDE DEF r
<1> QED BY <1>6, <1>7, SavedHistory

LEMMA AcceptQueuedHistory ==
    ASSUME SessionInv, HistoryInv, NEW p \in Procs, NEW s \in Subs, AcceptQueued(p, s)
    PROVE  HistoryInv'
<1> DEFINE o == proc[p].mem
           m == [o EXCEPT !.pending = Append(o.pending, s), !.receipts = o.receipts \cup {s}]
<1>1. /\ Typed /\ proc[p].phase \in Open /\ proc[p].phase \notin {"prepared", "started"}
      /\ o \in Good
  BY Fields DEF SessionInv, AcceptQueued, Open, Turn
<1>2. o.activating = None /\ s \notin o.receipts
  BY <1>1, OpenFields DEF AcceptQueued, Memory
<1>3. /\ m \in Good /\ Waiting(m) = Waiting(o) \cup {s} /\ m.receipts = o.receipts \cup {s}
      /\ m.invocations = o.invocations /\ m.activating = None
  <2>1. m = [o EXCEPT !.pending = Append(o.pending, s), !.receipts = o.receipts \cup {s}]
    OBVIOUS
  <2> HIDE DEF m, o
  <2> QED BY <1>1, <1>2, <2>1, QueuedGood, ZenonT(60)
<1>4. Persists(p, m) /\ proc' = [proc EXCEPT ![p].mem = m] /\ Counted' = Counted
  BY DEF AcceptQueued, Memory, Counted, tornVars
<1> HIDE DEF m
<1>5. /\ Waiting(m) \cap ToSet(Written(p).history) = {}
      /\ ToSet(Written(p).history) \subseteq m.receipts
  BY <1>1, <1>2, <1>3, WriterRecalls, ZenonT(60) DEF Remembers
<1>6. WriterStep(p)
  BY <1>1, AcceptQueuedStep
<1> QED BY <1>2, <1>3, <1>4, <1>5, <1>6, QueueHistory

LEMMA AcceptNotificationHistory ==
    ASSUME SessionInv, HistoryInv, NEW p \in Procs, NEW n \in Notes, AcceptNotification(p, n)
    PROVE  HistoryInv'
<1> DEFINE o == proc[p].mem
           m == [o EXCEPT !.notifications = Append(o.notifications, n),
                          !.receipts = o.receipts \cup {n}]
<1>1. /\ Typed /\ proc[p].phase \in Open /\ o \in Good /\ n \notin o.receipts
  BY Fields DEF SessionInv, AcceptNotification, Memory
<1>3. /\ m \in Good /\ Waiting(m) = Waiting(o) \cup {n} /\ m.receipts = o.receipts \cup {n}
      /\ m.invocations = o.invocations /\ m.activating = o.activating
  <2>1. m = [o EXCEPT !.notifications = Append(o.notifications, n),
                      !.receipts = o.receipts \cup {n}]
    OBVIOUS
  <2> HIDE DEF m, o
  <2> QED BY <1>1, <2>1, NotedGood, ZenonT(60)
<1>4. Persists(p, m) /\ proc' = [proc EXCEPT ![p].mem = m] /\ Counted' = Counted
  BY DEF AcceptNotification, Memory, Counted, tornVars
<1> HIDE DEF m
<1>5. /\ Waiting(m) \cap ToSet(Written(p).history) = {}
      /\ ToSet(Written(p).history) \subseteq m.receipts
  BY <1>1, <1>3, WriterRecalls, ZenonT(60) DEF Remembers
<1>6. WriterStep(p)
  BY <1>1, AcceptNotificationStep
<1> QED BY <1>1, <1>3, <1>4, <1>5, <1>6, QueueHistory

LEMMA CancelHistory ==
    ASSUME SessionInv, HistoryInv, NEW p \in Procs, Cancel(p) \/ Clear(p)
    PROVE  HistoryInv'
<1> DEFINE o == proc[p].mem
           c(k) == [o EXCEPT !.pending = RemoveAt(o.pending, k),
                             !.direct = o.direct \ {o.pending[k]}]
           e == [o EXCEPT !.pending = <<>>, !.direct = o.direct \ ToSet(o.pending)]
<1>1. /\ Typed /\ proc[p].phase \in Open /\ proc[p].phase \notin {"prepared", "started"}
      /\ o \in Good
  BY Fields DEF SessionInv, Cancel, Clear, Withdraws
<1>2. o.activating = None /\ WriterStep(p) /\ o.pending \in Seq(Subs)
  BY <1>1, OpenFields, CancelStep, GoodFields
<1>3. PICK m : Withdraws(p, m) /\ (m = e \/ \E k \in 1..Len(o.pending) : m = c(k))
  <2>1. DOMAIN o.pending = 1..Len(o.pending)
    BY <1>2
  <2> QED BY <2>1 DEF Cancel, Clear, Memory
<1>4. /\ m \in Good /\ Waiting(m) \subseteq Waiting(o) /\ m.receipts = o.receipts
      /\ m.invocations = o.invocations /\ m.activating = o.activating
  <2>1. CASE m = e
    <3> HIDE DEF o
    <3> QED BY <1>1, <1>2, <2>1, EmptiedGood
  <2>2. CASE \E k \in 1..Len(o.pending) : m = c(k)
    <3>1. PICK k \in 1..Len(o.pending) : m = c(k)
      BY <2>2
    <3> HIDE DEF o
    <3> QED BY <1>1, <1>2, <3>1, CancelledGood
  <2> QED BY <1>3, <2>1, <2>2
<1>5. Persists(p, m) /\ proc' = [proc EXCEPT ![p].mem = m] /\ Counted' = Counted
  BY <1>3 DEF Withdraws, Counted, tornVars
<1> HIDE DEF c, e
<1>6. /\ Waiting(m) \cap ToSet(Written(p).history) = {}
      /\ ToSet(Written(p).history) \subseteq m.receipts
  BY <1>1, <1>4, WriterRecalls DEF Remembers
<1> QED BY <1>2, <1>4, <1>5, <1>6, QueueHistory

LEMMA ContinuePendingHistory ==
    ASSUME SessionInv, HistoryInv, NEW p \in Procs, ContinuePending(p)
    PROVE  HistoryInv'
<1> DEFINE m == PreparedNext(proc[p].mem)
<1>1. Typed /\ proc[p].phase \in Open /\ proc[p].phase = "idle" /\ proc[p].mem \in Good
  BY Fields DEF SessionInv, ContinuePending, Open
<1>2. proc[p].mem.activating = None /\ proc[p].mem.pending # <<>> /\ proc[p].prefix = None
  BY <1>1, OpenFields, WriterRecalls DEF ContinuePending, Memory
<1>3. /\ Waiting(m) = Waiting(proc[p].mem) /\ m.receipts = proc[p].mem.receipts
      /\ m.invocations = proc[p].mem.invocations
  BY <1>1, <1>2, PreparedGood
<1>4. /\ proc'[p].mem = m /\ proc'[p].phase = "prepared" /\ proc'[p].prefix = proc[p].prefix
      /\ log' = log /\ Counted' = Counted
  BY <1>1, Fields DEF ContinuePending, GoodRecord, Typed, Shaped, Counted, tornVars
<1> HIDE DEF m
<1>5. /\ Waiting(m) \cap ToSet(Written(p).history) = {}
      /\ ToSet(Written(p).history) \subseteq m.receipts
  BY <1>1, <1>3, WriterRecalls DEF Remembers
<1>6. WriterStep(p)
  BY <1>1, ContinuePendingStep
<1> QED BY <1>2, <1>3, <1>4, <1>5, <1>6, QuietHistory

LEMMA StartRunHistory ==
    ASSUME SessionInv, HistoryInv, NEW p \in Procs, StartRun(p)
    PROVE  HistoryInv'
<1> DEFINE o == proc[p].mem
           e == ClearedActivation(o)
           H == ToSet(Written(p).history)
<1>1. Typed /\ proc[p].phase \in Open /\ proc[p].phase = "prepared" /\ o \in Good
  BY Fields DEF SessionInv, StartRun, Open
<1>2. o.activating \in Subs /\ proc[p].prefix = None
  BY <1>1, OpenFields, WriterRecalls
<1>3. /\ Waiting(e) = Waiting(o) \ {o.activating} /\ e.receipts = o.receipts
      /\ e.invocations = o.invocations /\ o.activating \in o.receipts
  BY <1>1, <1>2, ClearedGood
<1>4. /\ proc'[p].mem = o /\ proc'[p].phase = "started" /\ proc'[p].prefix = proc[p].prefix
      /\ proc'[p].extension = e /\ log' = log /\ Counted' = Counted
  BY <1>1, Fields DEF StartRun, Memory, GoodRecord, Typed, Shaped, Counted, tornVars
<1> HIDE DEF e
<1>5. Waiting(o) \cap H = {} /\ H \subseteq o.receipts
  BY <1>1, WriterRecalls DEF Remembers
<1>6. Remembers(H \cup {o.activating}, e, Counted)
  BY <1>1, <1>3, <1>5, WriterRecalls DEF Remembers
<1>7. WriterStep(p)
  BY <1>1, StartRunStep
<1> QED BY <1>2, <1>4, <1>5, <1>6, <1>7, QuietHistory

LEMMA AbortActivationHistory ==
    ASSUME SessionInv, HistoryInv, NEW p \in Procs, AbortActivation(p)
    PROVE  HistoryInv'
<1> DEFINE o == proc[p].mem
           m == IF o.activating \in o.direct
                THEN [ClearedActivation(o) EXCEPT !.receipts = @ \ {o.activating}]
                ELSE [ClearedActivation(o) EXCEPT !.pending = <<o.activating>> \o @]
           H == ToSet(Written(p).history)
           r == proc'[p]
<1>1. Typed /\ proc[p].phase \in Open /\ proc[p].phase = "started" /\ o \in Good
  BY Fields DEF SessionInv, AbortActivation, Open
<1>2. o.activating \in Subs /\ proc[p].prefix = None
  BY <1>1, OpenFields, WriterRecalls
<1>3. /\ Waiting(m) \subseteq Waiting(o) /\ o.receipts \ {o.activating} \subseteq m.receipts
      /\ m.invocations = o.invocations /\ o.activating \in Waiting(o) /\ m \in Good
  <2> HIDE DEF o
  <2> QED BY <1>1, <1>2, AbortedGood
<1>4. /\ r.mem = m /\ r.phase = "idle" /\ r.prefix = proc[p].prefix
      /\ Counted' = Counted /\ (Persists(p, m) \/ log' = log)
  BY <1>1, Fields DEF AbortActivation, Memory, GoodRecord, Typed, Shaped, Counted, tornVars
<1> HIDE DEF m
<1>5. Waiting(o) \cap H = {} /\ H \subseteq o.receipts
  BY <1>1, WriterRecalls DEF Remembers
<1>6. Waiting(r.mem) \cap H = {} /\ H \subseteq r.mem.receipts
  BY <1>3, <1>4, <1>5
<1>7. WriterStep(p) /\ r = proc'[p]
  BY <1>1, AbortActivationStep
<1>8. /\ r.mem.invocations = o.invocations /\ r.phase = "idle" /\ r.prefix = None
      /\ Counted' = Counted /\ (Persists(p, r.mem) \/ log' = log)
  BY <1>2, <1>3, <1>4
<1> HIDE DEF r
<1>9. CASE Persists(p, r.mem)
  BY <1>6, <1>7, <1>8, <1>9, SavedHistory, ZenonT(60)
<1>10. CASE log' = log
  BY <1>6, <1>7, <1>8, <1>10, QuietHistory
<1> QED BY <1>8, <1>9, <1>10

\* An input x that the history does not hold becomes its last.
LEMMA LongerHistory ==
    ASSUME NEW h \in Seq(Inputs), Injective(h), NEW x \in Inputs, x \notin ToSet(h)
    PROVE  Injective(h \o <<x>>) /\ ToSet(h \o <<x>>) = ToSet(h) \cup {x}
<1>1. h \o <<x>> = Append(h, x)
  BY AppendIsConcat
<1>2. Injective(Append(h, x)) /\ ToSet(Append(h, x)) = ToSet(h) \cup {x}
  BY PushBack
<1> QED BY <1>1, <1>2, Zenon

LEMMA CommitInputHistory ==
    ASSUME SessionInv, HistoryInv, NEW p \in Procs, CommitInput(p)
    PROVE  HistoryInv'
<1> DEFINE o == proc[p].mem
           s == o.activating
           m == ClearedActivation(o)
           e == proc[p].extension
           h == Written(p).history
           H == ToSet(h)
           r == proc'[p]
           g == log'[proc[p].loc]
<1>1. /\ Typed /\ proc[p].phase \in Open /\ proc[p].phase = "started" /\ o \in Good
      /\ e \in Good
  BY Fields DEF SessionInv, CommitInput, Open
<1>2. s \in Subs /\ s \in Inputs /\ <<s>> \in Seq(Inputs)
  BY <1>1, OpenFields DEF Inputs
<1>3. /\ Waiting(m) = Waiting(o) \ {s} /\ m.receipts = o.receipts
      /\ m.invocations = o.invocations /\ s \in o.receipts /\ s \in Waiting(o)
  BY <1>1, <1>2, ClearedGood
<1>4. /\ r.mem = m /\ r.phase \in {"running", "invoking"}
      /\ r.prefix \in {None, Written(p)} /\ (r.prefix # None => r.phase = "running")
      /\ Counted' = Counted /\ Appends(p, <<s>>, e)
  BY <1>1, Fields DEF CommitInput, Memory, GoodRecord, Typed, Shaped, Counted, tornVars
<1>5. /\ Remembers(H, Written(p).checkpoint, Counted) /\ Remembers(H, o, Counted)
      /\ Remembers(H \cup {s}, e, Counted) /\ h \in Seq(Inputs) /\ Injective(h)
      /\ \A i \in Invs : Counted[i] <= 1
  BY <1>1, WriterRecalls
<1>6. g.history = h \o <<s>> /\ g.checkpoint = e
  BY <1>1, <1>2, <1>4, AppendedSegment
<1>7. s \notin H
  BY <1>3, <1>5 DEF Remembers
<1>8. Injective(g.history) /\ ToSet(g.history) = H \cup {s}
  BY <1>2, <1>5, <1>6, <1>7, LongerHistory
<1>9. Remembers(H \cup {s}, r.mem, Counted)
  BY <1>3, <1>4, <1>5 DEF Remembers
<1>10. WriterStep(p)
  BY <1>1, CommitInputStep
<1>11. Retains(p)
  <2> HIDE DEF m, e, H
  <2> QED BY <1>4, <1>5, <1>6, <1>8, <1>9 DEF Retains, H
<1> QED BY <1>10, <1>11, WriterHistory

LEMMA CommitNotificationHistory ==
    ASSUME SessionInv, HistoryInv, NEW p \in Procs, CommitNotification(p)
    PROVE  HistoryInv'
<1> DEFINE o == proc[p].mem
           n == Head(o.notifications)
           m == [o EXCEPT !.notifications = Tail(o.notifications)]
           h == Written(p).history
           H == ToSet(h)
           r == proc'[p]
           g == log'[proc[p].loc]
<1>1. /\ Typed /\ proc[p].phase \in Open /\ proc[p].phase = "running" /\ o \in Good
      /\ o.notifications # <<>>
  BY Fields DEF SessionInv, CommitNotification, Open, Turn, Memory
<1>3. /\ m \in Good /\ Waiting(m) = Waiting(o) \ {n} /\ m.receipts = o.receipts
      /\ m.invocations = o.invocations /\ n \in o.receipts /\ n \in Waiting(o)
      /\ n \in Notes
  <2> HIDE DEF o
  <2> QED BY <1>1, DeliveredGood
<1>2. n \in Inputs /\ <<n>> \in Seq(Inputs)
  BY <1>3 DEF Inputs
<1>4. /\ r.mem = m /\ r.phase = "running" /\ r.prefix = proc[p].prefix
      /\ Counted' = Counted /\ Appends(p, <<n>>, m)
  BY <1>1, Fields DEF CommitNotification, Memory, GoodRecord, Typed, Shaped, Counted, tornVars
<1>5. /\ Remembers(H, o, Counted) /\ h \in Seq(Inputs) /\ Injective(h)
      /\ \A i \in Invs : Counted[i] <= 1
      /\ proc[p].prefix # None =>
             /\ Injective(proc[p].prefix.history)
             /\ ToSet(proc[p].prefix.history) \subseteq H
             /\ Remembers(ToSet(proc[p].prefix.history), proc[p].prefix.checkpoint, Counted)
  BY <1>1, WriterRecalls
<1>6. g.history = h \o <<n>> /\ g.checkpoint = m
  BY <1>1, <1>2, <1>3, <1>4, AppendedSegment, ZenonT(60)
<1> HIDE DEF m
<1>7. n \notin H
  BY <1>3, <1>5 DEF Remembers
<1>8. Injective(g.history) /\ ToSet(g.history) = H \cup {n}
  BY <1>2, <1>5, <1>6, <1>7, LongerHistory
<1>9. Remembers(H \cup {n}, m, Counted)
  BY <1>3, <1>5 DEF Remembers
<1>10. WriterStep(p)
  BY <1>1, CommitNotificationStep
<1>11. Retains(p)
  <2> HIDE DEF H
  <2> QED BY <1>4, <1>5, <1>6, <1>8, <1>9 DEF Retains
<1> QED BY <1>10, <1>11, WriterHistory

LEMMA StartInvocationHistory ==
    ASSUME SessionInv, HistoryInv, NEW p \in Procs, StartInvocation(p)
    PROVE  HistoryInv'
<1> DEFINE o == proc[p].mem
           i == Invocation(p)
           f == [o.invocations EXCEPT ![i] = "started"]
           m == [o EXCEPT !.invocations = f]
           H == ToSet(Written(p).history)
           r == proc'[p]
<1>1. Typed /\ proc[p].phase \in Open /\ proc[p].phase = "invoking" /\ o \in Good
  BY Fields DEF SessionInv, StartInvocation, Open, Turn
<1>2. proc[p].prefix = None
  BY <1>1, WriterRecalls
<1>3. f \in [Invs -> {"none", "started", "succeeded", "failed"}] /\ o.invocations[i] = "none"
  <2> HIDE DEF i
  <2> QED BY <1>1, GoodFields DEF StartInvocation, Memory, i
<1>4. /\ Waiting(m) = Waiting(o) /\ m.receipts = o.receipts /\ m.invocations = f
  <2> HIDE DEF f, o
  <2> QED BY <1>1, <1>3, InvokedGood
<1>5. /\ r.mem = m /\ r.phase = "effect" /\ r.prefix = proc[p].prefix
      /\ Counted' = Counted /\ Persists(p, m)
  <2> HIDE DEF i
  <2> QED BY <1>1, Fields DEF StartInvocation, Memory, GoodRecord, Typed, Shaped, i, Counted, tornVars
<1> HIDE DEF m
<1>6. /\ Waiting(r.mem) \cap H = {} /\ H \subseteq r.mem.receipts /\ Persists(p, r.mem)
      /\ r.phase = "effect" /\ r.prefix = None
  BY <1>1, <1>2, <1>4, <1>5, WriterRecalls DEF Remembers
<1>7. \A j \in Invs : /\ r.mem.invocations[j] = "none" => o.invocations[j] = "none"
                      /\ j = i => Counted[j] = 0 /\ r.mem.invocations[j] # "none"
  <2>1. \A j \in Invs : Counted[j] # 0 => o.invocations[j] # "none"
    BY <1>1, WriterRecalls DEF Remembers
  <2>2. o.invocations \in [Invs -> {"none", "started", "succeeded", "failed"}]
    BY <1>1, GoodFields
  <2> HIDE DEF i, r
  <2> QED BY <1>3, <1>4, <1>5, <2>1, <2>2
<1>8. WriterStep(p) /\ proc'[p] = r
  BY <1>1, StartInvocationStep
<1>9. Counted' = Counted
  BY <1>5
<1> HIDE DEF r
<1> QED BY <1>6, <1>7, <1>8, <1>9, SavedHistory, ZenonT(60)

LEMMA PerformInvocationHistory ==
    ASSUME SessionInv, HistoryInv, NEW p \in Procs, PerformInvocation(p)
    PROVE  HistoryInv'
<1> DEFINE i == Invocation(p)
           g == Written(p)
           H == ToSet(g.history)
           r == proc'[p]
<1>1. Typed /\ proc[p].phase \in Open /\ proc[p].phase = "effect"
  BY DEF SessionInv, PerformInvocation, Open, Turn
<1>2. /\ effects' = [effects EXCEPT ![i] = effects[i] + 1] /\ log' = log
      /\ astray' = IF torn THEN [astray EXCEPT ![i] = TRUE] ELSE astray
      /\ r.mem = proc[p].mem /\ r.phase = "recording" /\ r.prefix = proc[p].prefix
  BY <1>1, Fields DEF PerformInvocation, GoodRecord, Typed, Shaped
<1>3. /\ Injective(g.history) /\ proc[p].prefix = None
      /\ Remembers(H, g.checkpoint, Counted) /\ Remembers(H, proc[p].mem, Counted)
      /\ \A j \in Invs : j = i =>
             /\ Counted[j] = 0 /\ proc[p].mem.invocations[j] # "none"
             /\ g.checkpoint.invocations[j] # "none"
      /\ \A j \in Invs : Counted[j] <= 1
  BY <1>1, WriterRecalls DEF Invocation
<1> HIDE DEF i
<1>4. effects \in [Invs -> Nat] /\ astray \in [Invs -> BOOLEAN]
  BY <1>1 DEF Typed, Shaped, Counters
<1>5. ASSUME NEW j \in Invs
      PROVE  /\ Counted'[j] <= 1
             /\ Counted'[j] # 0 => Counted[j] # 0 \/ (j = i /\ ~torn)
  <2>1. /\ Counted[j] = IF astray[j] THEN 0 ELSE effects[j]
        /\ Counted'[j] = IF astray'[j] THEN 0 ELSE effects'[j]
    BY DEF Counted
  <2>2. CASE j # i
    <3>1. effects'[j] = effects[j]
      BY <1>2, <1>4, <2>2
    <3>2. astray'[j] = astray[j]
      BY <1>2, <1>4, <2>2
    <3>3. Counted'[j] = Counted[j]
      BY <2>1, <3>1, <3>2
    <3> QED BY <1>3, <3>3
  <2>3. CASE j = i /\ torn
    <3>1. astray'[j] = TRUE
      BY <1>2, <1>4, <2>3
    <3> QED BY <2>1, <3>1
  <2>4. CASE j = i /\ ~torn
    <3>1. astray'[j] = astray[j]
      BY <1>2, <2>4
    <3>2. effects'[j] = effects[j] + 1
      BY <1>2, <1>4, <2>4
    <3>3. CASE astray[j]
      BY <2>1, <2>4, <3>1, <3>3
    <3>4. CASE ~astray[j]
      <4>1. Counted'[j] = effects[j] + 1 /\ effects[j] = 0
        BY <1>3, <2>1, <2>4, <3>1, <3>2, <3>4
      <4> QED BY <2>4, <4>1
    <3> QED BY <3>3, <3>4
  <2> QED BY <2>2, <2>3, <2>4
<1>6. ASSUME NEW j \in Invs, Counted'[j] # 0
      PROVE  proc[p].mem.invocations[j] # "none" /\ g.checkpoint.invocations[j] # "none"
  BY <1>3, <1>5, <1>6 DEF Remembers
<1>7. Remembers(H, g.checkpoint, Counted') /\ Remembers(H, proc[p].mem, Counted')
  BY <1>3, <1>6 DEF Remembers
<1>8. Retains(p)
  BY <1>2, <1>3, <1>5, <1>7 DEF Retains, Written
<1>9. WriterStep(p)
  BY <1>1, PerformInvocationStep
<1> QED BY <1>8, <1>9, WriterHistory

LEMMA RecordInvocationHistory ==
    ASSUME SessionInv, HistoryInv, NEW p \in Procs, RecordInvocation(p)
    PROVE  HistoryInv'
<1> DEFINE o == proc[p].mem
           i == Invocation(p)
           u(v) == IF o.invocations[i] \in {"none", "started"} THEN v ELSE o.invocations[i]
           f(v) == [o.invocations EXCEPT ![i] = u(v)]
           n(v) == [o EXCEPT !.invocations = f(v)]
           H == ToSet(Written(p).history)
           r == proc'[p]
<1>1. /\ Results(p) \subseteq {"succeeded", "failed"}
      /\ Results(p) # {} => proc[p].phase \in {"recording", "invoking"}
  BY DEF Results
<1>2. PICK v \in Results(p) :
          \/ /\ Persists(p, n(v))
             /\ proc' = [proc EXCEPT
                    ![p].phase = IF v = "succeeded" THEN "running" ELSE "idle",
                    ![p].mem = n(v)]
             /\ Counted' = Counted
          \/ /\ proc' = [proc EXCEPT ![p].phase = "idle"]
             /\ log' = log /\ Counted' = Counted
  <2> HIDE DEF i
  <2> QED BY DEF RecordInvocation, Memory, i, Counted, tornVars
<1>3. /\ proc[p].phase \in Open /\ proc[p].phase \in {"recording", "invoking"}
      /\ Typed /\ o \in Good
  BY <1>1, <1>2, Fields DEF Open, Turn, SessionInv
<1>4. /\ proc[p].prefix = None /\ Waiting(o) \cap H = {} /\ H \subseteq o.receipts
  BY <1>3, WriterRecalls DEF Remembers
<1>5. WriterStep(p) /\ r = proc'[p] /\ Counted' = Counted
  BY <1>2, <1>3, RecordInvocationStep
<1> DEFINE m == n(v)
<1>6. /\ Waiting(m) = Waiting(o) /\ m.receipts = o.receipts
      /\ \A j \in Invs : m.invocations[j] = "none" => o.invocations[j] = "none"
  <2> DEFINE fv == f(v)
  <2>1. o.invocations \in [Invs -> {"none", "started", "succeeded", "failed"}]
    BY <1>3, GoodFields
  <2>2. /\ fv \in [Invs -> {"none", "started", "succeeded", "failed"}]
        /\ \A j \in Invs : fv[j] = "none" => o.invocations[j] = "none"
    <3> HIDE DEF o, i
    <3>1. i \in Invs => u(v) \in {"started", "succeeded", "failed"}
      BY <1>1, <1>2, <2>1
    <3> DEFINE uv == u(v)
    <3>2. fv = [o.invocations EXCEPT ![i] = uv] /\ (i \in Invs => uv \in {"started", "succeeded", "failed"})
      BY <3>1
    <3> HIDE DEF fv, uv
    <3> QED BY <2>1, <3>2
  <2>3. m = [o EXCEPT !.invocations = fv]
    OBVIOUS
  <2> HIDE DEF fv, m, o
  <2> QED BY <1>3, <2>2, <2>3, InvokedGood
<1> HIDE DEF m
<1>7. CASE /\ Persists(p, m)
           /\ proc' = [proc EXCEPT
                  ![p].phase = IF v = "succeeded" THEN "running" ELSE "idle", ![p].mem = m]
  <2>1. r.mem = m /\ r.phase \in {"running", "idle"} /\ r.prefix = None
    BY <1>3, <1>4, <1>7, Fields DEF GoodRecord, Typed, Shaped
  <2>2. /\ Persists(p, r.mem) /\ Waiting(r.mem) \cap H = {} /\ H \subseteq r.mem.receipts
        /\ \A j \in Invs : r.mem.invocations[j] = "none" => o.invocations[j] = "none"
    BY <1>4, <1>6, <1>7, <2>1
  <2> HIDE DEF r
  <2> QED BY <1>5, <2>1, <2>2, SavedHistory
<1>8. CASE proc' = [proc EXCEPT ![p].phase = "idle"] /\ log' = log
  <2>1. r.mem = o /\ r.phase = "idle" /\ r.prefix = None
    BY <1>3, <1>4, <1>8, Fields DEF GoodRecord, Typed, Shaped
  <2>2. Waiting(r.mem) \cap H = {} /\ H \subseteq r.mem.receipts
    BY <1>4, <2>1
  <2> HIDE DEF r
  <2> QED BY <1>5, <1>8, <2>1, <2>2, QuietHistory
<1> QED BY <1>2, <1>7, <1>8 DEF m

LEMMA StatusHistory ==
    ASSUME SessionInv, HistoryInv, NEW p \in Procs,
           Activity(p) \/ Resume(p) \/ ChangeStatus(p)
    PROVE  HistoryInv'
<1> DEFINE r == proc'[p]
           H == ToSet(Written(p).history)
<1>1. Typed /\ proc[p] \in GoodRecord /\ proc \in [Procs -> GoodRecord]
  BY Fields DEF SessionInv, Typed, Shaped
<1>2. /\ proc[p].phase \in {"running", "paused", "idle", "compacting"} /\ log' = log
      /\ Counted' = Counted /\ (proc[p].phase # "running" => ~Activity(p))
  BY DEF Activity, Resume, ChangeStatus, Counted, tornVars
<1>3. proc[p].phase \in Open
  BY <1>2 DEF Open, Turn
<1>4. /\ proc[p].prefix # None => proc[p].phase = "running"
      /\ Waiting(proc[p].mem) \cap H = {} /\ H \subseteq proc[p].mem.receipts
  BY <1>3, WriterRecalls DEF Remembers
<1>5. /\ r.mem = proc[p].mem /\ r.phase \in {"running", "idle", "compacting"}
      /\ r.prefix = None
  <2>1. CASE Activity(p)
    BY <1>1, <2>1 DEF Activity, GoodRecord
  <2>2. CASE Resume(p)
    BY <1>1, <1>4, <2>2 DEF Resume, GoodRecord
  <2>3. CASE ChangeStatus(p)
    <3>1. PICK change \in {<<"paused", "idle">>, <<"idle", "compacting">>,
                           <<"compacting", "idle">>} :
              proc[p].phase = change[1] /\ proc' = [proc EXCEPT ![p].phase = change[2]]
      BY <2>3 DEF ChangeStatus
    <3>2. change[1] # "running" /\ change[2] \in {"idle", "compacting"}
      OBVIOUS
    <3> QED BY <1>1, <1>4, <3>1, <3>2 DEF GoodRecord
  <2> QED BY <2>1, <2>2, <2>3
<1>6. WriterStep(p) /\ r = proc'[p]
  BY <1>1, StatusStep
<1>7. Waiting(r.mem) \cap H = {} /\ H \subseteq r.mem.receipts
  BY <1>4, <1>5
<1> HIDE DEF r
<1> QED BY <1>2, <1>5, <1>6, <1>7, QuietHistory

LEMMA EndTurnHistory ==
    ASSUME SessionInv, HistoryInv, NEW p \in Procs, EndTurn(p)
    PROVE  HistoryInv'
<1> DEFINE r == proc'[p]
           o == proc[p].mem
           H == ToSet(Written(p).history)
<1>1. /\ Typed /\ proc[p] \in GoodRecord /\ proc \in [Procs -> GoodRecord] /\ o \in Good
      /\ proc[p].phase \in Open /\ proc[p].phase = "running"
      /\ log' = log /\ Counted' = Counted
  BY Fields DEF SessionInv, Typed, Shaped, EndTurn, Open, Turn, Counted, tornVars
<1>2. o.activating = None /\ Waiting(o) \cap H = {} /\ H \subseteq o.receipts
  BY <1>1, OpenFields, WriterRecalls DEF Remembers
<1>3. /\ Waiting(r.mem) = Waiting(o) /\ r.mem.receipts = o.receipts
      /\ r.mem.invocations = o.invocations
      /\ r.phase \in {"prepared", "idle", "paused"} /\ r.prefix = None
  <2>1. CASE /\ o.pending # <<>>
             /\ proc' = [proc EXCEPT ![p].phase = "prepared", ![p].prefix = None,
                                     ![p].mem = PreparedNext(@)]
    <3>1. r.mem = PreparedNext(o) /\ r.phase = "prepared" /\ r.prefix = None
      BY <1>1, <2>1 DEF GoodRecord
    <3> QED BY <1>1, <1>2, <2>1, <3>1, PreparedGood
  <2>2. CASE \/ proc' = [proc EXCEPT ![p].phase = "idle", ![p].prefix = None]
             \/ proc' = [proc EXCEPT ![p].phase = "paused", ![p].prefix = None]
    BY <1>1, <2>2 DEF GoodRecord
  <2> QED BY <2>1, <2>2 DEF EndTurn, Memory
<1>4. WriterStep(p) /\ r = proc'[p]
  BY <1>1, EndTurnStep
<1>5. Waiting(r.mem) \cap H = {} /\ H \subseteq r.mem.receipts
  BY <1>2, <1>3
<1> HIDE DEF r
<1> QED BY <1>1, <1>3, <1>4, <1>5, QuietHistory

LEMMA RollBackHistory ==
    ASSUME SessionInv, HistoryInv, NEW p \in Procs, RollBack(p)
    PROVE  HistoryInv'
<1> DEFINE r == proc'[p]
           x == proc[p].prefix
           g == log'[proc[p].loc]
           G == ToSet(x.history)
<1>1. /\ Typed /\ proc[p] \in GoodRecord /\ proc \in [Procs -> GoodRecord]
      /\ proc[p].phase \in Open /\ proc[p].phase = "running" /\ x # None
      /\ log' = [log EXCEPT ![proc[p].loc] = x] /\ Counted' = Counted
  BY Fields DEF SessionInv, Typed, Shaped, RollBack, Open, Turn, Counted, tornVars
<1>2. r.mem = proc[p].mem /\ r.phase = "idle" /\ r.prefix = None
  BY <1>1 DEF RollBack, GoodRecord
<1>3. /\ Remembers(ToSet(Written(p).history), proc[p].mem, Counted)
      /\ Injective(x.history) /\ G \subseteq ToSet(Written(p).history)
      /\ Remembers(G, x.checkpoint, Counted)
      /\ \A i \in Invs : Counted[i] <= 1
  BY <1>1, WriterRecalls
<1>4. x \in GoodSegment /\ proc[p].loc \in 1..Len(log) /\ log \in Seq(GoodSegment)
  BY <1>1, Fields, OpenFields DEF Typed, Shaped
<1>5. g = x
  BY <1>1, <1>4, ExceptSeq
<1>6. Remembers(G, r.mem, Counted)
  BY <1>2, <1>3 DEF Remembers
<1>7. Retains(p)
  BY <1>1, <1>2, <1>3, <1>5, <1>6 DEF Retains
<1>8. WriterStep(p)
  BY <1>1, RollBackStep
<1> QED BY <1>7, <1>8, WriterHistory

\* A prefix of a history without repetition has none.
LEMMA ShorterHistory ==
    ASSUME NEW h \in Seq(Inputs), Injective(h), NEW k \in 1..Len(h)
    PROVE  /\ Injective(SubSeq(h, 1, k - 1))
           /\ ToSet(SubSeq(h, 1, k - 1)) \subseteq ToSet(h)
<1> DEFINE t == SubSeq(h, 1, k - 1)
<1>1. /\ t \in Seq(Inputs) /\ Len(t) = k - 1 /\ \A j \in 1..k - 1 : t[j] = h[j]
  <2>1. \A j \in 1..k - 1 : h[j] \in Inputs
    OBVIOUS
  <2>2. /\ t \in Seq(Inputs) /\ Len(t) = (IF 1 <= k - 1 THEN k - 1 - 1 + 1 ELSE 0)
        /\ \A j \in 1..k - 1 - 1 + 1 : t[j] = h[1 + j - 1]
    BY <2>1, SubSeqProperties
  <2> QED BY <2>2
<1> HIDE DEF t
<1>2. ToSet(t) = {t[j] : j \in 1..Len(t)} /\ ToSet(h) = {h[j] : j \in 1..Len(h)}
  BY <1>1, ToSetIs
<1>3. Len(h) \in Nat /\ \A j \in 1..Len(t) : j \in 1..Len(h)
  BY <1>1
<1> QED BY <1>1, <1>2, <1>3 DEF Injective, t

LEMMA RewindHistory ==
    ASSUME SessionInv, HistoryInv, NEW p \in Procs, Rewind(p)
    PROVE  HistoryInv'
<1> DEFINE h == Written(p).history
<1>1. /\ Typed /\ proc[p].phase \in Open /\ proc[p].phase = "idle" /\ proc' = proc
      /\ Counted' = Counted
  BY DEF SessionInv, Rewind, Open, Counted, tornVars
<1>2. /\ Remembers(ToSet(h), proc[p].mem, Counted) /\ Injective(h) /\ h \in Seq(Inputs)
      /\ proc[p].prefix = None /\ \A i \in Invs : Counted[i] <= 1
  BY <1>1, WriterRecalls
<1>3. PICK k \in 1..Len(h) :
          log' = [log EXCEPT ![proc[p].loc] =
                     [history |-> SubSeq(@.history, 1, k - 1), checkpoint |-> Memory(p)]]
  <2>1. DOMAIN h = 1..Len(h)
    BY <1>2
  <2> QED BY <2>1 DEF Rewind
<1> DEFINE t == SubSeq(h, 1, k - 1)
           g == [history |-> t, checkpoint |-> proc[p].mem]
<1>4. Injective(t) /\ ToSet(t) \subseteq ToSet(h)
  BY <1>2, ShorterHistory
<1>5. g \in GoodSegment /\ g.history = t /\ g.checkpoint = proc[p].mem
  <2>1. t \in Seq(Inputs)
    BY <1>2, SubSeqProperties
  <2> QED BY <1>1, <2>1, Fields DEF GoodSegment
<1>6. proc[p].loc \in 1..Len(log) /\ log \in Seq(GoodSegment)
  BY <1>1, OpenFields DEF Typed, Shaped
<1>7. log' = [log EXCEPT ![proc[p].loc] = g]
  BY <1>3, <1>6 DEF Written, Memory
<1> HIDE DEF g, t
<1>8. log'[proc[p].loc] = g
  BY <1>5, <1>6, <1>7, ExceptSeq
<1>9. Remembers(ToSet(t), proc[p].mem, Counted)
  BY <1>2, <1>4 DEF Remembers
<1>10. Retains(p)
  BY <1>1, <1>2, <1>4, <1>5, <1>8, <1>9 DEF Retains
<1>11. WriterStep(p)
  BY <1>1, RewindStep
<1> QED BY <1>10, <1>11, WriterHistory

LEMMA WriterStepHistory ==
    ASSUME SessionInv, HistoryInv, NEW p \in Procs, Admission(p) \/ TurnStep(p)
    PROVE  HistoryInv'
<1>1. CASE Admission(p)
  BY <1>1, AcceptNowHistory, AcceptQueuedHistory, AcceptNotificationHistory, CancelHistory
     DEF Admission
<1>2. CASE TurnStep(p)
  BY <1>2, ContinuePendingHistory, StartRunHistory, AbortActivationHistory,
     CommitInputHistory, StartInvocationHistory, PerformInvocationHistory,
     RecordInvocationHistory, CommitNotificationHistory, StatusHistory, RollBackHistory,
     EndTurnHistory, RewindHistory DEF TurnStep
<1> QED BY <1>1, <1>2

LEMMA StageHistory ==
    ASSUME SessionInv, HistoryInv, NEW p \in Procs, StageSegment(p)
    PROVE  HistoryInv'
<1> DEFINE r == proc'[p]
           o == proc[p]
<1>1. /\ Typed /\ o.phase \in Open /\ o.phase \in Owning /\ o.phase \in Writing \ {"swapped"}
      /\ o.phase \in {"started", "running", "compacting"}
  BY DEF SessionInv, StageSegment, Open, Turn, Owning, Writing
<1>2. /\ o.loc \in 1..Len(log) /\ Len(log) \in Nat /\ proc' = [proc EXCEPT ![p] = r]
      /\ \A k \in 1..Len(log) : log'[k] = log[k]
      /\ r.phase = "staged" /\ r.next = Len(log) + 1 /\ r.loc = o.loc /\ r.mem = o.mem
  BY <1>1, StageTyped
<1>3. /\ r.resume = o.phase /\ r.prefix = None /\ r.extension = o.extension
  BY <1>1, Fields DEF StageSegment, GoodRecord, Typed, Shaped
<1>4. log'[r.next].history = Written(p).history
  <2> DEFINE g == [Written(p) EXCEPT !.checkpoint = o.mem]
  <2>1. g \in GoodSegment /\ g.history = Written(p).history
    BY <1>1, OpenFields, Fields DEF GoodSegment
  <2>2. log' = Append(log, g) /\ log \in Seq(GoodSegment)
    BY <1>1 DEF StageSegment, Memory, Typed, Shaped
  <2> HIDE DEF g
  <2>3. log'[Len(log) + 1] = g
    BY <2>1, <2>2, AppendProperties
  <2> QED BY <1>2, <2>1, <2>3
<1>5. /\ pointer' = pointer /\ Counted' = Counted /\ pointer \in 1..Len(log)
  BY <1>1 DEF StageSegment, Typed, Shaped, Counted, tornVars
<1>6. log'[o.loc] = log[o.loc] /\ Written(p) = log[o.loc] /\ log'[pointer] = log[pointer]
  BY <1>2, <1>5 DEF Written
<1>7. "staged" \in Switching /\ "staged" \in Writing /\ Caller(p)' = o.phase
  BY <1>2, <1>3 DEF Switching, Writing, Caller
<1>8. /\ Injective(Written(p).history) /\ Remembers(ToSet(Written(p).history), o.mem, Counted)
      /\ Remembers(ToSet(Written(p).history), Written(p).checkpoint, Counted)
      /\ o.phase = "started" =>
             Remembers(ToSet(Written(p).history) \cup {o.mem.activating}, o.extension, Counted)
  BY <1>1, WriterRecalls
<1> HIDE DEF r
<1>9. Recalls(p)'
  <2>1. proc'[p] = r
    BY DEF r
  <2> QED BY <1>2, <1>3, <1>4, <1>5, <1>6, <1>7, <1>8, <2>1 DEF Recalls
<1>10. Recorded'
  BY <1>5, <1>6 DEF HistoryInv, Recorded
<1> QED BY <1>1, <1>2, <1>9, <1>10, OwnerRecalls

\* A step of a switch after which p writes, or goes on switching, in a Segment
\* with the same history.
LEMMA MovedHistory ==
    ASSUME SessionInv, HistoryInv, NEW p \in Procs, NEW r, SwitchMove(p, r),
           proc[p].phase \in Switching, r.phase \in Writing \ {"effect"},
           r.extension = proc[p].extension, r.prefix = proc[p].prefix,
           log[r.loc].history = log[proc[p].loc].history,
           Remembers(ToSet(log[r.loc].history), log[r.loc].checkpoint, Counted),
           r.phase \in Switching => log[r.next].history = log[proc[p].loc].history,
           (IF r.phase \in Switching THEN r.resume ELSE r.phase) = proc[p].resume,
           Recorded'
    PROVE  HistoryInv'
<1>1. proc[p].phase \in Writing /\ proc[p].phase \in Owning /\ proc[p].phase # "running"
  BY DEF Writing, Owning, Switching
<1>2. /\ proc'[p] = r /\ proc' = [proc EXCEPT ![p] = r] /\ r.mem = proc[p].mem
      /\ log' = log /\ Counted' = Counted
  BY DEF SessionInv, Typed, Shaped, SwitchMove, Counted
<1>3. Caller(p)' = proc[p].resume /\ Caller(p) = proc[p].resume
  BY <1>2 DEF Caller
<1>4. Recalls(p)
  BY DEF HistoryInv
<1>5. Recalls(p)'
  BY <1>1, <1>2, <1>3, <1>4 DEF Recalls
<1> QED BY <1>1, <1>2, <1>5, OwnerRecalls

LEMMA SwitchHistory ==
    ASSUME SessionInv, HistoryInv, NEW p \in Procs, SwitchStep(p)
    PROVE  HistoryInv'
<1>0. Typed /\ proc[p] \in GoodRecord /\ Recorded
  BY Fields DEF SessionInv, HistoryInv
<1>1. CASE StageSegment(p)
  BY <1>1, StageHistory
<1>2. ASSUME proc[p].phase \in Switching
      PROVE  /\ log[proc[p].next].history = log[proc[p].loc].history
             /\ proc[p].prefix = None
             /\ Injective(log[proc[p].loc].history)
             /\ Remembers(ToSet(log[proc[p].loc].history), proc[p].mem, Counted)
             /\ Remembers(ToSet(log[proc[p].loc].history), log[proc[p].loc].checkpoint, Counted)
             /\ proc[p].phase = "swapped" => pointer = proc[p].next
             /\ proc[p].resume \in Writing \ (Switching \cup {"effect"})
             /\ {"begun", "swapped"} \subseteq Switching /\ Switching \subseteq Writing
             /\ "effect" \notin Switching
             /\ proc[p].phase \in {"staged", "begun"} =>
                    log[proc[p].next].checkpoint = proc[p].mem
  <2>1. proc[p].phase \in Writing /\ Recalls(p) /\ Held(p)
    BY <1>2 DEF Writing, HistoryInv, SessionInv
  <2>2. proc[p].resume \in {"started", "running", "compacting"}
    BY <1>0, <1>2, SwitchingFields
  <2>3. proc[p].phase # "running"
    BY <1>2 DEF Switching
  <2>4. /\ {"begun", "swapped"} \subseteq Switching /\ Switching \subseteq Writing
        /\ "effect" \notin Switching
        /\ proc[p].resume \in Writing \ (Switching \cup {"effect"})
    BY <2>2 DEF Writing, Open, Turn, Switching
  <2> QED BY <1>2, <2>1, <2>3, <2>4 DEF Recalls, Held
<1>3. CASE BeginActivation(p)
  <2> DEFINE r == [proc[p] EXCEPT !.phase = "begun"]
  <2>1. /\ SwitchMove(p, r) /\ r.phase = "begun" /\ r.loc = proc[p].loc
        /\ r.next = proc[p].next /\ r.resume = proc[p].resume
    BY <1>0, <1>3, BeginMove
  <2>2. r.extension = proc[p].extension /\ r.prefix = proc[p].prefix
    BY <1>0 DEF GoodRecord
  <2> HIDE DEF r
  <2>3. proc[p].phase \in Switching /\ pointer' = pointer /\ log' = log /\ Counted' = Counted
    BY <1>3 DEF BeginActivation, Switching, Counted, tornVars
  <2>4. Recorded'
    BY <1>0, <2>3 DEF Recorded
  <2> QED BY <1>2, <2>1, <2>2, <2>3, <2>4, MovedHistory
<1>4. CASE SwapMetadata(p)
  <2>1. /\ proc[p].phase \in Switching /\ proc[p].phase = "begun"
        /\ pointer' = proc[p].next /\ log' = log /\ Counted' = Counted
    BY <1>4 DEF SwapMetadata, Switching, Counted, tornVars
  <2>2. Recorded'
    BY <1>0, <1>2, <2>1 DEF Recorded
  <2> DEFINE a == [proc[p] EXCEPT !.phase = "swapped"]
             b == [proc[p] EXCEPT !.phase = proc[p].resume, !.next = 1, !.resume = "off"]
  <2>3. \/ /\ SwitchMove(p, a) /\ a.phase = "swapped" /\ a.loc = proc[p].loc
           /\ a.next = proc[p].next /\ a.resume = proc[p].resume
        \/ SwitchMove(p, b) /\ b.phase = proc[p].resume /\ b.loc = proc[p].loc
    BY <1>0, <1>4, SwapMove
  <2>4. /\ a.extension = proc[p].extension /\ a.prefix = proc[p].prefix
        /\ b.extension = proc[p].extension /\ b.prefix = proc[p].prefix
    BY <1>0 DEF GoodRecord
  <2> HIDE DEF a, b
  <2>5. CASE /\ SwitchMove(p, a) /\ a.phase = "swapped" /\ a.loc = proc[p].loc
             /\ a.next = proc[p].next /\ a.resume = proc[p].resume
    BY <1>2, <2>1, <2>2, <2>4, <2>5, MovedHistory
  <2>6. CASE SwitchMove(p, b) /\ b.phase = proc[p].resume /\ b.loc = proc[p].loc
    BY <1>2, <2>1, <2>2, <2>4, <2>6, MovedHistory
  <2> QED BY <2>3, <2>5, <2>6
<1>5. CASE CommitActivation(p)
  <2> DEFINE r == [proc[p] EXCEPT !.phase = proc[p].resume, !.loc = proc[p].next,
                                  !.next = 1, !.resume = "off"]
  <2>1. SwitchMove(p, r) /\ r.phase = proc[p].resume /\ r.loc = proc[p].next
    BY <1>0, <1>5, CommitMove
  <2>2. r.extension = proc[p].extension /\ r.prefix = proc[p].prefix
    BY <1>0 DEF GoodRecord
  <2> HIDE DEF r
  <2>3. /\ proc[p].phase \in Switching /\ pointer' = pointer /\ log' = log
        /\ Counted' = Counted /\ proc[p].phase = "swapped"
    BY <1>5 DEF CommitActivation, Switching, Counted, tornVars
  <2>4. Recorded' /\ Remembers(ToSet(log[r.loc].history), log[r.loc].checkpoint, Counted)
    BY <1>0, <1>2, <2>1, <2>3 DEF Recorded
  <2> QED BY <1>2, <2>1, <2>2, <2>3, <2>4, MovedHistory
<1>6. CASE FailClosed(p)
  <2> DEFINE r == [proc[p] EXCEPT !.phase = "closed"]
  <2>1. SwitchMove(p, r) /\ r.phase = "closed"
    BY <1>0, <1>6, CloseMove
  <2>2. r.prefix = proc[p].prefix
    BY <1>0 DEF GoodRecord
  <2> HIDE DEF r
  <2>3. proc[p].phase \in Switching /\ pointer' = pointer /\ log' = log /\ Counted' = Counted
    BY <1>6 DEF FailClosed, Switching, Counted, tornVars
  <2>4. "closed" \notin Writing /\ proc' = [proc EXCEPT ![p] = r]
    BY <2>1 DEF Writing, Open, Turn, Switching, SwitchMove
  <2> QED BY <1>2, <2>1, <2>2, <2>3, <2>4, SilentStep
<1>7. CASE SwitchFails(p)
  <2> DEFINE r == [proc[p] EXCEPT !.phase = proc[p].resume, !.next = 1, !.resume = "off"]
  <2>1. SwitchMove(p, r) /\ r.phase = proc[p].resume /\ r.loc = proc[p].loc
    BY <1>0, <1>7, FailsMove
  <2>2. r.extension = proc[p].extension /\ r.prefix = proc[p].prefix
    BY <1>0 DEF GoodRecord
  <2> HIDE DEF r
  <2>3. proc[p].phase \in Switching /\ pointer' = pointer /\ log' = log /\ Counted' = Counted
    BY <1>7 DEF SwitchFails, Switching, Counted, tornVars
  <2>4. Recorded'
    BY <1>0, <2>3 DEF Recorded
  <2> QED BY <1>2, <2>1, <2>2, <2>3, <2>4, MovedHistory
<1> QED BY <1>1, <1>3, <1>4, <1>5, <1>6, <1>7 DEF SwitchStep

LEMMA LifecycleHistory ==
    ASSUME SessionInv, HistoryInv, NEW p \in Procs, Lifecycle(p)
    PROVE  HistoryInv'
<1>0. Typed /\ proc[p] \in GoodRecord /\ proc \in [Procs -> GoodRecord]
  BY Fields DEF SessionInv, Typed, Shaped
<1>1. {"off", "dead", "candidate", "installed", "validated"} \cap Writing = {}
  BY DEF Writing, Open, Turn, Switching
<1>2. ASSUME proc[p].phase \notin Writing PROVE proc[p].prefix = None
  BY <1>2, SilentRecalls DEF HistoryInv
<1>3. CASE Stop(p) \/ Crash(p)
  <2> DEFINE r == [Fresh EXCEPT !.phase = "dead"]
  <2>1. r.phase = "dead" /\ r.prefix = None /\ proc' = [proc EXCEPT ![p] = r]
    BY <1>3 DEF Stop, Crash, Forget, Fresh
  <2>2. UNCHANGED <<log, pointer, Counted>>
    BY <1>3 DEF Stop, Crash, Counted, tornVars
  <2> HIDE DEF r
  <2> QED BY <1>1, <2>1, <2>2, SilentStep
<1>4. CASE ReadCandidate(p) \/ Install(p) \/ CheckAfter(p)
  <2> DEFINE r == proc'[p]
  <2>1. /\ proc[p].phase \in {"off", "candidate", "installed"}
        /\ UNCHANGED <<log, pointer, Counted>>
    BY <1>4 DEF ReadCandidate, Install, CheckAfter, Counted, tornVars
  <2>2. /\ r.phase \in {"candidate", "installed", "validated"} /\ r.prefix = proc[p].prefix
        /\ proc' = [proc EXCEPT ![p] = r]
    BY <1>0, <1>4 DEF ReadCandidate, Install, CheckAfter, GoodRecord
  <2> HIDE DEF r
  <2> QED BY <1>1, <1>2, <2>1, <2>2, SilentStep
<1>5. CASE Discard(p)
  <2>1. proc' = [proc EXCEPT ![p] = Fresh] /\ UNCHANGED <<log, pointer, Counted>>
    BY <1>5 DEF Discard, Counted, tornVars
  <2>2. Fresh.phase = "off" /\ Fresh.prefix = None
    BY DEF Fresh
  <2> QED BY <1>1, <2>1, <2>2, SilentStep
<1>6. CASE Activate(p)
  <2> DEFINE m == Restored(proc[p].source)
             n == IF m.pending = <<>> THEN m ELSE PreparedNext(m)
             r == proc'[p]
             g == log[pointer]
  <2>1. /\ proc[p].phase = "validated" /\ log' = log /\ Counted' = Counted
        /\ pointer' = proc[p].loc
    BY <1>6 DEF Activate, Counted, tornVars
  <2>2. /\ pointer = proc[p].loc /\ g = proc[p].source /\ Recorded
        /\ proc[p].phase \in Owning /\ proc[p].prefix = None
    BY <1>1, <1>2, <2>1 DEF SessionInv, Held, HistoryInv, Owning
  <2>3. g.checkpoint \in Good
    BY <1>0, <2>2, Fields DEF GoodSegment
  <2>4. /\ m \in Good /\ m.activating = None /\ Waiting(m) = Waiting(g.checkpoint)
        /\ m.receipts = g.checkpoint.receipts /\ m.invocations = g.checkpoint.invocations
    BY <2>2, <2>3, RestoredGood DEF Restored
  <2> HIDE DEF m
  <2>5. /\ Waiting(n) = Waiting(g.checkpoint) /\ n.receipts = g.checkpoint.receipts
        /\ n.invocations = g.checkpoint.invocations
    BY <2>4, PreparedGood
  <2>6. /\ r.mem = n /\ r.phase \in {"idle", "prepared"} /\ r.prefix = None
        /\ r.loc = proc[p].loc /\ proc' = [proc EXCEPT ![p] = r]
    BY <1>0, <1>6, <2>2 DEF Activate, GoodRecord, m
  <2> HIDE DEF n, r
  <2>7. Remembers(ToSet(g.history), n, Counted)
    BY <2>2, <2>5 DEF Recorded, Remembers
  <2>8. /\ r.phase \in Writing /\ r.phase \notin Switching
        /\ proc'[p] = r /\ Caller(p)' = r.phase
    BY <2>6 DEF Writing, Open, Switching, Caller, r
  <2>9. Recalls(p)'
    BY <2>1, <2>2, <2>6, <2>7, <2>8 DEF Recalls, Recorded
  <2>10. Recorded'
    BY <2>1, <2>2 DEF Recorded
  <2> QED BY <2>2, <2>6, <2>9, <2>10, OwnerRecalls
<1> QED BY <1>3, <1>4, <1>5, <1>6 DEF Lifecycle

LEMMA InitHistory == Init => HistoryInv
<1> SUFFICES ASSUME Init PROVE HistoryInv
  OBVIOUS
<1>1. /\ log = <<EmptySegment>> /\ pointer = 1 /\ Counted = [i \in Invs |-> 0]
      /\ log[1] = EmptySegment /\ EmptySegment.history = <<>>
      /\ EmptySegment.checkpoint = NoPending
  BY DEF Init, EmptySegment, Counted
<1>2. Remembers({}, NoPending, Counted) /\ ToSet(<<>>) = {} /\ Injective(<<>>)
  BY <1>1, ToSetEmpty DEF Remembers, Injective
<1>3. Recorded
  <2>1. log[pointer] = EmptySegment
    BY <1>1
  <2>2. \A i \in Invs : Counted[i] <= 1
    BY <1>1
  <2>3. ToSet(log[pointer].history) = {} /\ Injective(log[pointer].history)
        /\ log[pointer].checkpoint = NoPending
    BY <1>1, <1>2, <2>1
  <2> QED BY <1>2, <2>2, <2>3 DEF Recorded
<1>4. /\ proc[First].phase = "idle" /\ proc[First].loc = 1 /\ proc[First].mem = NoPending
      /\ \A p \in Procs : proc[p].prefix = None
      /\ \A p \in Procs \ {First} : proc[p].phase = "off"
  BY FirstAssumption DEF Init, Fresh
<1>5. "off" \notin Writing /\ "idle" \notin Switching \cup {"started", "effect"}
  BY DEF Writing, Open, Turn, Switching
<1>6. \A p \in Procs \ {First} : Recalls(p)
  BY <1>4, <1>5, SilentRecalls
<1>7. Recalls(First)
  <2>1. Caller(First) = "idle" /\ log[proc[First].loc] = EmptySegment
    BY <1>1, <1>4, <1>5 DEF Caller
  <2> QED BY <1>1, <1>2, <1>4, <1>5, <2>1, FirstAssumption DEF Recalls
<1> QED BY <1>3, <1>6, <1>7 DEF HistoryInv

LEMMA NextHistory ==
    SessionInv /\ HistoryInv /\ [Next]_vars => HistoryInv'
<1> SUFFICES ASSUME SessionInv, HistoryInv, [Next]_vars PROVE HistoryInv'
  OBVIOUS
<1>1. CASE Next
  BY <1>1, WriterStepHistory, SwitchHistory, LifecycleHistory DEF Next
<1>2. CASE UNCHANGED vars
  BY <1>2 DEF vars, HistoryInv, Recorded, Recalls, Caller, Counted
<1> QED BY <1>1, <1>2

LEMMA GoodIsPending == Good \subseteq Pending
BY DEF Good

LEMMA TypedImplies == Typed => TypeOK
<1>1. GoodSegment \subseteq Segment
  BY GoodIsPending DEF GoodSegment, Segment, Inputs
<1>2. GoodRecord \subseteq ProcRecord
  BY <1>1, GoodIsPending DEF GoodRecord, ProcRecord
<1> QED BY <1>1, <1>2 DEF Typed, Shaped, Counters, TypeOK, Inputs

\* Whatever its processes do, the Session keeps its types: no process names a
\* Segment that was never created, and no history holds anything but inputs.
THEOREM SessionTyped == Spec => []TypeOK
<1>1. Init => Typed
  BY InitInv DEF SessionInv
<1> QED BY <1>1, NextTyped, TypedImplies, PTL DEF Spec

\* The inductive invariant: one process holds the row, it writes where the row
\* points and, unless its own metadata write failed after the rename, where the
\* metadata points; memory, log and debt agree.
THEOREM SessionInvariant ==
    Spec => []SessionInv
<1>1. SessionInv /\ [Next]_vars => SessionInv'
  BY NextInv
<1> QED BY <1>1, InitInv, PTL DEF Spec

\* At most one process can write, and it writes where the allocation row points;
\* the metadata points elsewhere only while a process lives that made it so by a
\* write that failed after the rename (compare_and_swap_active, FsWorkerStore::write).
THEOREM OneWriterPublished ==
    Spec => []WriterIsPublished
<1>1. SessionInv => WriterIsPublished
  <2> SUFFICES ASSUME SessionInv, NEW p \in Procs
               PROVE  /\ proc[p].phase \in Writing =>
                             /\ alloc.owner = p /\ alloc.segment = proc[p].loc
                             /\ \/ pointer = IF proc[p].phase = "swapped" THEN proc[p].next
                                             ELSE proc[p].loc
                                \/ torn
                      /\ proc[p].phase = "closed" =>
                             \A q \in Procs \ {p} : proc[q].phase \notin Writing
    BY DEF WriterIsPublished, SessionInv, Accounted
  <2>1. Writing \subseteq Owning /\ "closed" \in Owning
    BY DEF Owning
  <2> QED BY <2>1, OnlyOwner DEF SessionInv, Held
<1> QED BY <1>1, SessionInvariant, PTL

\* A restart queues exactly what was promised and neither run nor withdrawn,
\* for any number of processes, inputs and Segments; the exceptions are those of
\* the property: a checkpoint still to be written, and a torn metadata write.
THEOREM RestartKeepsPromises ==
    Spec => []RestartOwesTheSame
<1>1. SessionInv => RestartOwesTheSame
  <2> SUFFICES ASSUME SessionInv PROVE RestartOwesTheSame
    OBVIOUS
  <2>1. log[pointer] \in GoodSegment
    BY DEF SessionInv, Typed, Shaped
  <2> QED BY <2>1, RestoredQueue DEF SessionInv, Accounted, RestartOwesTheSame
<1> QED BY <1>1, SessionInvariant, PTL

\* The invariant about the past: the active Segment, the memory of the writer, the
\* extension of its next input (commit of the input), the prefix a rollback would
\* restore (rollback_empty_turn) and the replacement Segment of a switch all know
\* the receipts of what was run and the start of every invocation performed, but
\* for those performed while the metadata named another Segment.
THEOREM HistoryInvariant ==
    Spec => []HistoryInv
<1>1. SessionInv /\ HistoryInv /\ [Next]_vars => HistoryInv'
  BY NextHistory
<1> QED BY <1>1, InitHistory, SessionInvariant, PTL DEF Spec

\* No Feature invocation is performed twice, whatever crash, rollback, rewind,
\* Segment switch or second submission with the same id comes between: a start is
\* durable before the handler runs, and no older checkpoint can come back
\* (execute_feature_invocations).  The exception is that of the property.
THEOREM EffectsHappenOnce ==
    Spec => []InvokedOnce
<1>1. HistoryInv => InvokedOnce
  BY DEF HistoryInv, Recorded, InvokedOnce, Counted
<1> QED BY <1>1, HistoryInvariant, PTL

\* No input is twice in the active history, and none is there and still
\* recoverable from the queue, for any number of processes, inputs and Segments
\* (commit of input and extension in one entry, receipts, rewind_to).
THEOREM InputsRunOnce ==
    Spec => []InputOnce
<1>1. SessionInv /\ HistoryInv => InputOnce
  <2> SUFFICES ASSUME SessionInv, HistoryInv PROVE InputOnce
    OBVIOUS
  <2> DEFINE g == log[pointer]
  <2>0. g \in GoodSegment
    BY DEF SessionInv, Typed, Shaped
  <2>1. g \in GoodSegment /\ g.history \in Seq(Inputs) /\ g.checkpoint \in Good
    BY <2>0 DEF GoodSegment
  <2>2. Injective(g.history) /\ ToSet(g.history) \cap Waiting(g.checkpoint) = {}
    BY DEF HistoryInv, Recorded, Remembers
  <2>3. Queued(Restored(g)) = Queued(g.checkpoint)
    BY <2>1, RestoredQueue
  <2>4. Queued(g.checkpoint) \subseteq Waiting(g.checkpoint)
    BY DEF Queued, Waiting
  <2>5. DOMAIN g.history = 1..Len(g.history)
    BY <2>1
  <2> QED BY <2>2, <2>3, <2>4, <2>5 DEF InputOnce, Injective
<1> QED BY <1>1, HistoryInvariant, SessionInvariant, PTL

=============================================================================
