-------------------------- MODULE MailChatProofs --------------------------
(***************************************************************************)
(* Proofs about MailChat and the search it extends, MailSearch, by one     *)
(* inductive invariant in two parts.                                       *)
(*                                                                         *)
(* Of a search: its documents name all it requires; while it has the room  *)
(* and the cache to itself, the vectors it needs are there; the cache is   *)
(* over its limit only while somebody is evicting.  Of sessions: which     *)
(* object a page holds, that what is free is empty, and that a page nobody *)
(* disturbs continues the conversation it shows.                           *)
(***************************************************************************)
EXTENDS MailChat, FiniteSetTheorems, SequenceTheorems, TLAPS

-----------------------------------------------------------------------------
(* Sequences.                                                              *)

(* The last elements of t, one by one.                                     *)
EndsWith(t, s) ==
  Len(s) <= Len(t) /\ \A i \in 1 .. Len(s) : s[i] = t[Len(t) - Len(s) + i]

LEMMA SuffixIs ==
  ASSUME NEW S, NEW s \in Seq(S), NEW t \in Seq(S)
  PROVE  IsSuffix(s, t) <=> EndsWith(t, s)
<1>. DEFINE rs == Reverse(s)
            rt == Reverse(t)
<1>1. /\ rs \in Seq(S) /\ Len(rs) = Len(s) /\ \A i \in 1 .. Len(s) : rs[i] = s[Len(s) - i + 1]
  BY DEF Reverse
<1>2. /\ rt \in Seq(S) /\ Len(rt) = Len(t) /\ \A i \in 1 .. Len(t) : rt[i] = t[Len(t) - i + 1]
  BY DEF Reverse
<1>3. IsSuffix(s, t) <=> Len(rs) <= Len(rt) /\ SubSeq(rs, 1, Len(rs)) = SubSeq(rt, 1, Len(rs))
  BY DEF IsSuffix, IsPrefix
<1>. HIDE DEF rs, rt
<1>4. SUFFICES ASSUME Len(s) <= Len(t)
               PROVE  SubSeq(rs, 1, Len(rs)) = SubSeq(rt, 1, Len(rs)) <=>
                        \A i \in 1 .. Len(s) : s[i] = t[Len(t) - Len(s) + i]
  BY <1>1, <1>2, <1>3 DEF EndsWith
<1>5. /\ SubSeq(rs, 1, Len(rs)) \in Seq(S) /\ Len(SubSeq(rs, 1, Len(rs))) = Len(s)
      /\ \A i \in 1 .. Len(s) : SubSeq(rs, 1, Len(rs))[i] = rs[i]
  BY <1>1, SubSeqProperties
<1>6. /\ SubSeq(rt, 1, Len(rs)) \in Seq(S) /\ Len(SubSeq(rt, 1, Len(rs))) = Len(s)
      /\ \A i \in 1 .. Len(s) : SubSeq(rt, 1, Len(rs))[i] = rt[i]
  BY <1>1, <1>2, <1>4, SubSeqProperties
<1>7. SubSeq(rs, 1, Len(rs)) = SubSeq(rt, 1, Len(rs)) <=> \A i \in 1 .. Len(s) : rs[i] = rt[i]
  BY <1>5, <1>6, SeqEqual
<1>8. ASSUME \A i \in 1 .. Len(s) : rs[i] = rt[i], NEW i \in 1 .. Len(s)
      PROVE  s[i] = t[Len(t) - Len(s) + i]
  <2>1. Len(s) - i + 1 \in 1 .. Len(s) /\ Len(s) - i + 1 \in 1 .. Len(t)
    BY <1>4
  <2>2. PICK j \in 1 .. Len(s) : j = Len(s) - i + 1 /\ j \in 1 .. Len(t)
    BY <2>1
  <2>3. Len(s) - j + 1 = i /\ Len(t) - j + 1 = Len(t) - Len(s) + i
    BY <2>2
  <2>4. rs[j] = s[Len(s) - j + 1] /\ rt[j] = t[Len(t) - j + 1]
    BY <1>1, <1>2, <2>2
  <2>. QED  BY <1>8, <2>3, <2>4
<1>9. ASSUME \A i \in 1 .. Len(s) : s[i] = t[Len(t) - Len(s) + i], NEW i \in 1 .. Len(s)
      PROVE  rs[i] = rt[i]
  <2>0. Len(s) - i + 1 \in 1 .. Len(s) /\ i \in 1 .. Len(t)
    BY <1>4
  <2>1. PICK j \in 1 .. Len(s) : j = Len(s) - i + 1
    BY <2>0
  <2>2. Len(t) - Len(s) + j = Len(t) - i + 1
    BY <2>1
  <2>3. rs[i] = s[j] /\ rt[i] = t[Len(t) - i + 1] /\ s[j] = t[Len(t) - Len(s) + j]
    BY <1>1, <1>2, <1>9, <2>0, <2>1
  <2>. QED  BY <2>2, <2>3
<1>. QED  BY <1>7, <1>8, <1>9

LEMMA SuffixTransitive ==
  ASSUME NEW S, NEW r \in Seq(S), NEW s \in Seq(S), NEW t \in Seq(S),
         IsSuffix(r, s), IsSuffix(s, t)
  PROVE  IsSuffix(r, t)
<1>1. EndsWith(s, r) /\ EndsWith(t, s)  BY SuffixIs
<1>2. EndsWith(t, r)
  <2>1. Len(r) <= Len(t)  BY <1>1 DEF EndsWith
  <2>2. ASSUME NEW i \in 1 .. Len(r)  PROVE r[i] = t[Len(t) - Len(r) + i]
    <3>1. r[i] = s[Len(s) - Len(r) + i] /\ Len(s) - Len(r) + i \in 1 .. Len(s)
      BY <1>1 DEF EndsWith
    <3>2. s[Len(s) - Len(r) + i] = t[Len(t) - Len(s) + (Len(s) - Len(r) + i)]
      BY <1>1, <3>1 DEF EndsWith
    <3>. QED  BY <3>1, <3>2
  <2>. QED  BY <2>1, <2>2 DEF EndsWith
<1>. QED  BY <1>2, SuffixIs

LEMMA EmptyIsSuffix ==
  ASSUME NEW S, NEW t \in Seq(S)
  PROVE  IsSuffix(<<>>, t)
<1>1. <<>> \in Seq(S) /\ EndsWith(t, <<>>)  BY DEF EndsWith
<1>. QED  BY <1>1, SuffixIs

LEMMA LastOfIs ==
  ASSUME NEW S, NEW t \in Seq(S), NEW n \in Nat \ {0}
  PROVE  /\ LastOf(n, t) \in Seq(S) /\ Len(LastOf(n, t)) <= n
         /\ IsSuffix(LastOf(n, t), t)
         /\ \A s \in Seq(S) : IsSuffix(s, t) /\ Len(s) <= n => IsSuffix(s, LastOf(n, t))
<1>. DEFINE k == IF Len(t) > n THEN Len(t) - n + 1 ELSE 1
            l == LastOf(n, t)
<1>1. k \in Nat /\ 1 <= k /\ k <= Len(t) + 1 /\ Len(t) - k + 1 <= n /\ Len(t) \in Nat
  OBVIOUS
<1>1a. Len(t) - k + 1 = n \/ k = 1
  OBVIOUS
<1>2. l = SubSeq(t, k, Len(t))
  BY DEF LastOf
<1>. HIDE DEF k, l
<1>3. /\ l \in Seq(S) /\ Len(l) = Len(t) - k + 1
      /\ \A i \in 1 .. Len(l) : l[i] = t[Len(t) - Len(l) + i]
  <2>1. CASE k <= Len(t)
    BY <1>1, <1>2, <2>1, SubSeqProperties
  <2>2. CASE k = Len(t) + 1
    <3>1. l = <<>>  BY <1>1, <1>2, <2>2, SubSeqEmpty
    <3>. QED  BY <1>1, <2>2, <3>1
  <2>. QED  BY <1>1, <2>1, <2>2
<1>4. EndsWith(t, l)
  BY <1>1, <1>3 DEF EndsWith
<1>5. ASSUME NEW s \in Seq(S), EndsWith(t, s), Len(s) <= n  PROVE EndsWith(l, s)
  <2>1. Len(s) <= Len(l)
    BY <1>1, <1>1a, <1>3, <1>5 DEF EndsWith
  <2>2. ASSUME NEW i \in 1 .. Len(s)  PROVE s[i] = l[Len(l) - Len(s) + i]
    <3>1. Len(l) - Len(s) + i \in 1 .. Len(l)  BY <1>3, <2>1
    <3>2. l[Len(l) - Len(s) + i] = t[Len(t) - Len(l) + (Len(l) - Len(s) + i)]
      BY <1>3, <3>1
    <3>. QED  BY <1>3, <1>5, <3>2 DEF EndsWith
  <2>. QED  BY <2>1, <2>2 DEF EndsWith
<1>6. IsSuffix(l, t) /\ \A s \in Seq(S) : IsSuffix(s, t) /\ Len(s) <= n => IsSuffix(s, l)
  BY <1>3, <1>4, <1>5, SuffixIs
<1>. QED  BY <1>1, <1>3, <1>6 DEF l

LEMMA EndIsSuffix ==
  ASSUME NEW S, NEW s \in Seq(S), NEW t \in Seq(S)
  PROVE  s \o t \in Seq(S) /\ IsSuffix(t, s \o t)
<1>1. /\ s \o t \in Seq(S) /\ Len(s \o t) = Len(s) + Len(t)
      /\ \A i \in 1 .. Len(t) : (s \o t)[Len(s) + i] = t[i]
  BY ConcatProperties
<1>2. EndsWith(s \o t, t)
  BY <1>1 DEF EndsWith
<1>. QED  BY <1>1, <1>2, SuffixIs

(* Elements of a list.                                                     *)
Unique(s) == \A i, j \in DOMAIN s : s[i] = s[j] => i = j

LEMMA RemoveAtIs ==
  ASSUME NEW S, NEW s \in Seq(S), NEW i \in DOMAIN s
  PROVE  /\ RemoveAt(s, i) \in Seq(S) /\ Len(RemoveAt(s, i)) = Len(s) - 1
         /\ \A k \in 1 .. Len(s) - 1 : RemoveAt(s, i)[k] = IF k < i THEN s[k] ELSE s[k + 1]
<1>. DEFINE p == SubSeq(s, 1, i - 1)
            q == SubSeq(s, i + 1, Len(s))
<1>1. p \in Seq(S) /\ Len(p) = i - 1 /\ \A k \in 1 .. i - 1 : p[k] = s[k]
  BY SubSeqProperties
<1>2. q \in Seq(S) /\ Len(q) = Len(s) - i /\ \A k \in 1 .. Len(s) - i : q[k] = s[k + i]
  BY SubSeqProperties
<1>3. RemoveAt(s, i) = p \o q
  BY DEF RemoveAt
<1>. HIDE DEF p, q
<1>4. /\ p \o q \in Seq(S) /\ Len(p \o q) = Len(s) - 1
      /\ \A k \in 1 .. Len(s) - 1 :
           (p \o q)[k] = IF k <= Len(p) THEN p[k] ELSE q[k - Len(p)]
  BY <1>1, <1>2, ConcatProperties
<1>5. ASSUME NEW k \in 1 .. Len(s) - 1
      PROVE  (p \o q)[k] = IF k < i THEN s[k] ELSE s[k + 1]
  <2>1. CASE k < i
    BY <1>1, <1>4, <2>1
  <2>2. CASE ~(k < i)
    <3>1. i \in Nat /\ Len(s) \in Nat /\ k \in Nat /\ 1 <= i /\ i <= Len(s) /\ k <= Len(s) - 1 /\ i <= k
      BY <2>2
    <3>2. k - Len(p) \in 1 .. Len(s) - i /\ ~(k <= Len(p))
      BY <1>1, <3>1
    <3>3. PICK j \in 1 .. Len(s) - i : j = k - Len(p)
      BY <3>2
    <3>4. j + i = k + 1
      BY <1>1, <3>1, <3>3
    <3>5. (p \o q)[k] = q[j]
      BY <1>4, <3>2, <3>3
    <3>6. q[j] = s[j + i]
      BY <1>2
    <3>. QED  BY <2>2, <3>4, <3>5, <3>6
  <2>. QED  BY <2>1, <2>2
<1>. QED  BY <1>3, <1>4, <1>5

LEMMA Removed ==
  ASSUME NEW S, NEW s \in Seq(S), Unique(s), NEW i \in DOMAIN s
  PROVE  Unique(RemoveAt(s, i)) /\ ToSet(RemoveAt(s, i)) = ToSet(s) \ {s[i]}
<1>. DEFINE r == RemoveAt(s, i)
<1>1. /\ r \in Seq(S) /\ Len(r) = Len(s) - 1
      /\ \A k \in 1 .. Len(s) - 1 : r[k] = IF k < i THEN s[k] ELSE s[k + 1]
  BY RemoveAtIs
<1>. HIDE DEF r
<1>2. DOMAIN r = 1 .. Len(s) - 1 /\ DOMAIN s = 1 .. Len(s) /\ Len(s) \in Nat
  BY <1>1
<1>3. ASSUME NEW k \in DOMAIN r  PROVE \E m \in DOMAIN s \ {i} : r[k] = s[m] /\ k = IF m < i THEN m ELSE m - 1
  <2>1. CASE k < i  BY <1>1, <1>2, <2>1
  <2>2. CASE ~(k < i)
    <3>1. k + 1 \in DOMAIN s \ {i} /\ ~(k + 1 < i) /\ r[k] = s[k + 1]
      BY <1>1, <1>2, <2>2
    <3>. QED  BY <1>2, <3>1
  <2>. QED  BY <2>1, <2>2
<1>4. ASSUME NEW m \in DOMAIN s \ {i}  PROVE \E k \in DOMAIN r : r[k] = s[m]
  <2>1. CASE m < i  BY <1>1, <1>2, <2>1
  <2>2. CASE ~(m < i)
    <3>1. PICK k \in DOMAIN r : k = m - 1 /\ ~(k < i) /\ k + 1 = m
      BY <1>2, <2>2
    <3>. QED  BY <1>1, <1>2, <3>1
  <2>. QED  BY <2>1, <2>2
<1>5. Unique(r)
  BY <1>3 DEF Unique
<1>6. ToSet(r) = ToSet(s) \ {s[i]}
  <2>1. ASSUME NEW x \in ToSet(r)  PROVE x \in ToSet(s) \ {s[i]}
    BY <1>3, <2>1 DEF ToSet, Unique
  <2>2. ASSUME NEW x \in ToSet(s) \ {s[i]}  PROVE x \in ToSet(r)
    BY <1>4, <2>2 DEF ToSet
  <2>. QED  BY <2>1, <2>2
<1>. QED  BY <1>5, <1>6 DEF r

LEMMA Appended ==
  ASSUME NEW S, NEW s \in Seq(S), NEW x \in S
  PROVE  /\ ToSet(Append(s, x)) = ToSet(s) \cup {x}
         /\ Unique(s) /\ x \notin ToSet(s) => Unique(Append(s, x))
<1>. DEFINE t == Append(s, x)
            n == Len(s)
<1>1. /\ DOMAIN t = 1 .. n + 1 /\ DOMAIN s = 1 .. n /\ n \in Nat
      /\ \A i \in 1 .. n : t[i] = s[i]
      /\ t[n + 1] = x
  BY AppendProperties
<1>. HIDE DEF t, n
<1>2. /\ n + 1 \in DOMAIN t /\ DOMAIN s \subseteq DOMAIN t /\ n + 1 \notin DOMAIN s
      /\ \A i \in DOMAIN t : i \in DOMAIN s \/ i = n + 1
  BY <1>1
<1>3. ToSet(t) = ToSet(s) \cup {x}
  <2>1. \A y \in ToSet(t) : y \in ToSet(s) \cup {x}
    BY <1>1, <1>2 DEF ToSet
  <2>2. x \in ToSet(t)
    BY <1>1, <1>2 DEF ToSet
  <2>3. ASSUME NEW y \in ToSet(s)  PROVE y \in ToSet(t)
    <3>1. PICK i \in DOMAIN s : y = s[i]  BY <2>3 DEF ToSet
    <3>. QED  BY <1>1, <1>2, <3>1 DEF ToSet
  <2>. QED  BY <2>1, <2>2, <2>3
<1>4. ASSUME Unique(s), x \notin ToSet(s), NEW i \in DOMAIN t, NEW j \in DOMAIN t, t[i] = t[j]
      PROVE  i = j
  <2>1. \A k \in DOMAIN s : t[k] = s[k] /\ s[k] # x
    BY <1>1, <1>4 DEF ToSet
  <2>. QED  BY <1>1, <1>2, <1>4, <2>1 DEF Unique
<1>. QED  BY <1>3, <1>4 DEF Unique, t

LEMMA TailIs ==
  ASSUME NEW S, NEW s \in Seq(S), Unique(s), s # <<>>
  PROVE  /\ Tail(s) \in Seq(S) /\ Len(Tail(s)) = Len(s) - 1
         /\ Unique(Tail(s)) /\ Head(s) \in S
         /\ Head(s) \in ToSet(s) /\ ToSet(Tail(s)) = ToSet(s) \ {Head(s)}
<1>1. /\ Tail(s) \in Seq(S) /\ Len(Tail(s)) = Len(s) - 1 /\ Head(s) = s[1] /\ Head(s) \in S
      /\ \A i \in 1 .. Len(s) - 1 : Tail(s)[i] = s[i + 1]
  BY HeadTailProperties
<1>1a. 1 \in DOMAIN s
  BY EmptySeq
<1>2. /\ RemoveAt(s, 1) \in Seq(S) /\ Len(RemoveAt(s, 1)) = Len(s) - 1
      /\ \A k \in 1 .. Len(s) - 1 : RemoveAt(s, 1)[k] = IF k < 1 THEN s[k] ELSE s[k + 1]
  BY <1>1a, RemoveAtIs
<1>2a. \A k \in 1 .. Len(s) - 1 : RemoveAt(s, 1)[k] = Tail(s)[k]
  BY <1>1, <1>2
<1>3. Tail(s) = RemoveAt(s, 1)
  BY <1>1, <1>2, <1>2a, SeqEqual
<1>4. Unique(Tail(s)) /\ ToSet(Tail(s)) = ToSet(s) \ {s[1]}
  BY <1>1a, <1>3, Removed
<1>. QED  BY <1>1, <1>1a, <1>4 DEF ToSet

LEMMA ConcatSet ==
  ASSUME NEW S, NEW s \in Seq(S), NEW t \in Seq(S)
  PROVE  s \o t \in Seq(S) /\ ToSet(s \o t) = ToSet(s) \cup ToSet(t)
<1>1. s \o t \in Seq(S) /\ Range(s \o t) = Range(s) \cup Range(t)
  BY RangeConcatenation, ConcatProperties
<1>. QED  BY <1>1 DEF ToSet, Range

(* SetToSeq lists every element of a finite set.                           *)
LEMMA Listed ==
  ASSUME NEW S, IsFiniteSet(S)
  PROVE  SetToSeq(S) \in Seq(S) /\ ToSet(SetToSeq(S)) = S
<1>. DEFINE n == Cardinality(S)
            l == SetToSeq(S)
<1>1. n \in Nat /\ ExistsBijection(1 .. n, S)
  BY FS_CardinalityType, FS_NatBijection
<1>2. PICK f \in [1 .. n -> S] : IsInjective(f)
  BY <1>1 DEF ExistsBijection, Bijection, Injection, IsInjective
<1>3. l \in [1 .. n -> S] /\ IsInjective(l)
  BY <1>2 DEF SetToSeq
<1>. HIDE DEF l, n
<1>4. l \in Seq(S)
  BY <1>1, <1>3
<1>5. l \in Injection(1 .. n, S)
  BY <1>3 DEF Injection, IsInjective
<1>6. IsFiniteSet(1 .. n) /\ Cardinality(1 .. n) = n
  BY <1>1, FS_Interval
<1>7. l \in Surjection(1 .. n, S)
  <2>1. DEFINE R == {l[i] : i \in 1 .. n}
  <2>2. l \in Surjection(1 .. n, R) /\ l \in Injection(1 .. n, R)
    BY <1>3, <1>5 DEF Surjection, Injection
  <2>3. IsFiniteSet(R) /\ Cardinality(R) = n
    BY <1>6, <2>2, FS_Surjection
  <2>4. R = S
    BY <1>3, <2>3, FS_Subset DEF n
  <2>. QED  BY <1>3, <2>4 DEF Surjection
<1>8. DOMAIN l = 1 .. n
  BY <1>3
<1>9. \A x \in S : \E i \in 1 .. n : l[i] = x
  BY <1>7 DEF Surjection
<1>10. \A i \in 1 .. n : l[i] \in S
  BY <1>3
<1>11. ToSet(l) = S
  BY <1>8, <1>9, <1>10 DEF ToSet
<1>. QED  BY <1>4, <1>11 DEF l

-----------------------------------------------------------------------------
(* What a search may answer.                                               *)

LEMMA DocumentIs ==
  ASSUME NEW d \in Documents
  PROVE  /\ d.mail \in Mails /\ d.refs \subseteq Refs
         /\ d.kind \in {"mail", "attachment"} /\ Names(d) \subseteq Mails \cup Refs
BY DocumentsAssumption DEF Document, Names

LEMMA TurnIs ==
  ASSUME NEW t \in Seq(Turn)
  PROVE  /\ Results(t) \subseteq Documents
         /\ TargetIdentifiers(t) \subseteq Mails
         /\ ResultIdentifiers(t) \subseteq Refs
         /\ BusinessIdentifiers(t) \subseteq Mails \cup Refs
<1>1. \A i \in DOMAIN t : t[i].results \subseteq Documents /\ t[i].ids \subseteq Mails \cup Refs
  <2>1. \A i \in DOMAIN t : t[i] \in Turn
    OBVIOUS
  <2>2. \A x \in Turn : x.results \subseteq Documents /\ x.ids \subseteq Mails \cup Refs
    BY DEF Turn
  <2>. QED  BY <2>1, <2>2
<1>2. Results(t) \subseteq Documents
  BY <1>1 DEF Results
<1>3. TargetIdentifiers(t) \subseteq Mails /\ ResultIdentifiers(t) \subseteq Refs
  BY <1>2, DocumentIs DEF TargetIdentifiers, ResultIdentifiers
<1>. QED  BY <1>1, <1>2, <1>3 DEF BusinessIdentifiers

LEMMA ResolvedIs ==
  ASSUME NEW q \in Question, NEW t \in Seq(Turn)
  PROVE  ResolveSearchQuery(q, t) \in Question
<1>1. LastOf(3, t) \in Seq(Turn)
  BY LastOfIs
<1>2. PICK ids : ids = IF TargetIdentifiers(LastOf(3, t)) # {} THEN TargetIdentifiers(LastOf(3, t))
                         ELSE BusinessIdentifiers(LastOf(3, t))
  OBVIOUS
<1>3. ids \in SUBSET (Mails \cup Refs)
  BY <1>1, <1>2, TurnIs
<1>4. [q EXCEPT !.ids = ids] \in Question
  BY <1>3 DEF Question
<1>. QED  BY <1>2, <1>4 DEF ResolveSearchQuery

LEMMA RequiredIs ==
  ASSUME NEW q \in Question, NEW t \in Seq(Turn)
  PROVE  /\ RequiredIdentifiers(q, t) \subseteq Mails \cup Refs
         /\ q.ids # {} => RequiredIdentifiers(q, t) # {}
<1>1. q.ids \subseteq Mails \cup Refs
  BY DEF Question
<1>. QED  BY <1>1, TurnIs DEF RequiredIdentifiers, ContextTargets

LEMMA PlanIs ==
  ASSUME NEW q \in Question, NEW plan \in Plans(q)
  PROVE  plan \in Plan
<1>1. \A p \in Plan : [p EXCEPT !.intent = "mailbox_lookup"] \in Plan
  BY DEF Plan
<1>2. \A p \in Plan : GuardedPlan(q, p) \in Plan
  BY <1>1 DEF GuardedPlan, Plan
<1>3. FallbackPlan(q) \in Plan
  BY DEF FallbackPlan, Plan, Question
<1>. QED  BY <1>2, <1>3 DEF Plans

LEMMA EligibleIs ==
  ASSUME NEW q, NEW required, NEW docs
  PROVE  /\ Eligible(q, required, docs) \subseteq docs
         /\ \A d \in Eligible(q, required, docs) : required \subseteq Names(d)
BY DEF Eligible, InScope

LEMMA FirstOfIs ==
  ASSUME NEW n \in Nat \ {0}, NEW c, IsFiniteSet(c), c # {}, NEW r \in FirstOf(n, c)
  PROVE  r \subseteq c /\ r # {}
<1>1. Cardinality(c) \in Nat \ {0} /\ Cardinality({}) = 0
  BY FS_CardinalityType, FS_EmptySet
<1>2. PICK k \in Nat : k = Cardinality(c) /\ k # 0
  BY <1>1
<1>3. Min({n, k}) \in {n, k}
  <2>1. \E x \in {n, k} : \A y \in {n, k} : x <= y
    BY <1>2
  <2>. QED  BY <2>1 DEF Min
<1>4. r \subseteq c /\ Cardinality(r) = Min({n, k})
  BY <1>2 DEF FirstOf, kSubset
<1>. QED  BY <1>1, <1>2, <1>3, <1>4

LEMMA ManyIs ==
  ASSUME NEW q
  PROVE  Many(q) \in Nat \ {0} /\ Limit \in Nat \ {0}
BY LimitAssumption DEF Many

LEMMA FieldAnswersIs ==
  ASSUME NEW q, NEW c, NEW r \in FieldAnswers(q, c)
  PROVE  r \subseteq c /\ r # {}
BY DEF FieldAnswers

LEMMA DocumentAnswersIs ==
  ASSUME NEW q, NEW required, NEW c, IsFiniteSet(c), c # {},
         NEW r \in DocumentAnswers(q, required, c)
  PROVE  r \subseteq c /\ (required # {} => r # {})
<1>1. ASSUME r \in Shown(q, c)  PROVE r \subseteq c /\ r # {}
  BY <1>1, ManyIs, FirstOfIs DEF Shown
<1>2. ASSUME r \in Selected(q, c)  PROVE r \subseteq c /\ r # {}
  BY <1>2 DEF Selected
<1>3. ASSUME r \in Uncited(q, required, c)  PROVE r \subseteq c /\ (required # {} => r # {})
  BY <1>1, <1>3 DEF Uncited
<1>. QED  BY <1>1, <1>2, <1>3, FieldAnswersIs DEF DocumentAnswers

LEMMA LookupAnswersIs ==
  ASSUME NEW q, NEW c, IsFiniteSet(c), c # {}, NEW r \in LookupAnswers(q, c)
  PROVE  r \subseteq c /\ r # {}
BY ManyIs, FirstOfIs, FieldAnswersIs DEF LookupAnswers

LEMMA ContextAnswersIs ==
  ASSUME NEW q, NEW plan, NEW t \in Seq(Turn), NEW r \in ContextAnswers(q, plan, t)
  PROVE  r \subseteq Documents
<1>1. Results(t) \subseteq Documents
  BY TurnIs
<1>2. CASE r = {}
  BY <1>2
<1>3. CASE r # {}
  <2>1. PICK c \in FirstOf(Limit, Results(t)) : r \in Selected(q, c) \cup Shown(q, c)
    BY <1>3 DEF ContextAnswers
  <2>. QED  BY <1>1, <2>1 DEF FirstOf, kSubset, Selected, Shown
<1>. QED  BY <1>2, <1>3

-----------------------------------------------------------------------------
(* The inductive invariant.                                                *)

(* What is kept of chats, and the requests.                                *)
Types ==
  /\ mailbox \subseteq Documents
  /\ store \in [SessionIds -> Object \cup {0}]
  /\ used \in Seq(SessionIds)
  /\ turns \in [Object -> Seq(Turn)]
  /\ cache \in Seq(Documents)
  /\ page \in [Pages -> [id: SessionIds \cup {NoId}, history: Seq(Turn)]]
  /\ \A p \in Pages : Len(page[p].history) <= ClientMax
  /\ ask \in [Pages -> Ask]

(* The documents of a request are in scope of what it requires, and no     *)
(* search goes on without documents.                                       *)
Embedding == {"embed_query", "embed_documents", "evict", "pop", "score"}
Searching == Embedding \cup {"plan", "answer", "context", "append"}
Evidence(r) ==
  /\ \A d \in r.docs : r.required \subseteq Names(d)
  /\ r.pc \notin Embedding \cup {"answer", "append"} => r.docs = {}
  /\ r.pc = "plan" \/ r.pc \notin Searching => r.required = {}
  /\ r.pc \in Embedding \cup {"answer"} => r.docs # {}
  /\ r.pc \in Embedding => (r.q.ids # {} => r.required # {})
  /\ r.pc = "answer" /\ r.plan.intent = "document_qa" => (r.q.ids # {} => r.required # {})
  /\ r.pc # "append" => r.from = "none" /\ r.results = {}
  /\ r.from = "mailbox" => r.results \subseteq r.docs
  /\ r.from = "mailbox" /\ r.docs # {} /\ r.q.ids # {} => r.results # {}

(* A request that has had room in the cache, and no other writer beside    *)
(* it, has the vectors of its documents, once they are embedded.           *)
Vectors(r, c) ==
  /\ r.spare =>
       /\ r.pc = "embed_documents" => r.docs \subseteq ToSet(c) \cup r.key
       /\ r.pc \in {"evict", "score"} => r.docs \subseteq ToSet(c)
       /\ r.pc = "evict" => Len(c) <= CacheMax
       /\ r.pc # "pop"
  /\ r.from = "no_vector" => ~r.spare
  /\ r.pc = "pop" => r.key # {}

(* The cache is above its limit only while a request is about to look, or  *)
(* about to evict a document that is there.                                *)
Evicting(r, c) == r.pc = "evict" \/ (r.pc = "pop" /\ r.key \subseteq ToSet(c))
CacheLimited == (\A p \in Pages : ~Evicting(ask[p], cache)) => Len(cache) <= CacheMax

(* The store names a session once, in the order of updates.                *)
StoreListed ==
  /\ Unique(used) /\ Len(used) <= MaxSessions
  /\ \A s \in SessionIds : store[s] # 0 <=> s \in ToSet(used)
  /\ \A s, t \in SessionIds : store[s] = store[t] /\ store[s] # 0 => s = t

(* The session a request holds belongs to the page that asks.              *)
Busy(p) == ask[p].pc # "idle"
SessionHeld ==
  \A p \in Pages :
    /\ IF Busy(p) THEN ask[p].object \in Object /\ page[p].id # NoId ELSE ask[p].object = 0
    /\ page[p].id # NoId => <<p, page[p].id>> \in visited
    /\ Busy(p) => \A s \in SessionIds : store[s] = ask[p].object => s = page[p].id
    /\ \A o \in Pages : Busy(p) /\ ask[o].object = ask[p].object => page[o].id = page[p].id
NothingFree == \A o \in FreeObjects : turns[o] = <<>>

(* What a page shows that alone has its session.                           *)
Continued(p) ==
  /\ Busy(p) /\ store[page[p].id] # 0 => store[page[p].id] = ask[p].object
  /\ ~Busy(p) /\ page[p].id # NoId =>
       \/ store[page[p].id] = 0 \/ turns[store[page[p].id]] = <<>>
       \/ IsSuffix(page[p].history, turns[store[page[p].id]])
  /\ ask[p].pc = "read" => IsSuffix(page[p].history, turns[ask[p].object])
  /\ ask[p].pc \in Searching => IsSuffix(page[p].history, ask[p].seen)
AloneContinued == \A p \in Pages : Alone(p) => Continued(p)

SearchInv == \A p \in Pages : Evidence(ask[p]) /\ Vectors(ask[p], cache)
SessionInv == StoreListed /\ SessionHeld /\ NothingFree /\ AloneContinued
ChatInv == Types /\ SearchInv /\ CacheLimited /\ SessionInv

-----------------------------------------------------------------------------
(* What the steps of a request make of it.                                 *)
Becomes(p, t) == ask' = [ask EXCEPT ![p] = t]

(* The same question, with the same turns, of the same session.            *)
SameQuestion(t, r) ==
  /\ t.object = r.object /\ t.q = r.q /\ t.seen = r.seen /\ t.list = r.list
SameEvidence(t, r) ==
  /\ t.plan = r.plan /\ t.required = r.required /\ t.docs = r.docs
  /\ t.results = r.results /\ t.from = r.from

LEMMA Becoming ==
  ASSUME Types, NEW p \in Pages, NEW t \in Ask, Becomes(p, t)
  PROVE  /\ ask' \in [Pages -> Ask] /\ ask'[p] = t
         /\ \A o \in Pages \ {p} : ask'[o] = ask[o]
BY DEF Types, Becomes

LEMMA PcSet ==
  ASSUME NEW r \in Ask,
         NEW pc \in {"restore", "read", "append", "slice", "assign"} \cup Searching
  PROVE  LET t == [r EXCEPT !.pc = pc]
         IN  /\ t \in Ask /\ t.pc = pc /\ SameQuestion(t, r) /\ SameEvidence(t, r)
             /\ t.key = r.key /\ t.spare = r.spare
BY DEF Ask, Searching, Embedding, SameQuestion, SameEvidence

LEMMA IdleIs ==
  /\ Idle \in Ask /\ Idle.pc = "idle" /\ Idle.object = 0 /\ Idle.docs = {} /\ Idle.required = {}
  /\ Idle.from = "none" /\ Idle.results = {} /\ Idle.spare = TRUE
BY DEF Idle, Ask, NoQuestion, Question, NoPlan, Plan

LEMMA FoundIs ==
  ASSUME Types, NEW p \in Pages, NEW results \in SUBSET Documents,
         NEW from \in {"mailbox", "context", "no_model", "no_vector"}, Found(p, results, from)
  PROVE  \E t \in Ask :
           /\ Becomes(p, t) /\ t.pc = "append" /\ t.results = results /\ t.from = from
           /\ SameQuestion(t, ask[p])
           /\ t.required = ask[p].required /\ t.docs = ask[p].docs /\ t.spare = ask[p].spare
<1>1. PICK r \in Ask : r = ask[p]
  BY DEF Types
<1>. DEFINE t == [r EXCEPT !.pc = "append", !.results = results, !.from = from, !.plan = NoPlan]
<1>2. Becomes(p, t)
  BY <1>1 DEF Found, Becomes
<1>3. /\ t \in Ask /\ t.pc = "append" /\ t.results = results /\ t.from = from
      /\ SameQuestion(t, r) /\ t.required = r.required /\ t.docs = r.docs /\ t.spare = r.spare
  BY DEF Ask, NoPlan, Plan, SameQuestion
<1>. QED  BY <1>1, <1>2, <1>3

LEMMA CandidatesIs ==
  ASSUME Types, NEW p \in Pages, NEW plan \in Plan, NEW docs \in SUBSET Documents,
         Candidates(p, plan, docs)
  PROVE  \E t \in Ask :
           /\ Becomes(p, t) /\ t.pc = (IF docs = {} THEN "context" ELSE "answer")
           /\ t.plan = plan /\ t.docs = docs /\ SameQuestion(t, ask[p])
           /\ t.required = ask[p].required /\ t.spare = ask[p].spare
           /\ t.results = ask[p].results /\ t.from = ask[p].from
<1>1. PICK r \in Ask : r = ask[p]
  BY DEF Types
<1>2. PICK pc \in {"context", "answer"} : pc = IF docs = {} THEN "context" ELSE "answer"
  OBVIOUS
<1>. DEFINE t == [r EXCEPT !.pc = pc, !.plan = plan, !.docs = docs]
<1>3. Becomes(p, t)
  BY <1>1, <1>2 DEF Candidates, Becomes
<1>4. /\ t \in Ask /\ t.pc = pc /\ t.plan = plan /\ t.docs = docs /\ SameQuestion(t, r)
      /\ t.required = r.required /\ t.spare = r.spare /\ t.results = r.results /\ t.from = r.from
  BY DEF Ask, SameQuestion
<1>. QED  BY <1>1, <1>2, <1>3, <1>4

(* A step of a search that leaves the cache alone.                         *)
Searched(p) ==
  \E t \in Ask :
    /\ Becomes(p, t) /\ SameQuestion(t, ask[p]) /\ t.pc \in Searching
    /\ Evidence(t) /\ Vectors(t, cache)
    /\ Evicting(ask[p], cache) => Evicting(t, cache) \/ Len(cache) <= CacheMax

LEMMA PlanQuerySearches ==
  ASSUME Types, SearchInv, NEW p \in Pages, PlanQuery(p)
  PROVE  Searched(p)
<1>1. PICK r \in Ask : r = ask[p]
  BY DEF Types
<1>2. /\ r.pc = "plan" /\ r.docs = {} /\ r.required = {} /\ r.from = "none" /\ r.results = {} /\ Evidence(r)
      /\ Vectors(r, cache) /\ r.q \in Question /\ r.seen \in Seq(Turn)
  BY <1>1 DEF PlanQuery, At, SearchInv, Evidence, Embedding, Ask
<1>3. PICK required : required = RequiredIdentifiers(r.q, r.seen)
  OBVIOUS
<1>4. required \in SUBSET (Mails \cup Refs) /\ (r.q.ids # {} => required # {})
  BY <1>2, <1>3, RequiredIs
<1>5. ~Evicting(ask[p], cache)
  BY <1>1, <1>2 DEF Evicting
<1>6. PICK plan \in Plans(r.q) :
        IF plan.intent = "mailbox_lookup" THEN \E c \in Lookups(mailbox) : Candidates(p, plan, c)
        ELSE IF ~HasTerms(r.q, plan, required) \/ OutOfScope(required, mailbox)
        THEN Found(p, {}, "mailbox")
        ELSE ask' = [ask EXCEPT
               ![p].pc = IF Eligible(r.q, required, mailbox) = {} THEN "context" ELSE "embed_query",
               ![p].plan = plan, ![p].required = required,
               ![p].docs = Eligible(r.q, required, mailbox)]
  BY <1>1, <1>3 DEF PlanQuery
<1>7. plan \in Plan
  BY <1>2, PlanIs
<1>8. CASE plan.intent = "mailbox_lookup"
  <2>1. PICK c \in Lookups(mailbox) : Candidates(p, plan, c)
    BY <1>6, <1>8
  <2>2. c \in SUBSET Documents
    BY DEF Lookups, Types
  <2>3. PICK t \in Ask :
           /\ Becomes(p, t) /\ t.pc = (IF c = {} THEN "context" ELSE "answer")
           /\ t.plan = plan /\ t.docs = c /\ SameQuestion(t, r)
           /\ t.required = r.required /\ t.spare = r.spare
           /\ t.results = r.results /\ t.from = r.from
    BY <1>1, <1>7, <2>1, <2>2, CandidatesIs
  <2>5. Evidence(t) /\ Vectors(t, cache) /\ t.pc \in Searching
    BY <1>2, <1>8, <2>3 DEF Evidence, Vectors, Embedding, Searching
  <2>. QED  BY <1>1, <1>5, <2>3, <2>5 DEF Searched
<1>9. CASE plan.intent # "mailbox_lookup" /\ Found(p, {}, "mailbox")
  <2>1. PICK t \in Ask :
           /\ Becomes(p, t) /\ t.pc = "append" /\ t.results = {} /\ t.from = "mailbox"
           /\ SameQuestion(t, r)
           /\ t.required = r.required /\ t.docs = r.docs /\ t.spare = r.spare
    BY <1>1, <1>9, FoundIs
  <2>2. Evidence(t) /\ Vectors(t, cache) /\ t.pc \in Searching
    BY <1>2, <2>1 DEF Evidence, Vectors, Embedding, Searching
  <2>. QED  BY <1>1, <1>5, <2>1, <2>2 DEF Searched
<1>10. CASE plan.intent # "mailbox_lookup" /\ ~Found(p, {}, "mailbox")
  <2>1. PICK docs : docs = Eligible(r.q, required, mailbox)
    OBVIOUS
  <2>2. docs \in SUBSET Documents /\ \A d \in docs : required \subseteq Names(d)
    BY <2>1, EligibleIs DEF Types
  <2>3. PICK pc \in {"context", "embed_query"} : pc = IF docs = {} THEN "context" ELSE "embed_query"
    OBVIOUS
  <2>. DEFINE t == [r EXCEPT !.pc = pc, !.plan = plan, !.required = required, !.docs = docs]
  <2>4. ask' = [ask EXCEPT ![p].pc = pc, ![p].plan = plan, ![p].required = required, ![p].docs = docs]
    BY <1>6, <1>10, <2>1, <2>3
  <2>5. Becomes(p, t)
    BY <1>1, <2>4 DEF Becomes
  <2>6. /\ t \in Ask /\ t.pc = pc /\ t.plan = plan /\ t.required = required /\ t.docs = docs
        /\ SameQuestion(t, r) /\ t.results = r.results /\ t.from = r.from
    BY <1>4, <1>7, <2>2 DEF Ask, SameQuestion
  <2>. HIDE DEF t
  <2>7. Evidence(t) /\ Vectors(t, cache) /\ t.pc \in Searching
    BY <1>2, <1>4, <2>2, <2>3, <2>6 DEF Evidence, Vectors, Embedding, Searching, SameQuestion
  <2>. QED  BY <1>1, <1>5, <2>5, <2>6, <2>7 DEF Searched
<1>. QED  BY <1>8, <1>9, <1>10

LEMMA EmbeddingFailsSearches ==
  ASSUME Types, SearchInv, NEW p \in Pages, EmbeddingFails(p)
  PROVE  Searched(p)
<1>1. PICK r \in Ask : r = ask[p]
  BY DEF Types
<1>2. r.pc \in {"embed_query", "embed_documents"} /\ Evidence(r) /\ Vectors(r, cache)
  BY <1>1 DEF EmbeddingFails, SearchInv
<1>3. PICK t \in Ask :
         /\ Becomes(p, t) /\ t.pc = "append" /\ t.results = {} /\ t.from = "no_model"
         /\ SameQuestion(t, r)
         /\ t.required = r.required /\ t.docs = r.docs /\ t.spare = r.spare
  BY <1>1, FoundIs DEF EmbeddingFails
<1>4. Evidence(t) /\ Vectors(t, cache) /\ t.pc \in Searching /\ ~Evicting(r, cache)
  BY <1>2, <1>3 DEF Evidence, Vectors, Embedding, Searching, Evicting
<1>. QED  BY <1>1, <1>3, <1>4 DEF Searched

LEMMA EmbedQuerySearches ==
  ASSUME Types, SearchInv, NEW p \in Pages, EmbedQuery(p)
  PROVE  Searched(p)
<1>1. PICK r \in Ask : r = ask[p]
  BY DEF Types
<1>2. r.pc = "embed_query" /\ Evidence(r) /\ Vectors(r, cache) /\ r.docs \in SUBSET Documents
  BY <1>1 DEF EmbedQuery, At, SearchInv, Ask
<1>3. PICK pc \in {"score", "embed_documents"} :
        pc = IF r.docs \subseteq Cached THEN "score" ELSE "embed_documents"
  OBVIOUS
<1>4. PICK key \in SUBSET Documents : key = r.docs \ Cached
  BY <1>2
<1>. DEFINE fits == Cardinality(Cached \cup r.docs) <= CacheMax
<1>5. PICK spare \in BOOLEAN : spare = fits
  <2>. HIDE DEF fits
  <2>1. CASE fits
    <3>1. fits = TRUE  BY <2>1
    <3>. QED  BY <3>1
  <2>2. CASE ~fits
    <3>1. fits = FALSE  BY <2>2
    <3>. QED  BY <3>1
  <2>. QED  BY <2>1, <2>2
<1>. DEFINE t == [r EXCEPT !.pc = pc, !.key = key, !.spare = spare]
<1>6. ask' = [ask EXCEPT ![p].pc = pc, ![p].key = key, ![p].spare = spare]
  BY <1>1, <1>3, <1>4, <1>5 DEF EmbedQuery
<1>7. Becomes(p, t)
  BY <1>1, <1>6 DEF Becomes
<1>8. /\ t \in Ask /\ t.pc = pc /\ t.key = key /\ t.spare = spare
      /\ SameQuestion(t, r) /\ SameEvidence(t, r)
  BY DEF Ask, SameQuestion, SameEvidence
<1>. HIDE DEF t
<1>9. Evidence(t) /\ t.pc \in Searching /\ ~Evicting(r, cache)
  BY <1>2, <1>3, <1>8 DEF Evidence, Embedding, Searching, Evicting, SameQuestion, SameEvidence
<1>10. Vectors(t, cache)
  BY <1>2, <1>3, <1>4, <1>8 DEF Vectors, Evidence, SameEvidence, Embedding, Cached
<1>. QED  BY <1>1, <1>7, <1>8, <1>9, <1>10 DEF Searched

LEMMA EvictSearches ==
  ASSUME Types, SearchInv, NEW p \in Pages, Evict(p)
  PROVE  Searched(p)
<1>1. PICK r \in Ask : r = ask[p]
  BY DEF Types
<1>2. r.pc = "evict" /\ Evidence(r) /\ Vectors(r, cache)
  BY <1>1 DEF Evict, EvictAbove, At, SearchInv
<1>3. PICK n \in Nat : n = Len(cache)
  BY DEF Types
<1>4. CacheMax \in Nat
  BY SizesAssumption
<1>5. PICK pc \in {"pop", "score"} : pc = IF n > CacheMax THEN "pop" ELSE "score"
  OBVIOUS
<1>6. PICK key \in SUBSET Documents : /\ key = IF n > CacheMax THEN {Head(cache)} ELSE {}
                                      /\ key \subseteq ToSet(cache)
  <2>1. CASE n > CacheMax
    <3>1. cache \in Seq(Documents) /\ Len(cache) # 0
      BY <1>3, <1>4, <2>1 DEF Types
    <3>2. cache # <<>> /\ 1 \in DOMAIN cache /\ cache[1] \in Documents
      BY <3>1
    <3>3. Head(cache) = cache[1]
      BY <3>1, <3>2
    <3>4. {Head(cache)} \subseteq ToSet(cache) /\ {Head(cache)} \in SUBSET Documents
      BY <3>2, <3>3 DEF ToSet
    <3>. QED  BY <2>1, <3>4
  <2>2. CASE ~(n > CacheMax)
    <3>1. {} \in SUBSET Documents /\ {} \subseteq ToSet(cache)
      OBVIOUS
    <3>. QED  BY <2>2, <3>1
  <2>. QED  BY <2>1, <2>2
<1>. DEFINE t == [r EXCEPT !.pc = pc, !.key = key]
<1>7. ask' = [ask EXCEPT ![p].pc = pc, ![p].key = key]
  BY <1>3, <1>5, <1>6 DEF Evict, EvictAbove
<1>8. Becomes(p, t)
  BY <1>1, <1>7 DEF Becomes
<1>9. /\ t \in Ask /\ t.pc = pc /\ t.key = key /\ t.spare = r.spare
      /\ SameQuestion(t, r) /\ SameEvidence(t, r)
  BY DEF Ask, SameQuestion, SameEvidence
<1>. HIDE DEF t
<1>10. Evidence(t) /\ t.pc \in Searching
  BY <1>2, <1>5, <1>9 DEF Evidence, Embedding, Searching, SameQuestion, SameEvidence
<1>11. Vectors(t, cache)
  BY <1>2, <1>3, <1>4, <1>5, <1>6, <1>9 DEF Vectors, Evidence, SameEvidence, Embedding
<1>12. Evicting(t, cache) \/ Len(cache) <= CacheMax
  BY <1>3, <1>4, <1>5, <1>6, <1>9 DEF Evicting
<1>. QED  BY <1>1, <1>8, <1>9, <1>10, <1>11, <1>12 DEF Searched

LEMMA ScoreSearches ==
  ASSUME Types, SearchInv, NEW p \in Pages, Score(p)
  PROVE  Searched(p)
<1>1. PICK r \in Ask : r = ask[p]
  BY DEF Types
<1>2. /\ r.pc = "score" /\ Evidence(r) /\ Vectors(r, cache) /\ r.docs \in SUBSET Documents
      /\ r.plan \in Plan /\ r.results = {} /\ r.from = "none"
  BY <1>1 DEF Score, At, SearchInv, Ask, Evidence
<1>3. ~Evicting(r, cache)
  BY <1>2 DEF Evicting
<1>4. CASE r.docs \subseteq Cached
  <2>1. PICK docs : docs = Ranked(r.required, r.docs)
    OBVIOUS
  <2>2. docs \in SUBSET Documents /\ docs \subseteq r.docs
    BY <1>2, <2>1 DEF Ranked
  <2>3. Candidates(p, r.plan, docs)
    BY <1>1, <1>4, <2>1 DEF Score
  <2>4. PICK t \in Ask :
           /\ Becomes(p, t) /\ t.pc = (IF docs = {} THEN "context" ELSE "answer")
           /\ t.plan = r.plan /\ t.docs = docs /\ SameQuestion(t, r)
           /\ t.required = r.required /\ t.spare = r.spare
           /\ t.results = r.results /\ t.from = r.from
    BY <1>1, <1>2, <2>2, <2>3, CandidatesIs
  <2>5. Evidence(t) /\ Vectors(t, cache) /\ t.pc \in Searching
    BY <1>2, <2>2, <2>4 DEF Evidence, Vectors, Embedding, Searching, SameQuestion
  <2>. QED  BY <1>1, <1>3, <2>4, <2>5 DEF Searched
<1>5. CASE ~(r.docs \subseteq Cached)
  <2>1. ~r.spare
    BY <1>2, <1>5 DEF Vectors, Cached
  <2>2. PICK t \in Ask :
           /\ Becomes(p, t) /\ t.pc = "append" /\ t.results = {} /\ t.from = "no_vector"
           /\ SameQuestion(t, r)
           /\ t.required = r.required /\ t.docs = r.docs /\ t.spare = r.spare
    BY <1>1, <1>5, FoundIs DEF Score
  <2>3. Evidence(t) /\ Vectors(t, cache) /\ t.pc \in Searching
    BY <1>2, <2>1, <2>2 DEF Evidence, Vectors, Embedding, Searching
  <2>. QED  BY <1>1, <1>3, <2>2, <2>3 DEF Searched
<1>. QED  BY <1>4, <1>5

LEMMA AnswerSearches ==
  ASSUME Types, SearchInv, NEW p \in Pages, Answer(p)
  PROVE  Searched(p)
<1>1. PICK r \in Ask : r = ask[p]
  BY DEF Types
<1>2. /\ r.pc = "answer" /\ Evidence(r) /\ Vectors(r, cache) /\ r.docs \in SUBSET Documents
      /\ r.docs # {} /\ r.plan \in Plan
  BY <1>1 DEF Answer, At, SearchInv, Ask, Evidence
<1>3. IsFiniteSet(r.docs)
  BY <1>2, FS_Subset, DocumentsAssumption
<1>4. PICK results \in IF r.plan.intent = "mailbox_lookup" THEN LookupAnswers(r.q, r.docs)
                       ELSE DocumentAnswers(r.q, r.required, r.docs) :
        Found(p, results, "mailbox")
  BY <1>1 DEF Answer
<1>5. results \subseteq r.docs /\ (r.q.ids # {} => results # {})
  <2>1. CASE r.plan.intent = "mailbox_lookup"
    BY <1>2, <1>3, <1>4, <2>1, LookupAnswersIs
  <2>2. CASE r.plan.intent # "mailbox_lookup"
    <3>1. r.q.ids # {} => r.required # {}
      BY <1>2, <2>2 DEF Evidence, Plan
    <3>2. results \in DocumentAnswers(r.q, r.required, r.docs)
      BY <1>4, <2>2
    <3>. QED  BY <1>2, <1>3, <3>1, <3>2, DocumentAnswersIs
  <2>. QED  BY <2>1, <2>2
<1>6. PICK t \in Ask :
         /\ Becomes(p, t) /\ t.pc = "append" /\ t.results = results /\ t.from = "mailbox"
         /\ SameQuestion(t, r)
         /\ t.required = r.required /\ t.docs = r.docs /\ t.spare = r.spare
  BY <1>1, <1>2, <1>4, <1>5, FoundIs
<1>7. Evidence(t) /\ Vectors(t, cache) /\ t.pc \in Searching /\ ~Evicting(r, cache)
  BY <1>2, <1>5, <1>6 DEF Evidence, Vectors, Embedding, Searching, Evicting, SameQuestion
<1>. QED  BY <1>1, <1>6, <1>7 DEF Searched

LEMMA AnswerFromContextSearches ==
  ASSUME Types, SearchInv, NEW p \in Pages, AnswerFromContext(p)
  PROVE  Searched(p)
<1>1. PICK r \in Ask : r = ask[p]
  BY DEF Types
<1>2. /\ r.pc = "context" /\ Evidence(r) /\ Vectors(r, cache) /\ r.docs = {}
      /\ r.seen \in Seq(Turn)
  BY <1>1 DEF AnswerFromContext, At, SearchInv, Ask, Evidence, Embedding
<1>3. PICK results \in ContextAnswers(r.q, r.plan, r.seen) :
        Found(p, results, IF results = {} THEN "mailbox" ELSE "context")
  BY <1>1 DEF AnswerFromContext
<1>4. results \in SUBSET Documents
  BY <1>2, ContextAnswersIs
<1>5. PICK from \in {"mailbox", "context"} : from = IF results = {} THEN "mailbox" ELSE "context"
  OBVIOUS
<1>6. PICK t \in Ask :
         /\ Becomes(p, t) /\ t.pc = "append" /\ t.results = results /\ t.from = from
         /\ SameQuestion(t, r)
         /\ t.required = r.required /\ t.docs = r.docs /\ t.spare = r.spare
  BY <1>1, <1>3, <1>4, <1>5, FoundIs
<1>7. Evidence(t) /\ Vectors(t, cache) /\ t.pc \in Searching /\ ~Evicting(r, cache)
  BY <1>2, <1>5, <1>6 DEF Evidence, Vectors, Embedding, Searching, Evicting, SameQuestion
<1>. QED  BY <1>1, <1>6, <1>7 DEF Searched

LEMMA SpareGone ==
  ASSUME NEW r \in Ask
  PROVE  LET t == [r EXCEPT !.spare = FALSE]
         IN  /\ t \in Ask /\ t.pc = r.pc /\ t.key = r.key /\ t.spare = FALSE
             /\ SameQuestion(t, r) /\ SameEvidence(t, r)
BY DEF Ask, SameQuestion, SameEvidence

(* A step of a search that writes to the cache: all searches beside it     *)
(* know that somebody does.                                                *)
Written(p) ==
  /\ cache' \in Seq(Documents) /\ ask' \in [Pages -> Ask]
  /\ SameQuestion(ask'[p], ask[p]) /\ SameEvidence(ask'[p], ask[p])
  /\ ask[p].pc \in Embedding /\ ask'[p].pc = "evict" /\ Vectors(ask'[p], cache')
  /\ \A o \in Pages \ {p} :
       /\ SameQuestion(ask'[o], ask[o]) /\ SameEvidence(ask'[o], ask[o])
       /\ ask'[o].pc = ask[o].pc /\ ask'[o].key = ask[o].key
       /\ IF o \in Beside(p) THEN ~ask'[o].spare ELSE ask'[o].spare = ask[o].spare

LEMMA OthersWritten ==
  ASSUME Types, NEW p \in Pages, NEW t \in Ask, NEW c \in Seq(Documents), cache' = c,
         ask' = [o \in Pages |->
                   IF o = p THEN t
                   ELSE IF o \in Beside(p) THEN [ask[o] EXCEPT !.spare = FALSE] ELSE ask[o]],
         SameQuestion(t, ask[p]), SameEvidence(t, ask[p]), ask[p].pc \in Embedding,
         t.pc = "evict", Vectors(t, c)
  PROVE  Written(p)
<1>1. ask'[p] = t
  OBVIOUS
<1>2. ASSUME NEW o \in Pages \ {p}
      PROVE  /\ ask'[o] \in Ask
             /\ SameQuestion(ask'[o], ask[o]) /\ SameEvidence(ask'[o], ask[o])
             /\ ask'[o].pc = ask[o].pc /\ ask'[o].key = ask[o].key
             /\ IF o \in Beside(p) THEN ~ask'[o].spare ELSE ask'[o].spare = ask[o].spare
  <2>1. PICK r \in Ask : r = ask[o]
    BY DEF Types
  <2>2. CASE o \in Beside(p)
    <3>1. PICK u : u = [r EXCEPT !.spare = FALSE]
      OBVIOUS
    <3>2. ask'[o] = u
      BY <2>1, <2>2, <3>1
    <3>. QED  BY <2>1, <2>2, <3>1, <3>2, SpareGone
  <2>3. CASE o \notin Beside(p)
    <3>1. ask'[o] = ask[o]
      BY <2>3
    <3>. QED  BY <2>1, <2>3, <3>1 DEF SameQuestion, SameEvidence
  <2>. QED  BY <2>2, <2>3
<1>3. ask' \in [Pages -> Ask]
  <2>1. \A o \in Pages : ask'[o] \in Ask
    BY <1>1, <1>2
  <2>2. ask' = [o \in Pages |-> ask'[o]]
    OBVIOUS
  <2>. QED  BY <2>1, <2>2
<1>. QED  BY <1>1, <1>2, <1>3 DEF Written

LEMMA EmbedDocumentsWrites ==
  ASSUME Types, SearchInv, NEW p \in Pages, EmbedDocuments(p)
  PROVE  Written(p)
<1>1. PICK r \in Ask : r = ask[p]
  BY DEF Types
<1>2. /\ r.pc = "embed_documents" /\ Vectors(r, cache) /\ r.key \in SUBSET Documents
      /\ r.docs \in SUBSET Documents /\ r.spare \in BOOLEAN /\ r.pc \in Embedding /\ r.from = "none"
  BY <1>1 DEF EmbedDocuments, At, SearchInv, Ask, Embedding, Evidence
<1>3. PICK new \in SUBSET Documents : new = r.key \ Cached
  BY <1>2
<1>4. SetToSeq(new) \in Seq(Documents) /\ ToSet(SetToSeq(new)) = new
  <2>1. IsFiniteSet(new)
    BY FS_Subset, DocumentsAssumption
  <2>2. SetToSeq(new) \in Seq(new) /\ ToSet(SetToSeq(new)) = new
    BY <2>1, Listed
  <2>. QED  BY <2>2
<1>5. PICK c \in Seq(Documents) : c = cache \o SetToSeq(new) /\ ToSet(c) = ToSet(cache) \cup new
  <2>1. PICK l \in Seq(Documents) : l = SetToSeq(new) /\ ToSet(l) = new
    BY <1>4
  <2>2. cache \in Seq(Documents)
    BY DEF Types
  <2>3. cache \o l \in Seq(Documents) /\ ToSet(cache \o l) = ToSet(cache) \cup ToSet(l)
    BY <2>1, <2>2, ConcatSet
  <2>. QED  BY <2>1, <2>3
<1>6. cache' = c
  <2>1. cache' = cache \o SetToSeq(ask[p].key \ Cached)
    BY DEF EmbedDocuments
  <2>2. ask[p].key \ Cached = new
    BY <1>1, <1>3
  <2>. QED  BY <1>5, <2>1, <2>2
<1>. DEFINE fits == Len(c) <= CacheMax
<1>7. PICK spare \in BOOLEAN : spare = (r.spare /\ fits)
  <2>. HIDE DEF fits
  <2>1. CASE r.spare /\ fits
    <3>1. (r.spare /\ fits) = TRUE  BY <2>1
    <3>. QED  BY <3>1
  <2>2. CASE ~(r.spare /\ fits)
    <3>1. (r.spare /\ fits) = FALSE  BY <2>2
    <3>. QED  BY <3>1
  <2>. QED  BY <2>1, <2>2
<1>. DEFINE t == [r EXCEPT !.pc = "evict", !.key = {}, !.spare = spare]
<1>8. ask' = [o \in Pages |->
                IF o = p THEN t
                ELSE IF o \in Beside(p) THEN [ask[o] EXCEPT !.spare = FALSE] ELSE ask[o]]
  BY <1>1, <1>6, <1>7 DEF EmbedDocuments
<1>9. /\ t \in Ask /\ t.pc = "evict" /\ t.spare = spare
      /\ SameQuestion(t, r) /\ SameEvidence(t, r)
  BY DEF Ask, SameQuestion, SameEvidence
<1>. HIDE DEF t
<1>10. Vectors(t, c)
  BY <1>2, <1>3, <1>5, <1>7, <1>9 DEF Vectors, SameEvidence, Cached
<1>. QED  BY <1>1, <1>2, <1>6, <1>8, <1>9, <1>10, OthersWritten

LEMMA PopWrites ==
  ASSUME Types, SearchInv, NEW p \in Pages, Pop(p)
  PROVE  \/ Written(p)
         \/ cache' = cache /\ Searched(p)
<1>1. PICK r \in Ask : r = ask[p]
  BY DEF Types
<1>2. /\ r.pc = "pop" /\ Vectors(r, cache) /\ ~r.spare /\ r.pc \in Embedding /\ Evidence(r)
      /\ r.from = "none" /\ r.key # {}
  BY <1>1 DEF Pop, At, SearchInv, Embedding, Vectors, Evidence
<1>3. CASE r.key \subseteq Cached
  <2>1. PICK i \in DOMAIN cache : i = CHOOSE n \in DOMAIN cache : cache[n] \in r.key
    <3>1. \E n \in DOMAIN cache : cache[n] \in r.key
      BY <1>2, <1>3 DEF Cached, ToSet
    <3>. QED  BY <3>1
  <2>1a. PICK c \in Seq(Documents) : c = RemoveAt(cache, i)
    BY RemoveAtIs DEF Types
  <2>2. cache' = c
    BY <1>1, <1>3, <2>1, <2>1a DEF Pop
  <2>. DEFINE t == [r EXCEPT !.pc = "evict", !.key = {}]
  <2>3. ask' = [o \in Pages |->
                IF o = p THEN t
                ELSE IF o \in Beside(p) THEN [ask[o] EXCEPT !.spare = FALSE] ELSE ask[o]]
    BY <1>1, <1>3 DEF Pop
  <2>4. /\ t \in Ask /\ t.pc = "evict" /\ t.spare = r.spare
        /\ SameQuestion(t, r) /\ SameEvidence(t, r)
    BY DEF Ask, SameQuestion, SameEvidence
  <2>. HIDE DEF t
  <2>5. Vectors(t, c)
    BY <1>2, <2>4 DEF Vectors, SameEvidence
  <2>. QED  BY <1>1, <1>2, <2>2, <2>3, <2>4, <2>5, OthersWritten
<1>4. CASE ~(r.key \subseteq Cached)
  <2>1. PICK t \in Ask :
           /\ Becomes(p, t) /\ t.pc = "append" /\ t.results = {} /\ t.from = "no_vector"
           /\ SameQuestion(t, r)
           /\ t.required = r.required /\ t.docs = r.docs /\ t.spare = r.spare
    BY <1>1, <1>4, FoundIs DEF Pop
  <2>2. Evidence(t) /\ Vectors(t, cache) /\ t.pc \in Searching /\ ~Evicting(r, cache)
    BY <1>2, <1>4, <2>1 DEF Evidence, Vectors, Embedding, Searching, Evicting, Cached
  <2>. QED  BY <1>1, <1>4, <2>1, <2>2 DEF Searched, Pop
<1>. QED  BY <1>3, <1>4

(* A request and the cache after any step of a search.                     *)
LEMMA SearchedKeeps ==
  ASSUME Types, SearchInv, CacheLimited, NEW p \in Pages, Searched(p), cache' = cache
  PROVE  ask' \in [Pages -> Ask] /\ SearchInv' /\ CacheLimited'
<1>1. PICK t \in Ask :
        /\ Becomes(p, t) /\ SameQuestion(t, ask[p]) /\ t.pc \in Searching
        /\ Evidence(t) /\ Vectors(t, cache)
        /\ Evicting(ask[p], cache) => Evicting(t, cache) \/ Len(cache) <= CacheMax
  BY DEF Searched
<1>2. ask' \in [Pages -> Ask] /\ ask'[p] = t /\ \A o \in Pages \ {p} : ask'[o] = ask[o]
  BY <1>1, Becoming
<1>3. ASSUME NEW o \in Pages  PROVE Evidence(ask'[o]) /\ Vectors(ask'[o], cache)
  BY <1>1, <1>2 DEF SearchInv
<1>4. SearchInv'
  BY <1>3 DEF SearchInv
<1>5. ASSUME \A o \in Pages : ~Evicting(ask'[o], cache)  PROVE Len(cache) <= CacheMax
  <2>1. ~Evicting(t, cache) /\ \A o \in Pages \ {p} : ~Evicting(ask[o], cache)
    BY <1>2, <1>5
  <2>2. CASE Evicting(ask[p], cache)
    BY <1>1, <2>1, <2>2
  <2>3. CASE ~Evicting(ask[p], cache)
    BY <2>1, <2>3 DEF CacheLimited
  <2>. QED  BY <2>2, <2>3
<1>. QED  BY <1>2, <1>4, <1>5 DEF CacheLimited

LEMMA WrittenKeeps ==
  ASSUME Types, SearchInv, NEW p \in Pages, Written(p)
  PROVE  SearchInv' /\ CacheLimited'
<1>1. PICK c \in Seq(Documents) : c = cache'
  BY DEF Written
<1>2. ASSUME NEW o \in Pages  PROVE Evidence(ask'[o]) /\ Vectors(ask'[o], c)
  <2>1. PICK r \in Ask : r = ask[o]
    BY DEF Types
  <2>2. PICK t \in Ask : t = ask'[o]
    BY DEF Written
  <2>3. Evidence(r) /\ Vectors(r, cache)
    BY <2>1 DEF SearchInv
  <2>4. CASE o = p
    <3>1. Vectors(t, c) /\ SameQuestion(t, r) /\ SameEvidence(t, r) /\ r.pc \in Embedding /\ t.pc = "evict"
      BY <1>1, <2>1, <2>2, <2>4 DEF Written
    <3>. QED  BY <2>2, <2>3, <3>1 DEF Evidence, Embedding, Searching, SameQuestion, SameEvidence
  <2>5. CASE o # p
    <3>1. /\ SameQuestion(t, r) /\ SameEvidence(t, r) /\ t.pc = r.pc /\ t.key = r.key
          /\ IF o \in Beside(p) THEN ~t.spare ELSE t.spare = r.spare
      BY <2>1, <2>2, <2>5 DEF Written
    <3>2. Evidence(t)
      BY <2>3, <3>1 DEF Evidence, SameQuestion, SameEvidence
    <3>3. r.pc \in {"embed_documents", "evict", "pop", "score"} => ~t.spare
      BY <2>1, <2>5, <3>1 DEF Beside
    <3>4. t.from = "no_vector" => ~t.spare
      BY <2>3, <3>1 DEF Vectors, SameEvidence
    <3>5. Vectors(t, c)
      BY <2>3, <3>1, <3>3, <3>4 DEF Vectors
    <3>. QED  BY <2>2, <3>2, <3>5
  <2>. QED  BY <2>4, <2>5
<1>3. Evicting(ask'[p], c)
  BY DEF Written, Evicting
<1>. QED  BY <1>1, <1>2, <1>3 DEF SearchInv, CacheLimited

(* What other steps make of a request: nothing that the cache or the       *)
(* evidence is about.                                                      *)
Quiet(t) ==
  /\ t.pc \notin Searching \ {"plan"} /\ t.docs = {} /\ t.required = {}
  /\ t.from = "none" /\ t.results = {}

LEMMA QuietIs ==
  ASSUME NEW t \in Ask, Quiet(t), NEW c
  PROVE  Evidence(t) /\ Vectors(t, c) /\ ~Evicting(t, c)
BY DEF Quiet, Evidence, Vectors, Evicting, Searching, Embedding

LEMMA QuietKeeps ==
  ASSUME Types, SearchInv, CacheLimited, NEW p \in Pages, NEW t \in Ask, Becomes(p, t), Quiet(t),
         cache' = cache, ~Evicting(ask[p], cache)
  PROVE  ask' \in [Pages -> Ask] /\ SearchInv' /\ CacheLimited'
<1>1. ask' \in [Pages -> Ask] /\ ask'[p] = t /\ \A o \in Pages \ {p} : ask'[o] = ask[o]
  BY Becoming
<1>2. \A o \in Pages : Evidence(ask'[o]) /\ Vectors(ask'[o], cache)
  BY <1>1, QuietIs DEF SearchInv
<1>3. ASSUME \A o \in Pages : ~Evicting(ask'[o], cache)  PROVE Len(cache) <= CacheMax
  BY <1>1, <1>3 DEF CacheLimited
<1>. QED  BY <1>1, <1>2, <1>3 DEF SearchInv, CacheLimited

-----------------------------------------------------------------------------
(* Sessions.                                                               *)

(* There are more objects than the store may name and requests may hold.   *)
LEMMA SomeFree ==
  ASSUME Types, StoreListed
  PROVE  FreeObjects # {}
<1>. DEFINE A == {o \in Object : Stored(o)}
            B == {o \in Object : Held(o)}
            U == 1 .. Len(used)
            P == {p \in Pages : ask[p].object \in Object}
<1>1. /\ Len(used) \in Nat /\ MaxSessions \in Nat /\ Len(used) <= MaxSessions
      /\ Cardinality(Pages) \in Nat
  BY SizesAssumption, PagesAssumption, FS_CardinalityType DEF Types, StoreListed
<1>2. /\ IsFiniteSet(Object) /\ Cardinality(Object) = MaxSessions + 1 + Cardinality(Pages)
      /\ 0 \notin Object
  <2>1. PICK n \in Nat : n = MaxSessions + 1 + Cardinality(Pages)
    BY <1>1
  <2>2. IsFiniteSet(1 .. n) /\ Cardinality(1 .. n) = n
    BY <1>1, <2>1, FS_Interval
  <2>3. Object = 1 .. n
    BY <2>1 DEF Object
  <2>. QED  BY <2>1, <2>2, <2>3
<1>3. IsFiniteSet(A) /\ Cardinality(A) <= Len(used)
  <2>. DEFINE f == [i \in U |-> store[used[i]]]
  <2>1. \A i \in U : used[i] \in SessionIds /\ used[i] \in ToSet(used)
    BY DEF Types, ToSet
  <2>2. f \in [U -> A]
    <3>1. \A i \in U : store[used[i]] \in A
      BY <2>1 DEF StoreListed, Types, Stored
    <3>. QED  BY <3>1
  <2>3. ASSUME NEW o \in A  PROVE \E i \in U : f[i] = o
    <3>1. PICK s \in SessionIds : store[s] = o
      BY <2>3 DEF Stored
    <3>2. s \in ToSet(used)
      BY <1>2, <2>3, <3>1 DEF StoreListed
    <3>3. PICK i \in U : used[i] = s
      BY <3>2 DEF ToSet, Types
    <3>. QED  BY <3>1, <3>3
  <2>4. f \in Surjection(U, A)
    BY <2>2, <2>3 DEF Surjection
  <2>5. IsFiniteSet(U) /\ Cardinality(U) = Len(used)
    <3>1. PICK n \in Nat : n = Len(used)
      BY <1>1
    <3>2. IsFiniteSet(1 .. n) /\ Cardinality(1 .. n) = n
      <4>1. 1 \in Int /\ n \in Int
        OBVIOUS
      <4>2. /\ IsFiniteSet(1 .. n)
            /\ Cardinality(1 .. n) = IF 1 > n THEN 0 ELSE n - 1 + 1
        BY <4>1, FS_Interval
      <4>. QED  BY <4>2
    <3>. QED  BY <3>1, <3>2
  <2>. HIDE DEF f, U, A
  <2>6. IsFiniteSet(A) /\ Cardinality(A) <= Cardinality(U)
    BY <2>4, <2>5, FS_Surjection
  <2>. QED  BY <2>5, <2>6
<1>4. IsFiniteSet(B) /\ Cardinality(B) <= Cardinality(Pages)
  <2>. DEFINE g == [p \in P |-> ask[p].object]
  <2>1. g \in Surjection(P, B)
    <3>1. g \in [P -> B]
      BY DEF Held
    <3>2. \A o \in B : \E p \in P : g[p] = o
      BY DEF Held
    <3>. QED  BY <3>1, <3>2 DEF Surjection
  <2>2. IsFiniteSet(P) /\ Cardinality(P) <= Cardinality(Pages)
    BY PagesAssumption, FS_Subset
  <2>. HIDE DEF g, P, B
  <2>3. /\ IsFiniteSet(B) /\ Cardinality(B) <= Cardinality(P)
        /\ Cardinality(B) \in Nat /\ Cardinality(P) \in Nat
    BY <2>1, <2>2, FS_Surjection, FS_CardinalityType
  <2>. QED  BY <1>1, <2>2, <2>3
<1>. HIDE DEF A, B
<1>5. Cardinality(A \cup B) <= Cardinality(A) + Cardinality(B)
  <2>1. IsFiniteSet(A \cap B)
    BY <1>3, FS_Subset
  <2>2. Cardinality(A) \in Nat /\ Cardinality(B) \in Nat /\ Cardinality(A \cap B) \in Nat
    BY <1>3, <1>4, <2>1, FS_CardinalityType
  <2>3. Cardinality(A \cup B) = Cardinality(A) + Cardinality(B) - Cardinality(A \cap B)
    BY <1>3, <1>4, FS_Union
  <2>. QED  BY <2>2, <2>3
<1>6. ASSUME FreeObjects = {}  PROVE FALSE
  <2>1. Object = A \cup B
    BY <1>6 DEF FreeObjects, A, B
  <2>2. Cardinality(A) \in Nat /\ Cardinality(B) \in Nat
    BY <1>3, <1>4, FS_CardinalityType
  <2>3. Cardinality(A \cup B) = MaxSessions + 1 + Cardinality(Pages)
    BY <1>2, <2>1
  <2>. QED  BY <1>1, <1>3, <1>4, <1>5, <2>2, <2>3
<1>. QED  BY <1>6

(* The session of s is there afterwards; another one may have gone, and    *)
(* with it the turns of an object that nobody holds.                       *)
Got(s, o) ==
  /\ store' \in [SessionIds -> Object \cup {0}] /\ used' \in Seq(SessionIds)
  /\ turns' \in [Object -> Seq(Turn)]
  /\ StoreListed'
  /\ store'[s] = o
  /\ IF store[s] # 0 THEN o = store[s] ELSE o \in FreeObjects /\ turns'[o] = <<>>
  /\ \A x \in SessionIds \ {s} : store'[x] = store[x] \/ store'[x] = 0
  /\ \A x \in Object : Held(x) => turns'[x] = turns[x]
  /\ \A x \in SessionIds : store'[x] # 0 => turns'[store'[x]] = turns[store'[x]]
  /\ \A x \in Object : ~Held(x) /\ (\A t \in SessionIds : store'[t] # x) => turns'[x] = <<>>

LEMMA NoObject == 0 \notin Object
<1>1. Cardinality(Pages) \in Nat /\ MaxSessions \in Nat
  BY SizesAssumption, PagesAssumption, FS_CardinalityType
<1>. QED  BY <1>1 DEF Object

LEMMA FreeIs ==
  ASSUME NEW o \in FreeObjects
  PROVE  o \in Object /\ o # 0 /\ (\A s \in SessionIds : store[s] # o) /\ ~Held(o)
BY NoObject DEF FreeObjects, Stored

LEMMA GetOrCreateGets ==
  ASSUME Types, StoreListed, NothingFree, NEW s \in SessionIds, NEW o \in Object,
         GetOrCreate(s, o)
  PROVE  Got(s, o)
<1>1. CASE store[s] # 0
  <2>1. o = store[s] /\ UNCHANGED sessionVars
    BY <1>1 DEF GetOrCreate
  <2>2. store' = store /\ used' = used /\ turns' = turns
    BY <2>1 DEF sessionVars
  <2>3. StoreListed'
    BY <2>2 DEF StoreListed
  <2>4. \A x \in Object : ~Held(x) /\ (\A t \in SessionIds : store[t] # x) => turns[x] = <<>>
    BY DEF NothingFree, FreeObjects, Stored
  <2>. QED  BY <1>1, <2>1, <2>2, <2>3, <2>4 DEF Got, Types
<1>2. CASE store[s] = 0
  <2>1. o = CHOOSE new \in FreeObjects : TRUE
    BY <1>2 DEF GetOrCreate
  <2>2. o \in FreeObjects
    BY <2>1, SomeFree
  <2>3. o # 0 /\ (\A x \in SessionIds : store[x] # o) /\ ~Held(o) /\ turns[o] = <<>>
    BY <2>2, FreeIs DEF NothingFree
  <2>4. s \notin ToSet(used)
    BY <1>2 DEF StoreListed
  <2>5. CASE Len(used) < MaxSessions
    <3>1. used' = Append(used, s) /\ store' = [store EXCEPT ![s] = o] /\ turns' = turns
      BY <1>2, <2>5 DEF GetOrCreate
    <3>2. ToSet(used') = ToSet(used) \cup {s} /\ Unique(used')
      BY <2>4, <3>1, Appended DEF Types, StoreListed
    <3>3. used' \in Seq(SessionIds) /\ Len(used') <= MaxSessions
      BY <2>5, <3>1, SizesAssumption DEF Types
    <3>4. /\ store' \in [SessionIds -> Object \cup {0}] /\ store'[s] = o
          /\ \A x \in SessionIds \ {s} : store'[x] = store[x]
      BY <3>1 DEF Types
    <3>5. StoreListed'
      BY <2>3, <3>2, <3>3, <3>4 DEF StoreListed
    <3>6. ASSUME NEW x \in Object, ~Held(x), \A t \in SessionIds : store'[t] # x  PROVE turns[x] = <<>>
      <4>1. \A t \in SessionIds : store[t] # x
        BY <1>2, <2>3, <3>4, <3>6, NoObject
      <4>. QED  BY <3>6, <4>1 DEF NothingFree, FreeObjects, Stored
    <3>. QED  BY <1>2, <2>2, <2>3, <3>1, <3>3, <3>4, <3>5, <3>6 DEF Got, Types
  <2>6. CASE ~(Len(used) < MaxSessions)
    <3>1. Len(used) \in Nat /\ MaxSessions \in Nat /\ MaxSessions # 0
      BY SizesAssumption DEF Types
    <3>2. used \in Seq(SessionIds) /\ used # <<>> /\ Len(used) = MaxSessions
      BY <2>6, <3>1 DEF Types, StoreListed
    <3>3. PICK old \in SessionIds :
            /\ old = Head(used) /\ old \in ToSet(used)
            /\ Tail(used) \in Seq(SessionIds) /\ Len(Tail(used)) = Len(used) - 1
            /\ Unique(Tail(used)) /\ ToSet(Tail(used)) = ToSet(used) \ {old}
      BY <3>2, TailIs DEF StoreListed
    <3>4. PICK gone \in Object : gone = store[old] /\ gone # o /\ old # s
      BY <2>3, <2>4, <3>3 DEF StoreListed, Types
    <3>5. /\ used' = Append(Tail(used), s)
          /\ store' = [store EXCEPT ![s] = o, ![old] = 0]
          /\ turns' = IF Held(gone) THEN turns ELSE [turns EXCEPT ![gone] = <<>>]
      BY <1>2, <2>6, <3>3, <3>4 DEF GetOrCreate
    <3>6. /\ used' \in Seq(SessionIds) /\ Len(used') = MaxSessions
          /\ Unique(used') /\ ToSet(used') = (ToSet(used) \ {old}) \cup {s}
      <4>1. PICK u \in Seq(SessionIds) : u = Tail(used)
        BY <3>3
      <4>2. ToSet(Append(u, s)) = ToSet(u) \cup {s} /\ Unique(Append(u, s))
        <5>1. Unique(u) /\ s \notin ToSet(u)
          BY <2>4, <3>3, <4>1
        <5>. QED  BY <5>1, Appended
      <4>3. Append(u, s) \in Seq(SessionIds) /\ Len(Append(u, s)) = Len(u) + 1
        BY AppendProperties
      <4>. QED  BY <3>1, <3>2, <3>3, <3>5, <4>1, <4>2, <4>3
    <3>7. /\ store' \in [SessionIds -> Object \cup {0}] /\ store'[s] = o /\ store'[old] = 0
          /\ \A x \in SessionIds \ {s, old} : store'[x] = store[x]
      BY <3>4, <3>5 DEF Types
    <3>8. StoreListed'
      <4>1. \A x \in SessionIds : store'[x] # 0 <=> x \in ToSet(used')
        BY <2>3, <3>4, <3>6, <3>7 DEF StoreListed
      <4>2. \A x, y \in SessionIds : store'[x] = store'[y] /\ store'[x] # 0 => x = y
        BY <2>3, <3>7 DEF StoreListed
      <4>3. Len(used') <= MaxSessions
        BY <3>1, <3>6
      <4>. QED  BY <3>6, <4>1, <4>2, <4>3 DEF StoreListed
    <3>9. turns' \in [Object -> Seq(Turn)]
      BY <3>5 DEF Types
    <3>10. /\ \A x \in Object : x # gone => turns'[x] = turns[x]
           /\ Held(gone) => turns'[gone] = turns[gone]
           /\ ~Held(gone) => turns'[gone] = <<>>
      BY <3>5 DEF Types
    <3>11. \A x \in SessionIds : store'[x] # gone
      BY <3>4, <3>7, NoObject DEF StoreListed
    <3>12. ASSUME NEW x \in Object, ~Held(x), \A t \in SessionIds : store'[t] # x
           PROVE  turns'[x] = <<>>
      <4>1. CASE x = gone
        BY <3>10, <3>12, <4>1
      <4>2. CASE x # gone
        <5>1. \A t \in SessionIds : store[t] # x
          BY <1>2, <2>3, <3>4, <3>7, <3>12, <4>2, NoObject
        <5>2. turns[x] = <<>>
          BY <3>12, <5>1 DEF NothingFree, FreeObjects, Stored
        <5>. QED  BY <3>10, <4>2, <5>2
      <4>. QED  BY <4>1, <4>2
    <3>13. \A x \in SessionIds : store'[x] # 0 => turns'[store'[x]] = turns[store'[x]]
      BY <3>7, <3>10, <3>11 DEF Types
    <3>14. \A x \in SessionIds \ {s} : store'[x] = store[x] \/ store'[x] = 0
      BY <3>7
    <3>15. turns'[o] = <<>>
      BY <2>3, <3>4, <3>10
    <3>16. \A x \in Object : Held(x) => turns'[x] = turns[x]
      BY <3>10
    <3>. QED  BY <1>2, <2>2, <3>6, <3>7, <3>8, <3>9, <3>12, <3>13, <3>14, <3>15, <3>16 DEF Got
  <2>. QED  BY <2>5, <2>6
<1>. QED  BY <1>1, <1>2

(* An update brings a session of the store to the end of the order.        *)
LEMMA TouchKeeps ==
  ASSUME Types, StoreListed, NEW o \in Object, Touch(o), store' = store
  PROVE  used' \in Seq(SessionIds) /\ StoreListed'
<1>1. CASE Stored(o)
  <2>1. PICK s \in SessionIds : s = (CHOOSE x \in SessionIds : store[x] = o) /\ store[s] = o
    BY <1>1 DEF Stored
  <2>2. o # 0 /\ store[s] # 0
    BY <2>1, NoObject
  <2>3. \E i \in DOMAIN used : used[i] = s
    BY <2>1, <2>2 DEF StoreListed, ToSet
  <2>4. PICK i \in DOMAIN used : i = (CHOOSE n \in DOMAIN used : used[n] = s) /\ used[i] = s
    BY <2>3
  <2>5. PICK u \in Seq(SessionIds) :
          /\ u = RemoveAt(used, i) /\ Len(u) = Len(used) - 1
          /\ Unique(u) /\ ToSet(u) = ToSet(used) \ {s}
    <3>1. used \in Seq(SessionIds) /\ Unique(used)
      BY DEF Types, StoreListed
    <3>2. RemoveAt(used, i) \in Seq(SessionIds) /\ Len(RemoveAt(used, i)) = Len(used) - 1
      BY <3>1, RemoveAtIs
    <3>3. Unique(RemoveAt(used, i)) /\ ToSet(RemoveAt(used, i)) = ToSet(used) \ {used[i]}
      BY <3>1, Removed
    <3>. QED  BY <2>4, <3>2, <3>3
  <2>6. used' = Append(u, s)
    BY <1>1, <2>1, <2>4, <2>5 DEF Touch
  <2>7. ToSet(Append(u, s)) = ToSet(u) \cup {s} /\ Unique(Append(u, s))
    BY <2>5, Appended
  <2>8. Append(u, s) \in Seq(SessionIds) /\ Len(Append(u, s)) = Len(u) + 1
    BY AppendProperties
  <2>9. s \in ToSet(used)
    BY <2>4 DEF ToSet
  <2>10. Len(used') = Len(used)
    BY <2>5, <2>6, <2>8 DEF Types
  <2>. QED  BY <2>5, <2>6, <2>7, <2>8, <2>9, <2>10 DEF StoreListed
<1>2. CASE ~Stored(o)
  BY <1>2 DEF Touch, StoreListed, Types
<1>. QED  BY <1>1, <1>2

(* A page is not alone with the session that another one asks.             *)
LEMMA NotAlone ==
  ASSUME SessionHeld, NEW p \in Pages, NEW o \in Pages \ {p}, Busy(p), page[o].id = page[p].id
  PROVE  ~Alone(o)
BY DEF SessionHeld, Alone

(* Steps of requests that change neither sessions nor pages.               *)
SameSessions ==
  /\ UNCHANGED <<store, used, turns, page, visited>>
  /\ \A p \in Pages :
       /\ ask'[p].object = ask[p].object
       /\ (ask'[p].pc = "idle") = (ask[p].pc = "idle")
       /\ ask'[p].pc = "read" => ask[p].pc = "read"
       /\ ask'[p].pc \in Searching => ask[p].pc \in Searching /\ ask'[p].seen = ask[p].seen

LEMMA SameSessionsKeep ==
  ASSUME SessionInv, SameSessions
  PROVE  SessionInv'
<1>1. store' = store /\ used' = used /\ turns' = turns /\ page' = page /\ visited' = visited
  BY DEF SameSessions
<1>2. StoreListed'
  BY <1>1 DEF SessionInv, StoreListed
<1>3. \A p \in Pages : Busy(p)' = Busy(p)
  BY DEF SameSessions, Busy
<1>4. SessionHeld'
  BY <1>1, <1>3 DEF SessionInv, SessionHeld, SameSessions
<1>5. NothingFree'
  BY <1>1 DEF SessionInv, NothingFree, FreeObjects, Stored, Held, SameSessions
<1>6. AloneContinued'
  <2>1. ASSUME NEW p \in Pages, Alone(p)'  PROVE Continued(p)'
    <3>1. Continued(p)
      BY <1>1, <2>1 DEF SessionInv, AloneContinued, Alone
    <3>. QED  BY <1>1, <1>3, <3>1 DEF Continued, SameSessions
  <2>. QED  BY <2>1 DEF AloneContinued
<1>. QED  BY <1>2, <1>4, <1>5, <1>6 DEF SessionInv

(* A step of the request of p that changes the turns of its session.       *)
TurnsBecome(p, new, t) ==
  /\ UNCHANGED <<store, page, visited>>
  /\ turns' = [turns EXCEPT ![ask[p].object] = new]
  /\ Busy(p) /\ Becomes(p, t)
  /\ t.object = ask[p].object /\ t.pc \in {"read", "slice"}
  /\ t.pc = "read" => IsSuffix(page[p].history, new)

LEMMA TurnsBecomeKeeps ==
  ASSUME Types, SessionInv, NEW p \in Pages, NEW new \in Seq(Turn), NEW t \in Ask,
         TurnsBecome(p, new, t), StoreListed'
  PROVE  turns' \in [Object -> Seq(Turn)] /\ SessionInv'
<1>1. store' = store /\ page' = page /\ visited' = visited
  BY DEF TurnsBecome
<1>2. /\ ask' \in [Pages -> Ask] /\ ask'[p] = t /\ \A o \in Pages \ {p} : ask'[o] = ask[o]
      /\ t.object = ask[p].object
  BY Becoming DEF TurnsBecome
<1>3. Busy(p) /\ ask[p].object \in Object /\ page[p].id # NoId
  BY DEF TurnsBecome, SessionInv, SessionHeld
<1>4. /\ turns' \in [Object -> Seq(Turn)] /\ turns'[ask[p].object] = new
      /\ \A x \in Object : x # ask[p].object => turns'[x] = turns[x]
  BY <1>3 DEF TurnsBecome, Types
<1>5. /\ \A o \in Pages : (Busy(o)' <=> Busy(o)) /\ ask'[o].object = ask[o].object
      /\ t.pc # "idle" /\ t.pc \notin Searching
  BY <1>2, <1>3 DEF Busy, TurnsBecome, Searching, Embedding
<1>6. SessionHeld'
  BY <1>1, <1>5 DEF SessionInv, SessionHeld
<1>7. NothingFree'
  <2>1. ASSUME NEW x \in FreeObjects'  PROVE turns'[x] = <<>>
    <3>1. x \in FreeObjects /\ x # ask[p].object /\ x \in Object
      BY <1>1, <1>5, <2>1 DEF FreeObjects, Stored, Held
    <3>. QED  BY <1>4, <3>1 DEF SessionInv, NothingFree
  <2>. QED  BY <2>1 DEF NothingFree
<1>8. AloneContinued'
  <2>1. ASSUME NEW o \in Pages, Alone(o)'  PROVE Continued(o)'
    <3>1. Alone(o) /\ Continued(o)
      BY <1>1, <2>1 DEF SessionInv, AloneContinued, Alone
    <3>2. CASE o = p
      BY <1>1, <1>2, <1>3, <1>4, <1>5, <3>1, <3>2 DEF Continued, TurnsBecome
    <3>3. CASE o # p
      <4>1. page[o].id # page[p].id
        BY <1>3, <3>1, <3>3, NotAlone DEF SessionInv
      <4>2. page[o].id \in SessionIds => store[page[o].id] # ask[p].object
        BY <1>3, <4>1 DEF SessionInv, SessionHeld
      <4>3. ask[o].object # ask[p].object
        BY <1>3, <4>1 DEF SessionInv, SessionHeld
      <4>4. page[o].id # NoId => page[o].id \in SessionIds
        BY DEF Types
      <4>5. page[o].id # NoId =>
              store[page[o].id] = 0 \/ turns'[store[page[o].id]] = turns[store[page[o].id]]
        BY <1>4, <4>2, <4>4 DEF Types
      <4>6. ask[o].pc = "read" => turns'[ask[o].object] = turns[ask[o].object]
        BY <1>4, <4>3 DEF SessionInv, SessionHeld, Busy
      <4>. QED  BY <1>1, <1>2, <1>5, <3>1, <3>3, <4>5, <4>6 DEF Continued
    <3>. QED  BY <3>2, <3>3
  <2>. QED  BY <2>1 DEF AloneContinued
<1>. QED  BY <1>4, <1>6, <1>7, <1>8 DEF SessionInv

(* What the look-up of one session means for the pages of others.          *)
LEMMA GotBesides ==
  ASSUME Types, SessionInv, NEW s \in SessionIds, NEW o \in Object, Got(s, o), NEW x \in Pages
  PROVE  /\ Busy(x) => /\ turns'[ask[x].object] = turns[ask[x].object]
                       /\ \A y \in SessionIds : store'[y] = ask[x].object => y = page[x].id
                       /\ ask[x].object = o => page[x].id = s
         /\ page[x].id \notin {NoId, s} =>
              \/ store'[page[x].id] = 0
              \/ /\ store'[page[x].id] = store[page[x].id]
                 /\ turns'[store[page[x].id]] = turns[store[page[x].id]]
<1>1. ASSUME Busy(x)
      PROVE  /\ turns'[ask[x].object] = turns[ask[x].object]
             /\ \A y \in SessionIds : store'[y] = ask[x].object => y = page[x].id
             /\ ask[x].object = o => page[x].id = s
  <2>1. ask[x].object \in Object /\ Held(ask[x].object)
    BY <1>1 DEF SessionInv, SessionHeld, Held
  <2>2. ask[x].object # 0
    BY <2>1, NoObject
  <2>3. ask[x].object = o => store[s] = o
    BY <2>1, FreeIs DEF Got
  <2>4. ask[x].object = o => page[x].id = s
    BY <1>1, <2>3 DEF SessionInv, SessionHeld
  <2>5. ASSUME NEW y \in SessionIds, store'[y] = ask[x].object  PROVE y = page[x].id
    <3>1. CASE y = s
      BY <2>4, <2>5, <3>1 DEF Got
    <3>2. CASE y # s
      BY <1>1, <2>2, <2>5, <3>2 DEF Got, SessionInv, SessionHeld
    <3>. QED  BY <3>1, <3>2
  <2>. QED  BY <2>1, <2>4, <2>5 DEF Got
<1>2. ASSUME page[x].id \notin {NoId, s}, store'[page[x].id] # 0
      PROVE  /\ store'[page[x].id] = store[page[x].id]
             /\ turns'[store[page[x].id]] = turns[store[page[x].id]]
  <2>1. page[x].id \in SessionIds \ {s}
    BY <1>2 DEF Types
  <2>. QED  BY <1>2, <2>1 DEF Got
<1>. QED  BY <1>1, <1>2

(* A page that is alone goes on when another page is opened or asks.       *)
LEMMA GotContinues ==
  ASSUME Types, SessionInv, NEW s \in SessionIds, NEW o \in Object, Got(s, o), NEW x \in Pages,
         Alone(x), page[x].id # s, page'[x] = page[x], ask'[x] = ask[x]
  PROVE  Continued(x)'
<1>1. Continued(x)
  BY DEF SessionInv, AloneContinued
<1>2. (Busy(x)' <=> Busy(x)) /\ (Busy(x) => page[x].id # NoId)
  BY DEF Busy, SessionInv, SessionHeld
<1>3. page[x].id # NoId =>
              \/ store'[page[x].id] = 0
              \/ /\ store'[page[x].id] = store[page[x].id]
                 /\ turns'[store[page[x].id]] = turns[store[page[x].id]]
  BY GotBesides
<1>4. ask[x].pc = "read" => turns'[ask[x].object] = turns[ask[x].object]
  BY GotBesides DEF Busy
<1>. QED  BY <1>1, <1>2, <1>3, <1>4 DEF Continued

LEMMA AskKeeps ==
  ASSUME Types, SessionInv, NEW p \in Pages, NEW o \in Object, Got(page[p].id, o),
         ~Busy(p), page[p].id # NoId, NEW t \in Ask, Becomes(p, t), t.object = o,
         t.pc = (IF turns'[o] = <<>> /\ page[p].history # <<>> THEN "restore" ELSE "read"),
         page' = page, visited' = visited
  PROVE  SessionInv'
<1>1. PICK s \in SessionIds : s = page[p].id
  BY DEF Types
<1>2. /\ ask' \in [Pages -> Ask] /\ ask'[p] = t /\ \A x \in Pages \ {p} : ask'[x] = ask[x]
  BY Becoming
<1>3. /\ Busy(p)' /\ ask[p].object = 0 /\ t.pc \notin Searching
      /\ \A x \in Pages \ {p} : Busy(x)' <=> Busy(x)
  BY <1>2 DEF Busy, SessionInv, SessionHeld, Searching, Embedding
<1>4. StoreListed' /\ store'[s] = o /\ o # 0
  BY <1>1, NoObject DEF Got
<1>5. <<p, s>> \in visited
  BY <1>1 DEF SessionInv, SessionHeld
<1>6. SessionHeld'
  <2>1. ASSUME NEW x \in Pages
        PROVE  /\ IF Busy(x)' THEN ask'[x].object \in Object /\ page[x].id # NoId
                              ELSE ask'[x].object = 0
               /\ page[x].id # NoId => <<x, page[x].id>> \in visited
    BY <1>2, <1>3 DEF SessionInv, SessionHeld
  <2>2. ASSUME NEW x \in Pages, Busy(x)', NEW y \in SessionIds, store'[y] = ask'[x].object
        PROVE  y = page[x].id
    <3>1. CASE x = p
      BY <1>1, <1>2, <1>4, <2>2, <3>1 DEF StoreListed
    <3>2. CASE x # p
      BY <1>1, <1>2, <1>3, <2>2, <3>2, GotBesides
    <3>. QED  BY <3>1, <3>2
  <2>3. ASSUME NEW x \in Pages, NEW y \in Pages, Busy(x)', ask'[y].object = ask'[x].object
        PROVE  page[y].id = page[x].id
    <3>1. CASE x # p /\ y # p
      BY <1>2, <1>3, <2>3, <3>1 DEF SessionInv, SessionHeld
    <3>2. CASE x = p /\ y # p
      <4>0. ask[y].object = o
        BY <1>2, <2>3, <3>2
      <4>1. Busy(y)
        BY <1>4, <4>0 DEF SessionInv, SessionHeld
      <4>. QED  BY <1>1, <3>2, <4>0, <4>1, GotBesides
    <3>3. CASE x # p /\ y = p
      <4>1. ask[x].object = o /\ Busy(x)
        BY <1>2, <1>3, <2>3, <3>3
      <4>. QED  BY <1>1, <3>3, <4>1, GotBesides
    <3>. QED  BY <3>1, <3>2, <3>3
  <2>. QED  BY <2>1, <2>2, <2>3 DEF SessionHeld
<1>7. NothingFree'
  <2>1. ASSUME NEW x \in FreeObjects'  PROVE turns'[x] = <<>>
    <3>1. x \in Object /\ ~Held(x) /\ \A y \in SessionIds : store'[y] # x
      BY <1>2, <1>3, <2>1, NoObject DEF FreeObjects, Stored, Held
    <3>. QED  BY <3>1 DEF Got
  <2>. QED  BY <2>1 DEF NothingFree
<1>8. Continued(p)'  \/ ~Alone(p)
  <2>1. SUFFICES ASSUME Alone(p)  PROVE Continued(p)'
    OBVIOUS
  <2>2. ASSUME t.pc = "read"  PROVE IsSuffix(page[p].history, turns'[o])
    <3>1. turns'[o] \in Seq(Turn) /\ page[p].history \in Seq(Turn)
      BY DEF Got, Types
    <3>2. CASE turns'[o] = <<>>
      BY <2>2, <3>1, <3>2, EmptyIsSuffix
    <3>3. CASE turns'[o] # <<>>
      <4>1. store[s] = o
        BY <1>1, <3>3 DEF Got
      <4>2. turns'[o] = turns[o]
        BY <1>1, <1>4 DEF Got
      <4>3. Continued(p)
        BY <2>1 DEF SessionInv, AloneContinued
      <4>. QED  BY <1>1, <1>4, <3>3, <4>1, <4>2, <4>3 DEF Continued
    <3>. QED  BY <3>2, <3>3
  <2>. QED  BY <1>1, <1>2, <1>3, <1>4, <2>2 DEF Continued
<1>9. AloneContinued'
  <2>1. ASSUME NEW x \in Pages, Alone(x)'  PROVE Continued(x)'
    <3>1. Alone(x)
      BY <2>1 DEF Alone
    <3>2. CASE x = p
      BY <1>8, <3>1, <3>2
    <3>3. CASE x # p
      <4>1. page[x].id # s
        BY <1>5, <3>1, <3>3 DEF Alone
      <4>. QED  BY <1>1, <1>2, <3>1, <3>3, <4>1, GotContinues
    <3>. QED  BY <3>2, <3>3
  <2>. QED  BY <2>1 DEF AloneContinued
<1>. QED  BY <1>4, <1>6, <1>7, <1>9 DEF SessionInv

LEMMA LoadKeeps ==
  ASSUME Types, SessionInv, NEW p \in Pages, NEW s \in SessionIds, NEW o \in Object, Got(s, o),
         ~Busy(p), page' = [page EXCEPT ![p] = [id |-> s, history |-> LastOf(ClientMax, turns'[o])]],
         visited' = visited \cup {<<p, s>>}, ask' = ask
  PROVE  /\ page' \in [Pages -> [id: SessionIds \cup {NoId}, history: Seq(Turn)]]
         /\ \A x \in Pages : Len(page'[x].history) <= ClientMax
         /\ SessionInv'
<1>1. PICK h : h = LastOf(ClientMax, turns'[o])
  OBVIOUS
<1>2. turns'[o] \in Seq(Turn) /\ ClientMax \in Nat \ {0} /\ HistoryMax \in Nat
  BY SizesAssumption DEF Got
<1>3. h \in Seq(Turn) /\ Len(h) <= ClientMax /\ IsSuffix(h, turns'[o])
  BY <1>1, <1>2, LastOfIs
<1>4. /\ page' \in [Pages -> [id: SessionIds \cup {NoId}, history: Seq(Turn)]]
      /\ page'[p].id = s /\ page'[p].history = h
      /\ \A x \in Pages \ {p} : page'[x] = page[x]
  BY <1>1, <1>3 DEF Types
<1>5. \A x \in Pages : Len(page'[x].history) <= ClientMax
  BY <1>3, <1>4 DEF Types
<1>6. StoreListed' /\ store'[s] = o /\ s # NoId /\ ask[p].object = 0
  BY NoIdAssumption DEF Got, SessionInv, SessionHeld
<1>7. \A x \in Pages : Busy(x)' <=> Busy(x)
  BY DEF Busy
<1>8. SessionHeld'
  <2>1. ASSUME NEW x \in Pages
        PROVE  /\ IF Busy(x) THEN ask[x].object \in Object /\ page'[x].id # NoId
                             ELSE ask[x].object = 0
               /\ page'[x].id # NoId => <<x, page'[x].id>> \in visited'
    BY <1>4, <1>6 DEF SessionInv, SessionHeld
  <2>2. ASSUME NEW x \in Pages, Busy(x), NEW y \in SessionIds, store'[y] = ask[x].object
        PROVE  y = page'[x].id
    BY <1>4, <2>2, GotBesides
  <2>3. ASSUME NEW x \in Pages, NEW y \in Pages, Busy(x), ask[y].object = ask[x].object
        PROVE  page'[y].id = page'[x].id
    <3>1. ask[x].object # 0
      BY <2>3, NoObject DEF SessionInv, SessionHeld
    <3>2. x # p /\ y # p
      BY <1>6, <2>3, <3>1
    <3>. QED  BY <1>4, <2>3, <3>2 DEF SessionInv, SessionHeld
  <2>. QED  BY <1>7, <2>1, <2>2, <2>3 DEF SessionHeld
<1>9. NothingFree'
  <2>1. ASSUME NEW x \in FreeObjects'  PROVE turns'[x] = <<>>
    <3>1. x \in Object /\ ~Held(x) /\ \A y \in SessionIds : store'[y] # x
      BY <2>1 DEF FreeObjects, Stored, Held
    <3>. QED  BY <3>1 DEF Got
  <2>. QED  BY <2>1 DEF NothingFree
<1>10. AloneContinued'
  <2>1. ASSUME NEW x \in Pages, Alone(x)'  PROVE Continued(x)'
    <3>1. CASE x = p
      BY <1>3, <1>4, <1>6, <1>7, <3>1 DEF Continued, Busy, Searching, Embedding
    <3>2. CASE x # p
      <4>1. page'[x] = page[x] /\ page[x].id # s /\ Alone(x)
        BY <1>4, <2>1, <3>2 DEF Alone
      <4>. QED  BY <3>2, <4>1, GotContinues
    <3>. QED  BY <3>1, <3>2
  <2>. QED  BY <2>1 DEF AloneContinued
<1>. QED  BY <1>4, <1>5, <1>6, <1>8, <1>9, <1>10 DEF SessionInv

LEMMA AssignKeeps ==
  ASSUME Types, SessionInv, NEW p \in Pages, At(p, "assign"), AssignTurns(p)
  PROVE  /\ turns' \in [Object -> Seq(Turn)]
         /\ page' \in [Pages -> [id: SessionIds \cup {NoId}, history: Seq(Turn)]]
         /\ \A x \in Pages : Len(page'[x].history) <= ClientMax
         /\ used' \in Seq(SessionIds)
         /\ SessionInv'
<1>1. PICK r \in Ask : r = ask[p]
  BY DEF Types
<1>2. PICK l \in Seq(Turn) : l = r.list
  BY DEF Ask
<1>3. PICK h : h = LastOf(ClientMax, l)
  OBVIOUS
<1>4. ClientMax \in Nat \ {0}
  BY SizesAssumption
<1>5. h \in Seq(Turn) /\ Len(h) <= ClientMax /\ IsSuffix(h, l)
  BY <1>3, <1>4, LastOfIs
<1>6. PICK b \in Object : b = ask[p].object
  BY DEF SessionInv, SessionHeld, Busy, At
<1>7. PICK new \in Seq(Turn) :
        /\ new = IF Stored(b) \/ \E o \in Pages \ {p} : ask[o].object = b THEN l ELSE <<>>
        /\ turns' = [turns EXCEPT ![b] = new]
  <2>1. turns' = [turns EXCEPT ![b] =
                    IF Stored(b) \/ \E o \in Pages \ {p} : ask[o].object = b THEN l ELSE <<>>]
    BY <1>1, <1>2, <1>6 DEF AssignTurns, AssignAndSend
  <2>2. l \in Seq(Turn) /\ <<>> \in Seq(Turn)
    OBVIOUS
  <2>3. CASE Stored(b) \/ \E o \in Pages \ {p} : ask[o].object = b
    BY <2>1, <2>2, <2>3
  <2>4. CASE ~(Stored(b) \/ \E o \in Pages \ {p} : ask[o].object = b)
    BY <2>1, <2>2, <2>4
  <2>. QED  BY <2>3, <2>4
<1>8. /\ store' = store /\ visited' = visited /\ Touch(b)
      /\ page' = [page EXCEPT ![p].history = h] /\ Becomes(p, Idle)
  BY <1>1, <1>2, <1>3, <1>6 DEF AssignTurns, AssignAndSend, Becomes
<1>9. used' \in Seq(SessionIds) /\ StoreListed'
  BY <1>8, TouchKeeps DEF SessionInv
<1>10. /\ page' \in [Pages -> [id: SessionIds \cup {NoId}, history: Seq(Turn)]]
       /\ page'[p].history = h /\ page'[p].id = page[p].id
       /\ \A x \in Pages \ {p} : page'[x] = page[x]
  BY <1>5, <1>8 DEF Types
<1>11. \A x \in Pages : Len(page'[x].history) <= ClientMax
  BY <1>5, <1>10 DEF Types
<1>12. /\ turns' \in [Object -> Seq(Turn)] /\ turns'[b] = new
       /\ \A x \in Object : x # b => turns'[x] = turns[x]
  BY <1>7 DEF Types
<1>13. /\ ask' \in [Pages -> Ask] /\ ask'[p] = Idle /\ \A x \in Pages \ {p} : ask'[x] = ask[x]
       /\ Idle.pc = "idle" /\ Idle.object = 0
  BY <1>8, IdleIs, Becoming
<1>14. Busy(p) /\ ~Busy(p)' /\ \A x \in Pages \ {p} : Busy(x)' <=> Busy(x)
  BY <1>13 DEF Busy, At
<1>15. SessionHeld'
  <2>1. \A x \in Pages : page'[x].id = page[x].id
    BY <1>10
  <2>2. ASSUME NEW x \in Pages
        PROVE  /\ IF Busy(x)' THEN ask'[x].object \in Object /\ page[x].id # NoId
                              ELSE ask'[x].object = 0
               /\ page[x].id # NoId => <<x, page[x].id>> \in visited
    BY <1>13, <1>14 DEF SessionInv, SessionHeld
  <2>3. ASSUME NEW x \in Pages, Busy(x)'
        PROVE  /\ \A y \in SessionIds : store[y] = ask'[x].object => y = page[x].id
               /\ \A y \in Pages : ask'[y].object = ask'[x].object => page[y].id = page[x].id
    <3>1. x # p /\ Busy(x) /\ ask'[x] = ask[x] /\ ask[x].object # 0
      BY <1>13, <1>14, <2>3, NoObject DEF SessionInv, SessionHeld
    <3>. QED  BY <1>13, <3>1 DEF SessionInv, SessionHeld
  <2>. QED  BY <1>8, <2>1, <2>2, <2>3 DEF SessionHeld
<1>16. NothingFree'
  <2>1. ASSUME NEW x \in FreeObjects'  PROVE turns'[x] = <<>>
    <3>1. x \in Object /\ ~Stored(x) /\ \A y \in Pages \ {p} : ask[y].object # x
      BY <1>8, <1>13, <2>1 DEF FreeObjects, Stored, Held
    <3>2. CASE x = b
      BY <1>7, <1>12, <3>1, <3>2
    <3>3. CASE x # b
      <4>1. x \in FreeObjects
        BY <1>6, <3>1, <3>3 DEF FreeObjects, Held
      <4>. QED  BY <1>12, <3>1, <3>3, <4>1 DEF SessionInv, NothingFree
    <3>. QED  BY <3>2, <3>3
  <2>. QED  BY <2>1 DEF NothingFree
<1>17. AloneContinued'
  <2>1. ASSUME NEW x \in Pages, Alone(x)'  PROVE Continued(x)'
    <3>1. Alone(x) /\ Continued(x)
      BY <1>8, <1>10, <2>1 DEF SessionInv, AloneContinued, Alone
    <3>2. CASE x = p
      <4>1. page[p].id \in SessionIds
        BY <1>14 DEF SessionInv, SessionHeld, Types
      <4>2. store[page[p].id] = 0 \/ store[page[p].id] = b
        BY <1>6, <1>14, <3>1, <3>2 DEF Continued
      <4>3. store[page[p].id] = b => new = l
        BY <1>7, <4>1 DEF Stored
      <4>. QED  BY <1>5, <1>8, <1>10, <1>12, <1>13, <1>14, <3>2, <4>2, <4>3
                DEF Continued, Searching, Embedding
    <3>3. CASE x # p
      <4>1. page[x].id # page[p].id
        BY <1>14, <3>1, <3>3, NotAlone DEF SessionInv
      <4>2. page[x].id \in SessionIds => store[page[x].id] # b
        BY <1>6, <1>14, <4>1 DEF SessionInv, SessionHeld
      <4>3. ask[x].object # b
        BY <1>6, <1>14, <4>1 DEF SessionInv, SessionHeld
      <4>4. page[x].id # NoId => page[x].id \in SessionIds
        BY DEF Types
      <4>5. page[x].id # NoId =>
              store[page[x].id] = 0 \/ turns'[store[page[x].id]] = turns[store[page[x].id]]
        BY <1>12, <4>2, <4>4 DEF Types
      <4>6. ask[x].pc = "read" => turns'[ask[x].object] = turns[ask[x].object]
        BY <1>12, <4>3 DEF SessionInv, SessionHeld, Busy
      <4>. QED  BY <1>8, <1>10, <1>13, <1>14, <3>1, <3>3, <4>5, <4>6 DEF Continued
    <3>. QED  BY <3>2, <3>3
  <2>. QED  BY <2>1 DEF AloneContinued
<1>. QED  BY <1>9, <1>10, <1>11, <1>12, <1>15, <1>16, <1>17 DEF SessionInv

-----------------------------------------------------------------------------
(* The invariant is inductive.                                             *)

LEMMA InitSatisfies == Init => ChatInv
<1>. SUFFICES ASSUME Init  PROVE ChatInv
  OBVIOUS
<1>1. Types
  <2>1. \A p \in Pages : Len(page[p].history) <= ClientMax
    BY SizesAssumption DEF Init
  <2>. QED  BY <2>1, IdleIs DEF Init, Types
<1>2. SearchInv /\ CacheLimited
  <2>1. Quiet(Idle) /\ \A p \in Pages : ask[p] = Idle
    BY IdleIs DEF Init, Quiet, Searching, Embedding
  <2>2. Len(cache) <= CacheMax
    BY SizesAssumption DEF Init
  <2>. QED  BY <2>1, <2>2, IdleIs, QuietIs DEF SearchInv, CacheLimited
<1>3. StoreListed
  BY SizesAssumption DEF Init, StoreListed, Unique, ToSet
<1>4. SessionHeld /\ NothingFree
  BY IdleIs DEF Init, SessionHeld, NothingFree, FreeObjects, Busy
<1>5. AloneContinued
  BY IdleIs DEF Init, AloneContinued, Continued, Busy, Searching, Embedding
<1>. QED  BY <1>1, <1>2, <1>3, <1>4, <1>5 DEF ChatInv, SessionInv

(* What every step that leaves the mailbox alone has to show for Types.    *)
LEMMA TypesAre ==
  ASSUME Types, mailbox' = mailbox,
         store' \in [SessionIds -> Object \cup {0}], used' \in Seq(SessionIds),
         turns' \in [Object -> Seq(Turn)], cache' \in Seq(Documents),
         page' \in [Pages -> [id: SessionIds \cup {NoId}, history: Seq(Turn)]],
         \A p \in Pages : Len(page'[p].history) <= ClientMax,
         ask' \in [Pages -> Ask]
  PROVE  Types'
BY DEF Types

LEMMA SearchStepKeeps ==
  ASSUME ChatInv, NEW p \in Pages, SearchStep(p)
  PROVE  ChatInv'
<1>1. /\ Types /\ SearchInv /\ CacheLimited /\ SessionInv
  BY DEF ChatInv
<1>2. ask[p].pc \in Searching
  BY DEF SearchStep, PlanQuery, EmbedQuery, EmbedDocuments, EmbeddingFails, Evict, EvictAbove, Pop,
         Score, Answer, AnswerFromContext, At, Searching, Embedding
<1>3. UNCHANGED <<mailbox, store, used, turns, page, visited>>
  BY DEF SearchStep, PlanQuery, EmbedQuery, EmbedDocuments, EmbeddingFails, Evict, EvictAbove, Pop,
         Score, Answer, AnswerFromContext, sessionVars
<1>3a. EmbedDocuments(p) \/ Pop(p) \/ cache' = cache
  BY DEF SearchStep, PlanQuery, EmbedQuery, EmbeddingFails, Evict, EvictAbove, Score, Answer,
         AnswerFromContext
<1>4. Written(p) \/ (cache' = cache /\ Searched(p))
  <2>1. CASE EmbedDocuments(p)
    BY <1>1, <2>1, EmbedDocumentsWrites
  <2>2. CASE Pop(p)
    BY <1>1, <2>2, PopWrites
  <2>3. ASSUME PlanQuery(p)  PROVE Searched(p)
    BY <1>1, <2>3, PlanQuerySearches
  <2>4. ASSUME EmbedQuery(p)  PROVE Searched(p)
    BY <1>1, <2>4, EmbedQuerySearches
  <2>5. ASSUME EmbeddingFails(p)  PROVE Searched(p)
    BY <1>1, <2>5, EmbeddingFailsSearches
  <2>6. ASSUME Evict(p)  PROVE Searched(p)
    BY <1>1, <2>6, EvictSearches
  <2>7. ASSUME Score(p)  PROVE Searched(p)
    BY <1>1, <2>7, ScoreSearches
  <2>8. ASSUME Answer(p)  PROVE Searched(p)
    BY <1>1, <2>8, AnswerSearches
  <2>9. ASSUME AnswerFromContext(p)  PROVE Searched(p)
    BY <1>1, <2>9, AnswerFromContextSearches
  <2>. QED  BY <1>3a, <2>1, <2>2, <2>3, <2>4, <2>5, <2>6, <2>7, <2>8, <2>9 DEF SearchStep
<1>5. ask' \in [Pages -> Ask] /\ cache' \in Seq(Documents) /\ SearchInv' /\ CacheLimited'
  <2>1. CASE Written(p)
    BY <1>1, <2>1, WrittenKeeps DEF Written
  <2>2. CASE cache' = cache /\ Searched(p)
    BY <1>1, <2>2, SearchedKeeps DEF Types
  <2>. QED  BY <1>4, <2>1, <2>2
<1>6. ASSUME NEW o \in Pages
      PROVE  /\ ask'[o].object = ask[o].object
             /\ (ask'[o].pc = "idle") = (ask[o].pc = "idle")
             /\ ask'[o].pc = "read" => ask[o].pc = "read"
             /\ ask'[o].pc \in Searching => ask[o].pc \in Searching /\ ask'[o].seen = ask[o].seen
  <2>1. CASE Written(p)
    BY <1>2, <2>1 DEF Written, SameQuestion, Searching, Embedding
  <2>2. CASE cache' = cache /\ Searched(p)
    <3>1. PICK t \in Ask : Becomes(p, t) /\ SameQuestion(t, ask[p]) /\ t.pc \in Searching
      BY <2>2 DEF Searched
    <3>2. ask'[p] = t /\ \A x \in Pages \ {p} : ask'[x] = ask[x]
      BY <1>1, <3>1, Becoming
    <3>. QED  BY <1>2, <3>1, <3>2 DEF SameQuestion, Searching, Embedding
  <2>. QED  BY <1>4, <2>1, <2>2
<1>7. SessionInv'
  BY <1>1, <1>3, <1>6, SameSessionsKeep DEF SameSessions
<1>8. Types'
  BY <1>1, <1>3, <1>5, TypesAre DEF Types
<1>. QED  BY <1>5, <1>7, <1>8 DEF ChatInv

LEMMA LoadStep ==
  ASSUME ChatInv, NEW p \in Pages, NEW s \in SessionIds, Load(p, s)
  PROVE  ChatInv'
<1>1. /\ Types /\ SearchInv /\ CacheLimited /\ SessionInv
  BY DEF ChatInv
<1>2. PICK o \in Object :
        /\ GetOrCreate(s, o)
        /\ page' = [page EXCEPT ![p] = [id |-> s, history |-> LastOf(ClientMax, turns'[o])]]
  BY DEF Load
<1>3. /\ ~Busy(p) /\ visited' = visited \cup {<<p, s>>}
      /\ mailbox' = mailbox /\ cache' = cache /\ ask' = ask
  BY DEF Load, Busy, At
<1>4. Got(s, o)
  BY <1>1, <1>2, GetOrCreateGets DEF SessionInv
<1>5. /\ page' \in [Pages -> [id: SessionIds \cup {NoId}, history: Seq(Turn)]]
      /\ \A x \in Pages : Len(page'[x].history) <= ClientMax
      /\ SessionInv'
  BY <1>1, <1>2, <1>3, <1>4, LoadKeeps
<1>6. SearchInv' /\ CacheLimited'
  BY <1>1, <1>3 DEF SearchInv, CacheLimited
<1>7. Types'
  BY <1>1, <1>3, <1>4, <1>5, TypesAre DEF Got, Types
<1>. QED  BY <1>5, <1>6, <1>7 DEF ChatInv

LEMMA AskStep ==
  ASSUME ChatInv, NEW p \in Pages, NEW q \in Questions, AskQuestion(p, q)
  PROVE  ChatInv'
<1>1. /\ Types /\ SearchInv /\ CacheLimited /\ SessionInv
  BY DEF ChatInv
<1>2. PICK o \in Object :
        /\ GetOrCreate(page[p].id, o)
        /\ ask' = [ask EXCEPT ![p] = [Idle EXCEPT !.object = o, !.q = q,
             !.pc = IF turns'[o] = <<>> /\ page[p].history # <<>> THEN "restore" ELSE "read"]]
  BY DEF AskQuestion
<1>3. /\ ~Busy(p) /\ page[p].id # NoId
      /\ mailbox' = mailbox /\ cache' = cache /\ page' = page /\ visited' = visited
  BY DEF AskQuestion, Busy, At
<1>4. PICK s \in SessionIds : s = page[p].id
  BY <1>1, <1>3 DEF Types
<1>5. Got(s, o)
  BY <1>1, <1>2, <1>4, GetOrCreateGets DEF SessionInv
<1>6. PICK pc \in {"restore", "read"} :
        pc = IF turns'[o] = <<>> /\ page[p].history # <<>> THEN "restore" ELSE "read"
  OBVIOUS
<1>7. PICK i \in Ask : i = Idle /\ Quiet(i)
  BY IdleIs DEF Quiet, Searching, Embedding
<1>. DEFINE t == [i EXCEPT !.object = o, !.q = q, !.pc = pc]
<1>8. Becomes(p, t)
  BY <1>2, <1>6, <1>7 DEF Becomes
<1>9. q \in Question
  BY QuestionsAssumption
<1>10. t \in Ask /\ t.object = o /\ t.pc = pc /\ SameEvidence(t, i)
  BY <1>9 DEF Ask, SameEvidence
<1>. HIDE DEF t
<1>11. Quiet(t)
  BY <1>6, <1>7, <1>10 DEF Quiet, SameEvidence, Searching, Embedding
<1>12. ~Evicting(ask[p], cache)
  BY <1>3 DEF Busy, Evicting
<1>13. ask' \in [Pages -> Ask] /\ SearchInv' /\ CacheLimited'
  BY <1>1, <1>3, <1>8, <1>10, <1>11, <1>12, QuietKeeps
<1>14. SessionInv'
  BY <1>1, <1>3, <1>4, <1>5, <1>6, <1>8, <1>10, AskKeeps
<1>15. Types'
  BY <1>1, <1>3, <1>5, <1>13, TypesAre DEF Got, Types
<1>. QED  BY <1>13, <1>14, <1>15 DEF ChatInv

LEMMA RestoreStep ==
  ASSUME ChatInv, NEW p \in Pages, RestoreCompactHistory(p)
  PROVE  ChatInv'
<1>1. /\ Types /\ SearchInv /\ CacheLimited /\ SessionInv
  BY DEF ChatInv
<1>2. PICK r \in Ask : r = ask[p] /\ r.pc = "restore"
  BY <1>1 DEF Types, RestoreCompactHistory, At
<1>3. PICK b \in Object : b = r.object /\ b = ask[p].object
  BY <1>1, <1>2 DEF SessionInv, SessionHeld, Busy
<1>4. PICK h \in Seq(Turn) : h = page[p].history /\ Len(h) <= ClientMax
  BY <1>1 DEF Types
<1>5. HistoryMax \in Nat \ {0} /\ ClientMax \in Nat /\ ClientMax <= HistoryMax
  BY SizesAssumption
<1>6. PICK u \in Seq(Turn) : u = turns[b]
  BY <1>1 DEF Types
<1>7. u \o h \in Seq(Turn) /\ IsSuffix(h, u \o h)
  BY EndIsSuffix
<1>8. PICK both \in Seq(Turn) : both = u \o h /\ IsSuffix(h, both)
  BY <1>7
<1>9. LastOf(HistoryMax, both) \in Seq(Turn) /\ IsSuffix(h, LastOf(HistoryMax, both))
  <2>1. Len(h) <= HistoryMax
    BY <1>4, <1>5
  <2>. QED  BY <1>5, <1>8, <2>1, LastOfIs
<1>10. PICK new \in Seq(Turn) : new = LastOf(HistoryMax, both) /\ IsSuffix(h, new)
  BY <1>9
<1>11. turns' = [turns EXCEPT ![b] = new]
  BY <1>3, <1>4, <1>6, <1>8, <1>10 DEF RestoreCompactHistory
<1>12. PICK t : t = [r EXCEPT !.pc = "read"]
  OBVIOUS
<1>13. t \in Ask /\ t.pc = "read" /\ SameQuestion(t, r) /\ SameEvidence(t, r)
  BY <1>12, PcSet
<1>14. Becomes(p, t)
  BY <1>2, <1>12 DEF RestoreCompactHistory, Becomes
<1>15. /\ Touch(b) /\ store' = store /\ page' = page /\ visited' = visited
       /\ mailbox' = mailbox /\ cache' = cache
  BY <1>3 DEF RestoreCompactHistory
<1>16. used' \in Seq(SessionIds) /\ StoreListed'
  BY <1>1, <1>15, TouchKeeps DEF SessionInv
<1>17. TurnsBecome(p, new, t)
  BY <1>2, <1>3, <1>4, <1>10, <1>11, <1>13, <1>14, <1>15
     DEF TurnsBecome, SameQuestion, Busy
<1>18. turns' \in [Object -> Seq(Turn)] /\ SessionInv'
  BY <1>1, <1>13, <1>16, <1>17, TurnsBecomeKeeps
<1>19. Quiet(t) /\ ~Evicting(ask[p], cache)
  BY <1>1, <1>2, <1>13
     DEF SearchInv, Evidence, Quiet, SameEvidence, Searching, Embedding, Evicting
<1>20. ask' \in [Pages -> Ask] /\ SearchInv' /\ CacheLimited'
  BY <1>1, <1>13, <1>14, <1>15, <1>19, QuietKeeps
<1>21. Types'
  BY <1>1, <1>15, <1>16, <1>18, <1>20, TypesAre DEF Types
<1>. QED  BY <1>18, <1>20, <1>21 DEF ChatInv

LEMMA AppendStep ==
  ASSUME ChatInv, NEW p \in Pages, AppendTurn(p)
  PROVE  ChatInv'
<1>1. /\ Types /\ SearchInv /\ CacheLimited /\ SessionInv
  BY DEF ChatInv
<1>2. PICK r \in Ask : r = ask[p] /\ r.pc = "append"
  BY <1>1 DEF Types, AppendTurn, At
<1>3. PICK b \in Object : b = r.object /\ b = ask[p].object
  BY <1>1, <1>2 DEF SessionInv, SessionHeld, Busy
<1>. DEFINE failed == r.from \in {"no_model", "no_vector"}
<1>4. PICK e \in BOOLEAN : e = failed
  <2>. HIDE DEF failed
  <2>1. CASE failed
    <3>1. failed = TRUE  BY <2>1
    <3>. QED  BY <3>1
  <2>2. CASE ~failed
    <3>1. failed = FALSE  BY <2>2
    <3>. QED  BY <3>1
  <2>. QED  BY <2>1, <2>2
<1>5. PICK turn \in Turn : turn = [ids |-> r.q.ids, results |-> r.results, error |-> e]
  <2>1. r.q.ids \in SUBSET (Mails \cup Refs) /\ r.results \in SUBSET Documents
    BY DEF Ask, Question
  <2>. QED  BY <2>1 DEF Turn
<1>6. PICK u \in Seq(Turn) : u = turns[b]
  BY <1>1 DEF Types
<1>7. PICK new \in Seq(Turn) : new = Append(u, turn)
  <2>1. Append(u, turn) \in Seq(Turn)
    BY AppendProperties
  <2>. QED  BY <2>1
<1>8. turns' = [turns EXCEPT ![b] = new]
  <2>1. [ids |-> ask[p].q.ids, results |-> ask[p].results,
         error |-> ask[p].from \in {"no_model", "no_vector"}] = turn
    BY <1>2, <1>4, <1>5, Zenon DEF failed
  <2>. HIDE DEF failed
  <2>2. turns' = [turns EXCEPT ![ask[p].object] = Append(turns[ask[p].object], turn)]
    BY <2>1, Zenon DEF AppendTurn
  <2>. QED  BY <1>3, <1>6, <1>7, <2>2
<1>9. PICK i \in Ask : i = Idle /\ Quiet(i)
  BY IdleIs DEF Quiet, Searching, Embedding
<1>. DEFINE t == [i EXCEPT !.pc = "slice", !.object = b]
<1>10. Becomes(p, t)
  BY <1>3, <1>9 DEF AppendTurn, Becomes
<1>11. t \in Ask /\ t.object = b /\ t.pc = "slice" /\ SameEvidence(t, i)
  BY DEF Ask, SameEvidence
<1>. HIDE DEF t, failed
<1>12. /\ store' = store /\ page' = page /\ visited' = visited /\ used' = used
       /\ mailbox' = mailbox /\ cache' = cache
  BY DEF AppendTurn
<1>13. StoreListed' /\ used' \in Seq(SessionIds)
  BY <1>1, <1>12 DEF SessionInv, StoreListed, Types
<1>14. TurnsBecome(p, new, t)
  BY <1>2, <1>3, <1>8, <1>10, <1>11, <1>12 DEF TurnsBecome, Busy
<1>15. turns' \in [Object -> Seq(Turn)] /\ SessionInv'
  BY <1>1, <1>11, <1>13, <1>14, TurnsBecomeKeeps
<1>16. Quiet(t) /\ ~Evicting(ask[p], cache)
  BY <1>2, <1>9, <1>11 DEF Quiet, SameEvidence, Searching, Embedding, Evicting
<1>17. ask' \in [Pages -> Ask] /\ SearchInv' /\ CacheLimited'
  BY <1>1, <1>10, <1>11, <1>12, <1>16, QuietKeeps
<1>18. Types'
  BY <1>1, <1>12, <1>13, <1>15, <1>17, TypesAre DEF Types
<1>. QED  BY <1>15, <1>17, <1>18 DEF ChatInv

LEMMA ReadStep ==
  ASSUME ChatInv, NEW p \in Pages, ReadTurns(p)
  PROVE  ChatInv'
<1>1. /\ Types /\ SearchInv /\ CacheLimited /\ SessionInv
  BY DEF ChatInv
<1>2. PICK r \in Ask : r = ask[p] /\ r.pc = "read"
  BY <1>1 DEF Types, ReadTurns, At
<1>3. PICK b \in Object : b = r.object /\ b = ask[p].object
  BY <1>1, <1>2 DEF SessionInv, SessionHeld, Busy
<1>4. PICK seen \in Seq(Turn) : seen = turns[b]
  BY <1>1 DEF Types
<1>5. PICK q \in Question : q = ResolveSearchQuery(r.q, seen)
  <2>1. r.q \in Question
    BY DEF Ask
  <2>. QED  BY <2>1, ResolvedIs
<1>. DEFINE t == [r EXCEPT !.pc = "plan", !.seen = seen, !.q = q]
<1>6. ask' = [ask EXCEPT ![p].pc = "plan", ![p].seen = seen, ![p].q = q]
  BY <1>2, <1>3, <1>4, <1>5 DEF ReadTurns
<1>7. Becomes(p, t)
  BY <1>2, <1>6 DEF Becomes
<1>8. t \in Ask /\ t.pc = "plan" /\ t.seen = seen /\ t.object = b /\ SameEvidence(t, r)
  BY <1>3 DEF Ask, SameEvidence
<1>. HIDE DEF t
<1>9. UNCHANGED <<mailbox, store, used, turns, cache, page, visited>>
  BY DEF ReadTurns, sessionVars
<1>10. Quiet(t) /\ ~Evicting(ask[p], cache)
  BY <1>1, <1>2, <1>8 DEF SearchInv, Evidence, Quiet, SameEvidence, Searching, Embedding, Evicting
<1>11. ask' \in [Pages -> Ask] /\ SearchInv' /\ CacheLimited'
  BY <1>1, <1>7, <1>8, <1>9, <1>10, QuietKeeps
<1>12. ask'[p] = t /\ \A o \in Pages \ {p} : ask'[o] = ask[o]
  BY <1>1, <1>7, <1>8, Becoming
<1>13. \A o \in Pages : (Busy(o)' <=> Busy(o)) /\ ask'[o].object = ask[o].object
  BY <1>2, <1>3, <1>8, <1>12 DEF Busy
<1>14. StoreListed' /\ SessionHeld' /\ NothingFree'
  BY <1>1, <1>9, <1>13
     DEF SessionInv, StoreListed, SessionHeld, NothingFree, FreeObjects, Stored, Held
<1>15. AloneContinued'
  <2>1. ASSUME NEW o \in Pages, Alone(o)'  PROVE Continued(o)'
    <3>1. Continued(o)
      BY <1>1, <1>9, <2>1 DEF SessionInv, AloneContinued, Alone
    <3>2. CASE o = p
      <4>1. IsSuffix(page[p].history, seen)
        BY <1>2, <1>3, <1>4, <3>1, <3>2 DEF Continued
      <4>. QED  BY <1>2, <1>8, <1>9, <1>12, <1>13, <3>1, <3>2, <4>1 DEF Continued, Busy
    <3>3. CASE o # p
      BY <1>9, <1>12, <1>13, <3>1, <3>3 DEF Continued
    <3>. QED  BY <3>2, <3>3
  <2>. QED  BY <2>1 DEF AloneContinued
<1>16. Types'
  BY <1>1, <1>9, <1>11, TypesAre DEF Types
<1>. QED  BY <1>11, <1>14, <1>15, <1>16 DEF ChatInv, SessionInv

LEMMA SliceStep ==
  ASSUME ChatInv, NEW p \in Pages, SliceTurns(p)
  PROVE  ChatInv'
<1>1. /\ Types /\ SearchInv /\ CacheLimited /\ SessionInv
  BY DEF ChatInv
<1>2. PICK r \in Ask : r = ask[p] /\ r.pc = "slice"
  BY <1>1 DEF Types, SliceTurns, At
<1>3. PICK b \in Object : b = r.object /\ b = ask[p].object
  BY <1>1, <1>2 DEF SessionInv, SessionHeld, Busy
<1>4. PICK u \in Seq(Turn) : u = turns[b]
  BY <1>1 DEF Types
<1>5. PICK l \in Seq(Turn) : l = LastOf(HistoryMax, u)
  <2>1. HistoryMax \in Nat \ {0}
    BY SizesAssumption
  <2>. QED  BY <2>1, LastOfIs
<1>. DEFINE t == [r EXCEPT !.pc = "assign", !.list = l]
<1>6. ask' = [ask EXCEPT ![p].pc = "assign", ![p].list = l]
  BY <1>2, <1>3, <1>4, <1>5 DEF SliceTurns
<1>7. Becomes(p, t)
  BY <1>2, <1>6 DEF Becomes
<1>8. t \in Ask /\ t.pc = "assign" /\ t.object = b /\ SameEvidence(t, r)
  BY <1>3 DEF Ask, SameEvidence
<1>. HIDE DEF t
<1>9. UNCHANGED <<mailbox, store, used, turns, cache, page, visited>>
  BY DEF SliceTurns, sessionVars
<1>10. Quiet(t) /\ ~Evicting(ask[p], cache)
  BY <1>1, <1>2, <1>8 DEF SearchInv, Evidence, Quiet, SameEvidence, Searching, Embedding, Evicting
<1>11. ask' \in [Pages -> Ask] /\ SearchInv' /\ CacheLimited'
  BY <1>1, <1>7, <1>8, <1>9, <1>10, QuietKeeps
<1>12. ask'[p] = t /\ \A o \in Pages \ {p} : ask'[o] = ask[o]
  BY <1>1, <1>7, <1>8, Becoming
<1>13. SameSessions
  <2>1. ASSUME NEW o \in Pages
        PROVE  /\ ask'[o].object = ask[o].object
               /\ (ask'[o].pc = "idle") = (ask[o].pc = "idle")
               /\ ask'[o].pc = "read" => ask[o].pc = "read"
               /\ ask'[o].pc \in Searching =>
                    ask[o].pc \in Searching /\ ask'[o].seen = ask[o].seen
    BY <1>2, <1>3, <1>8, <1>12 DEF Searching, Embedding
  <2>. QED  BY <1>9, <2>1 DEF SameSessions
<1>14. SessionInv'
  BY <1>1, <1>13, SameSessionsKeep
<1>15. Types'
  BY <1>1, <1>9, <1>11, TypesAre DEF Types
<1>. QED  BY <1>11, <1>14, <1>15 DEF ChatInv

LEMMA AssignStep ==
  ASSUME ChatInv, NEW p \in Pages, AssignTurns(p)
  PROVE  ChatInv'
<1>1. /\ Types /\ SearchInv /\ CacheLimited /\ SessionInv
  BY DEF ChatInv
<1>2. /\ At(p, "assign") /\ store' = store /\ mailbox' = mailbox /\ cache' = cache
      /\ Becomes(p, Idle)
  BY DEF AssignTurns, AssignAndSend, Becomes
<1>3. /\ turns' \in [Object -> Seq(Turn)]
      /\ page' \in [Pages -> [id: SessionIds \cup {NoId}, history: Seq(Turn)]]
      /\ \A x \in Pages : Len(page'[x].history) <= ClientMax
      /\ used' \in Seq(SessionIds)
      /\ SessionInv'
  BY <1>1, <1>2, AssignKeeps
<1>4. Idle \in Ask /\ Quiet(Idle)
  BY IdleIs DEF Quiet, Searching, Embedding
<1>5. ~Evicting(ask[p], cache)
  BY <1>2 DEF At, Evicting
<1>6. ask' \in [Pages -> Ask] /\ SearchInv' /\ CacheLimited'
  BY <1>1, <1>2, <1>4, <1>5, QuietKeeps
<1>7. Types'
  BY <1>1, <1>2, <1>3, <1>6, TypesAre DEF Types
<1>. QED  BY <1>3, <1>6, <1>7 DEF ChatInv

LEMMA RestartStep ==
  ASSUME ChatInv, Restart
  PROVE  ChatInv'
<1>1. /\ store' = [s \in SessionIds |-> 0] /\ used' = <<>> /\ turns' = [o \in Object |-> <<>>]
      /\ cache' = <<>> /\ ask' = [p \in Pages |-> Idle]
      /\ mailbox' = mailbox /\ page' = page /\ visited' = visited
  BY DEF Restart
<1>2. Types'
  BY <1>1, IdleIs DEF ChatInv, Types
<1>3. SearchInv' /\ CacheLimited'
  <2>1. Quiet(Idle) /\ \A p \in Pages : ask'[p] = Idle
    BY <1>1, IdleIs DEF Quiet, Searching, Embedding
  <2>2. Len(cache') <= CacheMax
    BY <1>1, SizesAssumption
  <2>. QED  BY <2>1, <2>2, IdleIs, QuietIs DEF SearchInv, CacheLimited
<1>4. StoreListed'
  BY <1>1, SizesAssumption DEF StoreListed, Unique, ToSet
<1>5. SessionHeld' /\ NothingFree'
  BY <1>1, IdleIs DEF ChatInv, SessionInv, SessionHeld, NothingFree, FreeObjects, Busy
<1>6. AloneContinued'
  <2>1. ASSUME NEW p \in Pages  PROVE Continued(p)'
    <3>1. page[p].id \in SessionIds \cup {NoId}
      BY DEF ChatInv, Types
    <3>. QED  BY <1>1, <3>1, IdleIs DEF Continued, Busy, Searching, Embedding
  <2>. QED  BY <2>1 DEF AloneContinued
<1>. QED  BY <1>2, <1>3, <1>4, <1>5, <1>6 DEF ChatInv, SessionInv

LEMMA MailboxStep ==
  ASSUME ChatInv, MailboxChanges \/ UNCHANGED vars
  PROVE  ChatInv'
<1>1. UNCHANGED <<store, used, turns, cache, page, ask, visited>>
  BY DEF MailboxChanges, sessionVars, vars
<1>2. mailbox' \subseteq Documents
  BY DEF ChatInv, Types, MailboxChanges, vars
<1>3. Types' /\ SearchInv' /\ CacheLimited'
  BY <1>1, <1>2 DEF ChatInv, Types, SearchInv, CacheLimited
<1>4. SessionInv'
  BY <1>1, SameSessionsKeep DEF ChatInv, SameSessions
<1>. QED  BY <1>3, <1>4 DEF ChatInv

LEMMA StepKeeps == ChatInv /\ [Next]_vars => ChatInv'
<1>. SUFFICES ASSUME ChatInv, [Next]_vars  PROVE ChatInv'
  OBVIOUS
<1>1. CASE MailboxChanges \/ UNCHANGED vars
  BY <1>1, MailboxStep
<1>2. CASE Restart
  BY <1>2, RestartStep
<1>3. ASSUME NEW p \in Pages, NEW s \in SessionIds, Load(p, s)  PROVE ChatInv'
  BY <1>3, LoadStep
<1>4. ASSUME NEW p \in Pages, NEW q \in Questions, AskQuestion(p, q)  PROVE ChatInv'
  BY <1>4, AskStep
<1>5. ASSUME NEW p \in Pages, SessionStep(p)  PROVE ChatInv'
  BY <1>5, RestoreStep, ReadStep, AppendStep, SliceStep, AssignStep DEF SessionStep
<1>6. ASSUME NEW p \in Pages, SearchStep(p)  PROVE ChatInv'
  BY <1>6, SearchStepKeeps
<1>. QED  BY <1>1, <1>2, <1>3, <1>4, <1>5, <1>6 DEF Next

LEMMA Invariance == Spec => []ChatInv
<1>1. Init => ChatInv
  BY InitSatisfies
<1>2. ChatInv /\ [Next]_vars => ChatInv'
  BY StepKeeps
<1>. QED  BY <1>1, <1>2, PTL DEF Spec

-----------------------------------------------------------------------------
(* Theorems.                                                               *)

(* The search of a page that alone has its session sees the turns that the *)
(* page shows, whatever left the store, restarted or was restored.         *)
THEOREM SearchSeesWhatThePageShows == Spec => []ContextContinues
<1>1. ChatInv => ContextContinues
  <2>1. ASSUME ChatInv, NEW p \in Pages, Alone(p),
               ask[p].pc \notin {"idle", "restore", "read", "slice", "assign"}
        PROVE  IsSuffix(page[p].history, ask[p].seen)
    <3>1. ask[p].pc \in Searching
      BY <2>1 DEF ChatInv, Types, Ask, Searching, Embedding
    <3>. QED  BY <2>1, <3>1 DEF ChatInv, SessionInv, AloneContinued, Continued
  <2>. QED  BY <2>1 DEF ContextContinues
<1>. QED  BY <1>1, Invariance, PTL

(* A search fails for want of a vector only beside another writer, or      *)
(* where the cache has no room.                                            *)
THEOREM VectorsAreServed == Spec => []VectorsServed
<1>1. ChatInv => VectorsServed
  BY DEF ChatInv, SearchInv, Vectors, VectorsServed
<1>. QED  BY <1>1, Invariance, PTL

(* A follow-up about the one mail that was shown finds it.                 *)
THEOREM FollowUpsFindTheirMail == Spec => []FollowUpFindsMail
<1>1. ChatInv => FollowUpFindsMail
  <2>1. ASSUME ChatInv, NEW p \in Pages, ask[p].from = "mailbox", ask[p].docs # {},
               Cardinality(ask[p].q.ids) = 1
        PROVE  ask[p].results # {}
    <3>1. ask[p].q.ids # {}
      BY <2>1, FS_EmptySet
    <3>. QED  BY <2>1, <3>1 DEF ChatInv, SearchInv, Evidence
  <2>. QED  BY <2>1 DEF FollowUpFindsMail
<1>. QED  BY <1>1, Invariance, PTL

(* Evidence from the mailbox names every identifier that is required.      *)
THEOREM IdentifiersAreHonoured == Spec => []IdentifiersHonoured
<1>1. ChatInv => IdentifiersHonoured
  BY DEF ChatInv, SearchInv, Evidence, IdentifiersHonoured
<1>. QED  BY <1>1, Invariance, PTL

(* However searches and sessions overlap, the cache is back within its     *)
(* limit once nobody evicts, and the store within its own.                 *)
THEOREM MemoryIsBounded == Spec => []MemoryBounded
<1>1. ChatInv => MemoryBounded
  <2>1. ASSUME ChatInv, \A p \in Pages : ask[p].pc \notin {"evict", "pop"}
        PROVE  Len(cache) <= CacheMax
    BY <2>1 DEF ChatInv, CacheLimited, Evicting
  <2>. QED  BY <2>1 DEF ChatInv, SessionInv, StoreListed, MemoryBounded
<1>. QED  BY <1>1, Invariance, PTL
=============================================================================
