------------------------- MODULE PolicyStoreProofs --------------------------
(* Proofs about PolicyStore for every set of rules and every lookup.         *)
EXTENDS PolicyStore, SequenceTheorems, LeastNumber, TLAPS

-----------------------------------------------------------------------------
(* Minimum, maximum and paths *)

\* A set of positions has a first one.
LEMMA MinOfNats ==
  ASSUME NEW T \in SUBSET Nat, T # {}
  PROVE  Min(T) \in T /\ \A y \in T : Min(T) <= y
BY LeastOf DEF Min

\* A bounded set of positions has a last one.
LEMMA MaxOfInterval ==
  ASSUME NEW n \in Nat, NEW T \in SUBSET (1..n), T # {}
  PROVE  Max(T) \in T /\ \A y \in T : y <= Max(T)
<1> DEFINE M == {n - y : y \in T}
<1>1. M \in SUBSET Nat /\ M # {}
  <2>1. \A y \in T : n - y \in Nat
    OBVIOUS
  <2> QED
    BY <2>1
<1>2. Min(M) \in M /\ \A z \in M : Min(M) <= z
  BY <1>1, MinOfNats, Zenon
<1> HIDE DEF M
<1>3. PICK x \in T : Min(M) = n - x
  BY <1>2 DEF M
<1>4. \A y \in T : y <= x
  <2> SUFFICES ASSUME NEW y \in T PROVE y <= x
    OBVIOUS
  <2>1. n - y \in M
    BY DEF M
  <2> QED
    BY <1>2, <1>3, <2>1
<1> QED
  BY <1>4 DEF Max

\* t is s without the slashes at its ends, and nothing else of it is missing.
Plain(t) == t = <<>> \/ (t[1] # "/" /\ t[Len(t)] # "/")
Trims(s, t) ==
  /\ Plain(t)
  /\ \E a \in 0..Len(s) :
       /\ a + Len(t) <= Len(s)
       /\ \A i \in 1..Len(t) : t[i] = s[a + i]
       /\ \A i \in 1..Len(s) : i <= a \/ i > a + Len(t) => s[i] = "/"

\* What Normalize returns is a path, and the trimmed one.
LEMMA NormalizeDef ==
  ASSUME NEW s \in Seq(Chars)
  PROVE  Normalize(s) \in Seq(Chars) /\ Trims(s, Normalize(s))
<1> DEFINE kept == {i \in DOMAIN s : s[i] # "/"}
<1>0. Len(s) \in Nat /\ DOMAIN s = 1..Len(s)
  OBVIOUS
<1>1. CASE kept = {}
  <2>1. Normalize(s) = <<>>
    BY <1>1 DEF Normalize
  <2>2. Trims(s, <<>>)
    BY <1>0, <1>1 DEF Trims, Plain
  <2> QED BY <2>1, <2>2
<1>2. CASE kept # {}
  <2>1. kept \in SUBSET (1..Len(s)) /\ kept \in SUBSET Nat
    OBVIOUS
  <2> DEFINE first == Min(kept)
             last == Max(kept)
             t == SubSeq(s, first, last)
  <2>2. first \in kept /\ \A y \in kept : first <= y
    BY <1>2, <2>1, MinOfNats, Zenon
  <2>3. last \in kept /\ \A y \in kept : y <= last
    BY <1>0, <1>2, <2>1, MaxOfInterval, Zenon
  <2>4. Normalize(s) = t
    BY <1>2, Zenon DEF Normalize
  <2> HIDE DEF first, last
  <2>5. /\ first \in 1..Len(s) /\ last \in 1..Len(s) /\ first <= last
        /\ s[first] # "/" /\ s[last] # "/"
        /\ \A i \in 1..Len(s) : i < first \/ i > last => s[i] = "/"
    BY <1>0, <2>2, <2>3
  <2>6. /\ t \in Seq(Chars) /\ Len(t) = last - first + 1
        /\ \A i \in 1..last - first + 1 : t[i] = s[first + i - 1]
    <3>1. \A i \in first..last : s[i] \in Chars
      BY <1>0, <2>5
    <3> QED BY <1>0, <2>5, <3>1, SubSeqProperties
  <2> HIDE DEF t
  <2>7. Plain(t)
    BY <1>0, <2>5, <2>6 DEF Plain
  <2>8. /\ first - 1 \in 0..Len(s) /\ (first - 1) + Len(t) <= Len(s)
        /\ \A i \in 1..Len(t) : t[i] = s[(first - 1) + i]
        /\ \A i \in 1..Len(s) : i <= first - 1 \/ i > (first - 1) + Len(t) => s[i] = "/"
    <3>1. \A i \in 1..Len(t) : first + i - 1 = (first - 1) + i
      BY <1>0, <2>5, <2>6
    <3> QED BY <1>0, <2>5, <2>6, <3>1
  <2> QED BY <2>4, <2>6, <2>7, <2>8 DEF Trims
<1> QED
  BY <1>1, <1>2

\* What Normalize keeps of a path is a path.
LEMMA NormalizeType ==
  ASSUME NEW s \in Seq(Chars)
  PROVE  Normalize(s) \in Seq(Chars)
BY NormalizeDef

\* A path without slashes at its ends is left alone.
LEMMA PlainStays ==
  ASSUME NEW s \in Seq(Chars), Plain(s)
  PROVE  Normalize(s) = s
<1>1. PICK a \in 0..Len(s) :
        /\ a + Len(Normalize(s)) <= Len(s)
        /\ \A i \in 1..Len(Normalize(s)) : Normalize(s)[i] = s[a + i]
        /\ \A i \in 1..Len(s) : i <= a \/ i > a + Len(Normalize(s)) => s[i] = "/"
  BY NormalizeDef DEF Trims
<1>2. Normalize(s) \in Seq(Chars) /\ Len(Normalize(s)) \in Nat /\ Len(s) \in Nat
  BY NormalizeType
<1>3. CASE s = <<>>
  BY <1>1, <1>2, <1>3
<1>4. CASE s # <<>>
  <2>1. Len(s) > 0 /\ s[1] # "/" /\ s[Len(s)] # "/"
    BY <1>4 DEF Plain
  <2>2. a = 0 /\ Len(Normalize(s)) = Len(s)
    <3>1. 1 \in 1..Len(s) /\ Len(s) \in 1..Len(s)
      BY <1>2, <2>1
    <3>2. ~(1 <= a) /\ ~(Len(s) > a + Len(Normalize(s)))
      BY <1>1, <2>1, <3>1
    <3> QED BY <1>1, <1>2, <3>2
  <2> QED BY <1>1, <1>2, <2>2, SeqEqual
<1> QED BY <1>3, <1>4

\* The key of a lookup is a path.
LEMMA JoinType ==
  ASSUME NEW m \in Seq(Chars), NEW p \in Seq(Chars)
  PROVE  Join(m, p) \in Seq(Chars)
<1>1. Normalize(m) \in Seq(Chars) /\ Normalize(p) \in Seq(Chars)
  BY NormalizeType
<1>2. Join(m, p) = Normalize(m) \o Normalize(p)
        \/ Join(m, p) = Normalize(m) \o <<"/">> \o Normalize(p)
  BY Zenon DEF Join
<1>3. <<"/">> \in Seq(Chars)
  BY PolicyAssumption
<1>4. Normalize(m) \o Normalize(p) \in Seq(Chars)
  BY <1>1
<1>5. Normalize(m) \o <<"/">> \o Normalize(p) \in Seq(Chars)
  BY <1>1, <1>3
<1> QED
  BY <1>2, <1>4, <1>5, Zenon

\* The key of a lookup has no slashes at its ends either.
LEMMA JoinPlain ==
  ASSUME NEW m \in Seq(Chars), NEW p \in Seq(Chars)
  PROVE  Plain(Join(m, p))
<1> DEFINE x == Normalize(m)
           y == Normalize(p)
<1>1. x \in Seq(Chars) /\ Plain(x) /\ y \in Seq(Chars) /\ Plain(y)
  BY NormalizeDef DEF Trims
<1>2. /\ x = <<>> \/ y = <<>> => Join(m, p) = x \o y
      /\ x # <<>> /\ y # <<>> => Join(m, p) = x \o <<"/">> \o y
  BY Zenon DEF Join
<1> HIDE DEF x, y
<1>3. CASE x = <<>> \/ y = <<>>
  BY <1>1, <1>2, <1>3, ConcatEmptySeq
<1>4. CASE x # <<>> /\ y # <<>>
  <2>1. /\ Len(x) \in Nat /\ Len(x) > 0 /\ x[1] # "/"
        /\ Len(y) \in Nat /\ Len(y) > 0 /\ y[Len(y)] # "/"
    BY <1>1, <1>4 DEF Plain
  <2>2. <<"/">> \in Seq(Chars) /\ Len(<<"/">>) = 1
    BY PolicyAssumption
  <2> DEFINE z == <<"/">> \o y
  <2>3. /\ z \in Seq(Chars) /\ Len(z) = 1 + Len(y)
        /\ \A i \in 1..1 + Len(y) : z[i] = IF i <= 1 THEN <<"/">>[i] ELSE y[i - 1]
    BY <1>1, <2>2, ConcatProperties
  <2>4. z[Len(z)] = y[Len(y)]
    BY <2>1, <2>3
  <2> HIDE DEF z
  <2>5. /\ x \o z \in Seq(Chars) /\ Len(x \o z) = Len(x) + Len(z)
        /\ \A i \in 1..Len(x) + Len(z) : (x \o z)[i] = IF i <= Len(x) THEN x[i] ELSE z[i - Len(x)]
    BY <1>1, <2>3, ConcatProperties
  <2>6. (x \o z)[1] = x[1] /\ (x \o z)[Len(x \o z)] = z[Len(z)]
    BY <2>1, <2>3, <2>5
  <2>7. Join(m, p) = x \o z
    <3>1. (x \o <<"/">>) \o y = x \o (<<"/">> \o y)
      BY <1>1, <2>2, ConcatAssociative
    <3>2. Join(m, p) = (x \o <<"/">>) \o y
      BY <1>2, <1>4, Zenon
    <3> QED BY <3>1, <3>2, Zenon DEF z
  <2> QED BY <2>1, <2>4, <2>6, <2>7 DEF Plain
<1> QED BY <1>3, <1>4

\* The first k characters of a path.
LEMMA Cut ==
  ASSUME NEW s \in Seq(Chars), NEW k \in 0..Len(s)
  PROVE  /\ SubSeq(s, 1, k) \in Seq(Chars) /\ Len(SubSeq(s, 1, k)) = k
         /\ \A i \in 1..k : SubSeq(s, 1, k)[i] = s[i]
BY SubSeqProperties

\* A wildcard's prefix ends with "/": a key starts with it exactly when it lies
\* below the base of the rule.
LEMMA PrefixMeansBelow ==
  ASSUME NEW r \in Rules, NEW key \in Seq(Chars), IsWildcard(Normalize(r.path))
  PROVE  HasPrefix(key, PrefixRule(r).prefix) <=> Covers(r, key)
<1> DEFINE s == Normalize(r.path)
           n == Len(s)
           p == SubSeq(s, 1, n - 1)
           b == SubSeq(s, 1, n - 2)
<1>1. s \in Seq(Chars)
  BY NormalizeType, PolicyAssumption DEF Rules
<1>2. n \in Nat /\ n > 1 /\ s[n - 1] = "/"
  BY <1>1 DEF IsWildcard
<1> HIDE DEF s, n
<1>3. /\ p \in Seq(Chars) /\ Len(p) = n - 1 /\ \A i \in 1..(n - 1) : p[i] = s[i]
      /\ b \in Seq(Chars) /\ Len(b) = n - 2 /\ \A i \in 1..(n - 2) : b[i] = s[i]
  BY <1>1, <1>2, Cut, n - 1 \in 0..n, n - 2 \in 0..n DEF n
<1> HIDE DEF p, b
<1>4. PrefixRule(r).prefix = p /\ Base(r) = b
  BY DEF PrefixRule, Base, p, b, n, s
<1>5. ASSUME NEW q \in Seq(Chars), Len(q) <= Len(key)
      PROVE  SubSeq(key, 1, Len(q)) = q <=> \A i \in 1..Len(q) : key[i] = q[i]
  <2>1. /\ SubSeq(key, 1, Len(q)) \in Seq(Chars)
        /\ Len(SubSeq(key, 1, Len(q))) = Len(q)
        /\ \A i \in 1..Len(q) : SubSeq(key, 1, Len(q))[i] = key[i]
    BY <1>5
  <2> QED
    BY <2>1, SeqEqual
<1>6. HasPrefix(key, p) <=> Len(key) >= n - 1 /\ \A i \in 1..(n - 1) : key[i] = s[i]
  BY <1>2, <1>3, <1>5 DEF HasPrefix
<1>7. Covers(r, key) <=> Len(key) > n - 2 /\ (\A i \in 1..(n - 2) : key[i] = s[i])
                         /\ key[n - 1] = "/"
  BY <1>2, <1>3, <1>4, <1>5 DEF Covers
<1> QED
  BY <1>2, <1>4, <1>6, <1>7

-----------------------------------------------------------------------------
(* The index of a file *)

ExactRules(rules) == {r \in rules : IsExact(Normalize(r.path))}
WildRules(rules) == {r \in rules : IsWildcard(Normalize(r.path))}

\* exact and list hold the rules, each under its own normalised path.
Indexed(rules, exact, list) ==
  /\ rules \subseteq Rules
  /\ DOMAIN exact = {Normalize(r.path) : r \in ExactRules(rules)}
  /\ \A r \in ExactRules(rules) : exact[Normalize(r.path)] = r.clusters
  /\ \A r \in WildRules(rules) : \E i \in DOMAIN list : list[i] = PrefixRule(r)
  /\ \A i \in DOMAIN list : \E r \in WildRules(rules) : list[i] = PrefixRule(r)
  /\ \A i, j \in DOMAIN list : list[i].prefix = list[j].prefix => i = j
  /\ \A r \in rules : Complete(r)

Entries == {PrefixRule(r) : r \in Rules}

IInv ==
  /\ loading \in BOOLEAN /\ loads \in Nat
  /\ Indexed(current, byKey, prefixes)
  /\ DOMAIN prefixes \subseteq Nat /\ Sorted(prefixes)
  /\ Indexed(file, nextExact, nextPrefixes)
  /\ nextPrefixes \in Seq(Entries)

\* Empty indexes hold the rules of no file.
LEMMA EmptyIndexed == Indexed({}, <<>>, <<>>)
BY DEF Indexed, ExactRules, WildRules

\* Both indexes are empty at first.
LEMMA InitIInv == Init => IInv
<1> SUFFICES ASSUME Init PROVE IInv
  OBVIOUS
<1>1. DOMAIN prefixes = {} /\ nextPrefixes \in Seq(Entries)
  BY DEF Init
<1>2. Sorted(prefixes)
  BY <1>1 DEF Sorted
<1>3. Indexed(current, byKey, prefixes) /\ Indexed(file, nextExact, nextPrefixes)
  BY EmptyIndexed, Zenon DEF Init
<1> QED
  BY <1>1, <1>2, <1>3 DEF Init, IInv

\* A rule is either exact or a wildcard.
LEMMA Exclusive == \A s : ~(IsExact(s) /\ IsWildcard(s))
BY DEF IsExact, IsWildcard

\* Taking an exact rule keeps the local indexes in step with the file.
LEMMA AddExactIndexed ==
  ASSUME IInv, NEW r \in Rules, AddExact(r)
  PROVE  Indexed(file', nextExact', nextPrefixes')
<1> DEFINE key == Normalize(r.path)
<1>1. /\ Complete(r) /\ IsExact(key) /\ key \notin DOMAIN nextExact
      /\ nextExact' = With(nextExact, r) /\ nextPrefixes' = nextPrefixes
      /\ file' = file \cup {r}
  BY Exclusive DEF AddExact, Accepted, NewKey, locals
<1>2. ExactRules(file') = ExactRules(file) \cup {r} /\ WildRules(file') = WildRules(file)
  BY <1>1, Exclusive DEF ExactRules, WildRules
<1>3. /\ DOMAIN nextExact' = DOMAIN nextExact \cup {key}
      /\ nextExact'[key] = r.clusters
      /\ \A k \in DOMAIN nextExact : nextExact'[k] = nextExact[k]
  BY <1>1 DEF With
<1>4. \A o \in ExactRules(file) : Normalize(o.path) \in DOMAIN nextExact
  BY DEF IInv, Indexed
<1>5. DOMAIN nextExact' = {Normalize(o.path) : o \in ExactRules(file')}
  BY <1>2, <1>3 DEF IInv, Indexed
<1>6. \A o \in ExactRules(file') : nextExact'[Normalize(o.path)] = o.clusters
  BY <1>2, <1>3, <1>4 DEF IInv, Indexed
<1> QED
  BY <1>1, <1>2, <1>5, <1>6 DEF IInv, Indexed

\* Taking a wildcard does, too.
LEMMA AddWildcardIndexed ==
  ASSUME IInv, NEW r \in Rules, AddWildcard(r)
  PROVE  /\ Indexed(file', nextExact', nextPrefixes')
         /\ nextPrefixes' \in Seq(Entries)
<1> DEFINE n == Len(nextPrefixes)
<1>1. /\ Complete(r) /\ IsWildcard(Normalize(r.path)) /\ NewPrefix(r)
      /\ nextPrefixes' = Append(nextPrefixes, PrefixRule(r)) /\ nextExact' = nextExact
      /\ file' = file \cup {r}
  BY Exclusive DEF AddWildcard, Accepted
<1>2. WildRules(file') = WildRules(file) \cup {r} /\ ExactRules(file') = ExactRules(file)
  BY <1>1, Exclusive DEF ExactRules, WildRules
<1>3. PrefixRule(r) \in Entries /\ nextPrefixes \in Seq(Entries)
  BY DEF IInv, Entries
<1>4. /\ nextPrefixes' \in Seq(Entries)
      /\ n \in Nat /\ DOMAIN nextPrefixes = 1..n /\ DOMAIN nextPrefixes' = 1..(n + 1)
      /\ nextPrefixes'[n + 1] = PrefixRule(r)
      /\ \A i \in 1..n : nextPrefixes'[i] = nextPrefixes[i]
  BY <1>1, <1>3
<1>5. \A w \in WildRules(file') : \E i \in DOMAIN nextPrefixes' : nextPrefixes'[i] = PrefixRule(w)
  <2> SUFFICES ASSUME NEW w \in WildRules(file')
               PROVE  \E i \in DOMAIN nextPrefixes' : nextPrefixes'[i] = PrefixRule(w)
    OBVIOUS
  <2>1. CASE w = r
    BY <1>4, <2>1
  <2>2. CASE w \in WildRules(file)
    <3>1. PICK i \in DOMAIN nextPrefixes : nextPrefixes[i] = PrefixRule(w)
      BY <2>2 DEF IInv, Indexed
    <3> QED
      BY <1>4, <3>1
  <2> QED
    BY <1>2, <2>1, <2>2
<1>6. \A i \in DOMAIN nextPrefixes' : \E w \in WildRules(file') : nextPrefixes'[i] = PrefixRule(w)
  BY <1>2, <1>4 DEF IInv, Indexed
<1>7. \A i, j \in DOMAIN nextPrefixes' :
        nextPrefixes'[i].prefix = nextPrefixes'[j].prefix => i = j
  BY <1>1, <1>4 DEF IInv, Indexed, NewPrefix
<1> QED
  BY <1>1, <1>2, <1>4, <1>5, <1>6, <1>7 DEF IInv, Indexed

\* Any longest-first order of the list holds the same rules.
LEMMA SwapIndexed ==
  ASSUME IInv, Swap
  PROVE  /\ Indexed(current', byKey', prefixes')
         /\ DOMAIN prefixes' \subseteq Nat /\ Sorted(prefixes')
<1>1. PICK place \in Bijection(DOMAIN nextPrefixes, DOMAIN nextPrefixes) :
        prefixes' = [i \in DOMAIN nextPrefixes |-> nextPrefixes[place[i]]]
  BY DEF Swap
<1>2. byKey' = nextExact /\ current' = file /\ Sorted(prefixes')
  BY DEF Swap
<1>3. /\ place \in [DOMAIN nextPrefixes -> DOMAIN nextPrefixes]
      /\ \A i, j \in DOMAIN nextPrefixes : place[i] = place[j] => i = j
      /\ \A i \in DOMAIN nextPrefixes : \E j \in DOMAIN nextPrefixes : place[j] = i
  BY <1>1 DEF Bijection, Injection, IsInjective, Surjection
<1>4. DOMAIN prefixes' = DOMAIN nextPrefixes
      /\ \A i \in DOMAIN nextPrefixes : prefixes'[i] = nextPrefixes[place[i]]
  BY <1>1
<1>5. \A w \in WildRules(file) : \E i \in DOMAIN prefixes' : prefixes'[i] = PrefixRule(w)
  <2> SUFFICES ASSUME NEW w \in WildRules(file)
               PROVE  \E i \in DOMAIN prefixes' : prefixes'[i] = PrefixRule(w)
    OBVIOUS
  <2>1. PICK i \in DOMAIN nextPrefixes : nextPrefixes[i] = PrefixRule(w)
    BY DEF IInv, Indexed
  <2>2. PICK j \in DOMAIN nextPrefixes : place[j] = i
    BY <1>3
  <2> QED
    BY <1>4, <2>1, <2>2
<1>6. \A i \in DOMAIN prefixes' : \E w \in WildRules(file) : prefixes'[i] = PrefixRule(w)
  BY <1>3, <1>4 DEF IInv, Indexed
<1>7. \A i, j \in DOMAIN prefixes' : prefixes'[i].prefix = prefixes'[j].prefix => i = j
  <2> SUFFICES ASSUME NEW i \in DOMAIN nextPrefixes, NEW j \in DOMAIN nextPrefixes,
                      prefixes'[i].prefix = prefixes'[j].prefix
               PROVE  i = j
    BY <1>4
  <2>1. /\ place[i] \in DOMAIN nextPrefixes /\ place[j] \in DOMAIN nextPrefixes
        /\ nextPrefixes[place[i]].prefix = nextPrefixes[place[j]].prefix
    BY <1>3, <1>4
  <2>2. place[i] = place[j]
    BY <2>1 DEF IInv, Indexed
  <2> QED
    BY <1>3, <2>2
<1>8. DOMAIN prefixes' \subseteq Nat
  BY <1>4 DEF IInv
<1> QED
  BY <1>2, <1>5, <1>6, <1>7, <1>8 DEF IInv, Indexed

\* No step of Load breaks the invariant.
LEMMA Inductive == IInv /\ [Next]_vars => IInv'
<1> SUFFICES ASSUME IInv, [Next]_vars PROVE IInv'
  OBVIOUS
<1>1. CASE Begin
  BY <1>1, EmptyIndexed DEF Begin, IInv, index
<1>2. ASSUME NEW r \in Rules, AddExact(r) PROVE IInv'
  BY <1>2, AddExactIndexed DEF AddExact, IInv, index
<1>3. ASSUME NEW r \in Rules, AddWildcard(r) PROVE IInv'
  BY <1>3, AddWildcardIndexed DEF AddWildcard, IInv, index
<1>4. ASSUME NEW r \in Rules, Reject(r) PROVE IInv'
  BY <1>4 DEF Reject, IInv, index, locals
<1>5. CASE Swap
  BY <1>5, SwapIndexed DEF Swap, IInv, locals
<1>6. CASE UNCHANGED vars
  BY <1>6 DEF vars, IInv, index, locals
<1> QED
  BY <1>1, <1>2, <1>3, <1>4, <1>5, <1>6 DEF Next

\* Every reachable state has the invariant.
LEMMA Invariant == Spec => []IInv
BY InitIInv, Inductive, PTL DEF Spec

-----------------------------------------------------------------------------
(* Theorems *)

\* An index never holds an empty list of clusters or an empty name.
THEOREM TypeCorrect == Spec => []TypeOK
<1>1. IInv => TypeOK
  <2> SUFFICES ASSUME IInv PROVE TypeOK
    OBVIOUS
  <2>1. \A k \in DOMAIN byKey : \E r \in current : byKey[k] = r.clusters
    BY DEF IInv, Indexed, ExactRules
  <2>2. \A i \in DOMAIN prefixes : \E r \in current : prefixes[i].clusters = r.clusters
    BY DEF IInv, Indexed, WildRules, PrefixRule
  <2>3. \A r \in current : r.clusters \in Lists \ {{}} /\ NoName \notin r.clusters
    BY DEF IInv, Indexed, Complete, Rules
  <2>4. file \subseteq Rules /\ current \subseteq Rules
    BY DEF IInv, Indexed
  <2> QED
    BY <2>1, <2>2, <2>3, <2>4 DEF TypeOK, IInv
<1> QED
  BY <1>1, Invariant, PTL

\* The first hit of a list sorted by length belongs to the longest rule that
\* covers the key, and no other rule of that length covers it.
LEMMA FirstIsLongest ==
  ASSUME IInv, NEW key \in Seq(Chars), NEW r \in current, Covers(r, key),
         \A o \in current : Covers(o, key) => Len(Base(o)) <= Len(Base(r))
  PROVE  LET hits == {i \in DOMAIN prefixes : HasPrefix(key, prefixes[i].prefix)}
         IN  hits # {} /\ prefixes[Min(hits)] = PrefixRule(r)
<1> DEFINE hits == {i \in DOMAIN prefixes : HasPrefix(key, prefixes[i].prefix)}
           first == Min(hits)
<1>1. r \in Rules /\ r \in WildRules(current) /\ IsWildcard(Normalize(r.path))
  BY DEF IInv, Indexed, WildRules, Covers
<1>2. PICK i \in DOMAIN prefixes : prefixes[i] = PrefixRule(r)
  BY <1>1 DEF IInv, Indexed
<1>3. i \in hits
  BY <1>1, <1>2, PrefixMeansBelow
<1>4. first \in hits /\ first <= i
  <2>1. hits \in SUBSET Nat
    BY DEF IInv
  <2> QED
    BY <1>3, <2>1, MinOfNats, Zenon
<1> HIDE DEF first
<1>5. PICK o \in WildRules(current) : prefixes[first] = PrefixRule(o)
  BY <1>4 DEF IInv, Indexed
<1>6. o \in Rules /\ o \in current /\ IsWildcard(Normalize(o.path))
  BY DEF IInv, Indexed, WildRules
<1>7. Covers(o, key)
  BY <1>4, <1>5, <1>6, PrefixMeansBelow
<1>8. ASSUME NEW w \in Rules, IsWildcard(Normalize(w.path))
      PROVE  /\ Len(Base(w)) \in Nat
             /\ Len(PrefixRule(w).prefix) = Len(Base(w)) + 1
  <2>1. /\ Normalize(w.path) \in Seq(Chars)
        /\ Len(Normalize(w.path)) \in Nat /\ Len(Normalize(w.path)) > 1
    BY <1>8, NormalizeType, PolicyAssumption DEF Rules, IsWildcard
  <2>2. Len(Normalize(w.path)) - 1 \in 0..Len(Normalize(w.path))
        /\ Len(Normalize(w.path)) - 2 \in 0..Len(Normalize(w.path))
    BY <2>1
  <2>3. Len(SubSeq(Normalize(w.path), 1, Len(Normalize(w.path)) - 1)) = Len(Normalize(w.path)) - 1
        /\ Len(SubSeq(Normalize(w.path), 1, Len(Normalize(w.path)) - 2)) = Len(Normalize(w.path)) - 2
    BY <2>1, <2>2, Cut
  <2> QED
    BY <2>1, <2>3 DEF PrefixRule, Base
<1>9. Len(prefixes[first].prefix) >= Len(prefixes[i].prefix)
  <2>1. CASE first = i
    BY <1>1, <1>2, <1>8, <2>1
  <2>2. CASE first < i
    BY <1>2, <1>4, <2>2 DEF IInv, Sorted
  <2> QED
    BY <1>2, <1>4, <2>1, <2>2 DEF IInv
<1>10. Len(prefixes[first].prefix) = Len(prefixes[i].prefix)
  <2>1. Len(Base(o)) <= Len(Base(r))
    BY <1>6, <1>7
  <2>2. /\ Len(Base(o)) \in Nat /\ Len(PrefixRule(o).prefix) = Len(Base(o)) + 1
        /\ Len(Base(r)) \in Nat /\ Len(PrefixRule(r).prefix) = Len(Base(r)) + 1
    BY <1>1, <1>6, <1>8
  <2> QED
    BY <1>2, <1>5, <1>9, <2>1, <2>2
<1>11. prefixes[first].prefix = prefixes[i].prefix
  BY <1>3, <1>4, <1>10 DEF HasPrefix
<1>12. first = i
  BY <1>2, <1>4, <1>11 DEF IInv, Indexed
<1> QED
  BY <1>2, <1>3, <1>12 DEF first

\* Resolve gives every rule of policies.yaml the effect the package promises,
\* whatever the order of the file, the sort and the Load that is running.
THEOREM RulesDecide == Spec => []FileDecides
<1>1. IInv => FileDecides
  <2> SUFFICES ASSUME IInv, NEW q \in Lookups
               PROVE  LET key == Join(q.mount, q.path)
                          covering == {r \in current : Covers(r, key)}
                      IN  /\ \A r \in current : Names(r, key) => Resolve(q.mount, q.path) = r.clusters
                          /\ (\A r \in current : ~Names(r, key)) =>
                               /\ \A r \in covering :
                                    (\A o \in covering : Len(Base(o)) <= Len(Base(r)))
                                      => Resolve(q.mount, q.path) = r.clusters
                               /\ covering = {} => Resolve(q.mount, q.path) = {}
    BY DEF FileDecides
  <2> DEFINE key == Join(q.mount, q.path)
             hits == {i \in DOMAIN prefixes : HasPrefix(key, prefixes[i].prefix)}
             answer == Resolve(q.mount, q.path)
  <2>1. key \in Seq(Chars)
    BY JoinType, PolicyAssumption
  <2>2. /\ key \in DOMAIN byKey => answer = byKey[key]
        /\ key \notin DOMAIN byKey /\ hits # {} => answer = prefixes[Min(hits)].clusters
        /\ key \notin DOMAIN byKey /\ hits = {} => answer = {}
    BY Zenon DEF Resolve
  <2> HIDE DEF key, answer, hits
  <2>3. ASSUME NEW r \in current, Names(r, key) PROVE answer = r.clusters
    <3>1. r \in ExactRules(current) /\ Normalize(r.path) = key
      BY <2>3 DEF Names, ExactRules
    <3> QED
      BY <2>2, <3>1 DEF IInv, Indexed
  <2>4. (\A r \in current : ~Names(r, key)) => key \notin DOMAIN byKey
    BY DEF IInv, Indexed, Names, ExactRules
  <2>5. ASSUME \A r \in current : ~Names(r, key), NEW r \in current, Covers(r, key),
               \A o \in current : Covers(o, key) => Len(Base(o)) <= Len(Base(r))
        PROVE  answer = r.clusters
    <3>1. hits # {} /\ prefixes[Min(hits)] = PrefixRule(r)
      BY <2>1, <2>5, FirstIsLongest DEF hits
    <3> QED
      BY <2>2, <2>4, <2>5, <3>1 DEF PrefixRule
  <2>6. ASSUME \A r \in current : ~Names(r, key), \A r \in current : ~Covers(r, key)
        PROVE  answer = {}
    <3>1. ASSUME NEW i \in hits PROVE FALSE
      <4>1. PICK r \in WildRules(current) : prefixes[i] = PrefixRule(r)
        BY DEF hits, IInv, Indexed
      <4>2. r \in Rules /\ r \in current /\ IsWildcard(Normalize(r.path))
        BY DEF IInv, Indexed, WildRules
      <4> QED
        BY <2>1, <2>6, <4>1, <4>2, PrefixMeansBelow DEF hits
    <3> QED
      BY <2>2, <2>4, <2>6, <3>1
  <2> QED
    BY <2>3, <2>5, <2>6 DEF key, answer
<1> QED
  BY <1>1, Invariant, PTL

\* Normalize does to every path of any length what strings.Trim(s, "/") does: it
\* drops the slashes at both ends and nothing else.
THEOREM NormalizeTrims == \A s \in Seq(Chars) : Trims(s, Normalize(s))
BY NormalizeDef

\* Slashes around the mount or the path of an event do not change which clusters it
\* goes to, and joining is the same before and after Resolve normalises.
THEOREM SlashesDoNotMatter ==
  \A m, p \in Seq(Chars) :
    /\ Normalize(Join(m, p)) = Join(m, p)
    /\ Join(Normalize(m), Normalize(p)) = Join(m, p)
    /\ Resolve(Normalize(m), Normalize(p)) = Resolve(m, p)
<1> SUFFICES ASSUME NEW m \in Seq(Chars), NEW p \in Seq(Chars)
             PROVE  /\ Normalize(Join(m, p)) = Join(m, p)
                    /\ Join(Normalize(m), Normalize(p)) = Join(m, p)
                    /\ Resolve(Normalize(m), Normalize(p)) = Resolve(m, p)
  OBVIOUS
<1>1. Normalize(Join(m, p)) = Join(m, p)
  BY JoinType, JoinPlain, PlainStays
<1>2. Normalize(Normalize(m)) = Normalize(m) /\ Normalize(Normalize(p)) = Normalize(p)
  BY NormalizeDef, PlainStays DEF Trims
<1>3. Join(Normalize(m), Normalize(p)) = Join(m, p)
  BY <1>2, Zenon DEF Join
<1>4. Resolve(Normalize(m), Normalize(p)) = Resolve(m, p)
  BY <1>3, Zenon DEF Resolve
<1> QED BY <1>1, <1>3, <1>4
=============================================================================
