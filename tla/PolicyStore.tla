---------------------------- MODULE PolicyStore -----------------------------
(***************************************************************************)
(* policy.Store: the rules of policies.yaml, indexed by Load and searched  *)
(* by Resolve.  Load reads the file rule by rule into two fresh indexes    *)
(* and replaces both at once; Resolve may be called at any moment.         *)
(***************************************************************************)
EXTENDS VaultPath, FiniteSets, Functions

CONSTANTS
  Chars,      \* the characters of paths
  NoName,     \* the empty cluster name
  Lists,      \* clusters a file may list for a rule, as sets
  RawPaths,   \* vault_path strings a file may contain, as sequences of characters
  Lookups,    \* pairs (mount, path) of audit events
  MaxRules,   \* bound: rules in a file
  MaxLoads    \* bound: calls of Load

ASSUME PolicyAssumption ==
  /\ {"/", "*"} \subseteq Chars
  /\ \A s \in RawPaths : s \in Seq(Chars)
  /\ \A q \in Lookups : q.mount \in Seq(Chars) /\ q.path \in Seq(Chars)
  /\ MaxRules \in Nat /\ MaxLoads \in Nat

VARIABLES
  byKey,         \* exact rules: normalised path to clusters
  prefixes,      \* wildcard rules, longest prefix first
  loading,       \* a Load is running
  nextExact,     \* its local index of exact rules
  nextPrefixes,  \* its local list of wildcard rules, in the order of the file
  file,          \* history: the rules this Load has taken
  current,       \* history: the rules of the last file that Load accepted
  loads          \* bound: loads used

index == <<byKey, prefixes>>
locals == <<nextExact, nextPrefixes>>
vars == <<index, loading, locals, file, current, loads>>

Rules == [path : RawPaths, clusters : Lists]

Stars(s) == {i \in DOMAIN s : s[i] = "*"}

\* parseWildcard accepts no star, or one star in a trailing "/*".
IsExact(s) == Stars(s) = {}
IsWildcard(s) == /\ Stars(s) = {Len(s)} /\ Len(s) > 1
                 /\ s[Len(s) - 1] = "/"

\* The entry of a wildcard rule; its prefix keeps the trailing "/".
PrefixRule(r) ==
  [prefix |-> SubSeq(Normalize(r.path), 1, Len(Normalize(r.path)) - 1), clusters |-> r.clusters]

TypeOK ==
  /\ \A k \in DOMAIN byKey : byKey[k] \in Lists \ {{}} /\ NoName \notin byKey[k]
  /\ \A i \in DOMAIN prefixes :
       prefixes[i].clusters \in Lists \ {{}} /\ NoName \notin prefixes[i].clusters
  /\ loading \in BOOLEAN
  /\ file \subseteq Rules /\ current \subseteq Rules
  /\ loads \in Nat

Init ==
  /\ byKey = <<>> /\ prefixes = <<>>
  /\ loading = FALSE
  /\ nextExact = <<>> /\ nextPrefixes = <<>>
  /\ file = {} /\ current = {}
  /\ loads = 0

Begin ==
  /\ ~loading /\ loads < MaxLoads
  /\ loading' = TRUE
  /\ loads' = loads + 1
  /\ nextExact' = <<>> /\ nextPrefixes' = <<>> /\ file' = {}
  /\ UNCHANGED <<index, current>>

CompleteEmptyName(r) == r.path # <<>> /\ r.clusters # {}
Complete(r) == r.path # <<>> /\ r.clusters # {} /\ NoName \notin r.clusters

\* The duplicate test of an exact rule and of a wildcard, on the normalised path.
NewKeyRaw(r) == \A o \in file : o.path # r.path
NewKey(r) == Normalize(r.path) \notin DOMAIN nextExact
NewPrefixRaw(r) == \A o \in file : o.path # r.path
NewPrefix(r) == \A i \in DOMAIN nextPrefixes : nextPrefixes[i].prefix # PrefixRule(r).prefix

Accepted(r) ==
  /\ Complete(r)
  /\ \/ IsExact(Normalize(r.path)) /\ NewKey(r)
     \/ IsWildcard(Normalize(r.path)) /\ NewPrefix(r)

With(index_, r) ==
  [k \in DOMAIN index_ \cup {Normalize(r.path)} |->
     IF k = Normalize(r.path) THEN r.clusters ELSE index_[k]]

AddExact(r) ==
  /\ loading /\ Cardinality(file) < MaxRules
  /\ Accepted(r) /\ IsExact(Normalize(r.path))
  /\ nextExact' = With(nextExact, r)
  /\ file' = file \cup {r}
  /\ UNCHANGED <<index, loading, nextPrefixes, current, loads>>

AddWildcard(r) ==
  /\ loading /\ Cardinality(file) < MaxRules
  /\ Accepted(r) /\ IsWildcard(Normalize(r.path))
  /\ nextPrefixes' = Append(nextPrefixes, PrefixRule(r))
  /\ file' = file \cup {r}
  /\ UNCHANGED <<index, loading, nextExact, current, loads>>

\* One bad rule makes Load return an error.
Reject(r) ==
  /\ loading /\ ~Accepted(r)
  /\ loading' = FALSE
  /\ UNCHANGED <<index, locals, file, current, loads>>

\* sort.Slice is not stable: any order that is longest first.
Sorted(list) ==
  \A i, j \in DOMAIN list : i < j => Len(list[i].prefix) >= Len(list[j].prefix)

\* The end of the file: sort, then replace both indexes under the lock.
Swap ==
  /\ loading
  /\ loading' = FALSE
  /\ byKey' = nextExact
  /\ \E place \in Bijection(DOMAIN nextPrefixes, DOMAIN nextPrefixes) :
       prefixes' = [i \in DOMAIN nextPrefixes |-> nextPrefixes[place[i]]]
  /\ Sorted(prefixes')
  /\ current' = file
  /\ UNCHANGED <<locals, file, loads>>

Next == Begin \/ Swap \/ \E r \in Rules : AddExact(r) \/ AddWildcard(r) \/ Reject(r)

Spec == Init /\ [][Next]_vars

\* The first prefix, in the order of the list, that the key starts with.
Resolve(mount, path) ==
  LET key == Join(mount, path)
      hits == {i \in DOMAIN prefixes : HasPrefix(key, prefixes[i].prefix)}
  IN  IF key \in DOMAIN byKey THEN byKey[key]
      ELSE IF hits # {} THEN prefixes[Min(hits)].clusters
      ELSE {}

-----------------------------------------------------------------------------
(* Properties *)

Names(r, key) == IsExact(Normalize(r.path)) /\ Normalize(r.path) = key

\* "<base>/*" covers what lies below base, at any depth, and not base itself.
Base(r) == SubSeq(Normalize(r.path), 1, Len(Normalize(r.path)) - 2)
Covers(r, key) ==
  /\ IsWildcard(Normalize(r.path))
  /\ Len(key) > Len(Base(r))
  /\ SubSeq(key, 1, Len(Base(r))) = Base(r)
  /\ key[Len(Base(r)) + 1] = "/"

\* Every rule of the last accepted file has the effect the package promises, at
\* every moment, also while another file is being loaded or was rejected: a rule
\* that names the path decides; else every rule that covers it and has no
\* longer rival decides, so that rivals of one length cannot disagree; else
\* the path has no clusters.
FileDecides ==
  \A q \in Lookups :
    LET key == Join(q.mount, q.path)
        covering == {r \in current : Covers(r, key)}
    IN  /\ \A r \in current : Names(r, key) => Resolve(q.mount, q.path) = r.clusters
        /\ (\A r \in current : ~Names(r, key)) =>
             /\ \A r \in covering :
                  (\A o \in covering : Len(Base(o)) <= Len(Base(r)))
                    => Resolve(q.mount, q.path) = r.clusters
             /\ covering = {} => Resolve(q.mount, q.path) = {}
=============================================================================
