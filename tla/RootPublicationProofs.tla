----------------------- MODULE RootPublicationProofs -----------------------
(***************************************************************************)
(* Proofs about RootPublication, for every set of wallets and sanctions    *)
(* lists and every number of changes, restarts, errors and disconnects.    *)
(***************************************************************************)
EXTENDS RootPublication, FiniteSetTheorems, SequenceTheorems, TLAPS

-----------------------------------------------------------------------------
(* The records of a state, in memory or on disk.                           *)

\* The leaf indices of the records are 0 .. n - 1, each once.
Indexed(creds) ==
    /\ creds \in [DOMAIN creds -> CredentialRecord]
    /\ DOMAIN creds \subseteq Wallets
    /\ IsFiniteSet(DOMAIN creds)
    /\ \A w \in DOMAIN creds : creds[w].leaf_index < Cardinality(DOMAIN creds)
    /\ \A v, w \in DOMAIN creds : creds[v].leaf_index = creds[w].leaf_index => v = w

\* The leaves are those of the records.
LeavesOf(leaves, creds) ==
    /\ leaves \in Seq(Wallets \cup {ZeroLeaf})
    /\ Len(leaves) = Cardinality(DOMAIN creds)
    /\ \A w \in DOMAIN creds :
          leaves[creds[w].leaf_index + 1]
             = IF creds[w].revoked THEN ZeroLeaf ELSE w

\* A strictly increasing map from 1..n to 0..n-1 has no choice.
LEMMA IncreasingIsIdentity ==
    ASSUME NEW n \in Nat, NEW f \in [1 .. n -> 0 .. n - 1],
           \A i, j \in 1 .. n : i < j => f[i] < f[j]
    PROVE  \A i \in 1 .. n : f[i] = i - 1
  <1>1. SUFFICES ASSUME NEW i \in 1 .. n PROVE f[i] = i - 1
    OBVIOUS
  <1>2. i \in Int /\ f[i] \in Int /\ 0 <= f[i] /\ f[i] <= n - 1
    OBVIOUS
  <1>3. i <= f[i] + 1
    <2> DEFINE g == [j \in 1 .. i |-> f[j]]
    <2>1. g \in [1 .. i -> 0 .. f[i]]
      <3>1. SUFFICES ASSUME NEW j \in 1 .. i PROVE f[j] \in 0 .. f[i]
        OBVIOUS
      <3>2. j \in 1 .. n /\ (j = i \/ j < i)
        OBVIOUS
      <3>3. QED
        BY <1>2, <3>2
    <2>2. \A j, h \in 1 .. i : g[j] = g[h] => j = h
      <3>1. SUFFICES ASSUME NEW j \in 1 .. i, NEW h \in 1 .. i, f[j] = f[h]
                     PROVE  j = h
        OBVIOUS
      <3>2. /\ j \in 1 .. n /\ h \in 1 .. n
            /\ f[j] \in Int /\ f[h] \in Int
            /\ j = h \/ j < h \/ h < j
        OBVIOUS
      <3>3. QED
        BY <3>1, <3>2
    <2>3. g \in Injection(1 .. i, 0 .. f[i])
      BY <2>1, <2>2 DEF Injection, IsInjective
    <2> HIDE DEF g
    <2>4. /\ IsFiniteSet(0 .. f[i])
          /\ Cardinality(0 .. f[i]) = f[i] + 1
          /\ Cardinality(1 .. i) = i
      BY <1>2, FS_Interval
    <2>5. QED
      BY <2>3, <2>4, FS_Injection
  <1>4. n - i + 1 <= n - f[i]
    <2> DEFINE g == [j \in i .. n |-> f[j]]
    <2>1. g \in [i .. n -> f[i] .. n - 1]
      <3>1. SUFFICES ASSUME NEW j \in i .. n PROVE f[j] \in f[i] .. n - 1
        OBVIOUS
      <3>2. j \in 1 .. n /\ (j = i \/ i < j)
        OBVIOUS
      <3>3. QED
        BY <1>2, <3>2
    <2>2. \A j, h \in i .. n : g[j] = g[h] => j = h
      <3>1. SUFFICES ASSUME NEW j \in i .. n, NEW h \in i .. n, f[j] = f[h]
                     PROVE  j = h
        OBVIOUS
      <3>2. /\ j \in 1 .. n /\ h \in 1 .. n
            /\ f[j] \in Int /\ f[h] \in Int
            /\ j = h \/ j < h \/ h < j
        OBVIOUS
      <3>3. QED
        BY <3>1, <3>2
    <2>3. g \in Injection(i .. n, f[i] .. n - 1)
      BY <2>1, <2>2 DEF Injection, IsInjective
    <2> HIDE DEF g
    <2>4. /\ IsFiniteSet(f[i] .. n - 1)
          /\ Cardinality(f[i] .. n - 1) = n - f[i]
          /\ Cardinality(i .. n) = n - i + 1
      <3>1. n - 1 \in Int /\ n \in Int /\ ~(f[i] > n - 1) /\ ~(i > n)
        BY <1>2
      <3>2. /\ IsFiniteSet(f[i] .. n - 1)
            /\ Cardinality(f[i] .. n - 1) = (n - 1) - f[i] + 1
            /\ Cardinality(i .. n) = n - i + 1
        BY <1>2, <3>1, FS_Interval
      <3>3. QED
        BY <1>2, <3>2
    <2>5. QED
      BY <2>3, <2>4, FS_Injection
  <1>5. f[i] + 1 <= i
    <2>1. \A v \in Int : n - i + 1 <= n - v => v + 1 <= i
      OBVIOUS
    <2>2. QED
      BY <1>2, <1>4, <2>1
  <1>6. QED
    BY <1>2, <1>3, <1>5

\* The records sorted by leaf_index: the i-th has index i - 1.
LEMMA SortedByIndex ==
    ASSUME NEW creds, Indexed(creds)
    PROVE  LET n == Cardinality(DOMAIN creds)
               s == SortedRecords(creds)
           IN  /\ n \in Nat
               /\ s \in [1 .. n -> DOMAIN creds]
               /\ \A i \in 1 .. n : creds[s[i]].leaf_index = i - 1
  <1> DEFINE S == DOMAIN creds
             n == Cardinality(S)
             Sorted(q) ==
                 /\ IsInjective(q)
                 /\ \A i, j \in DOMAIN q : i < j =>
                       creds[q[i]].leaf_index <= creds[q[j]].leaf_index
             index == [w \in S |-> creds[w].leaf_index]
  <1>1. IsFiniteSet(S) /\ n \in Nat
    BY FS_CardinalityType DEF Indexed
  <1>2. \A w \in S : creds[w].leaf_index \in 0 .. n - 1
    <2>1. \A w \in S : creds[w].leaf_index \in Nat
      BY DEF Indexed, CredentialRecord
    <2>2. \A w \in S : creds[w].leaf_index < n
      BY DEF Indexed
    <2>3. QED
      BY <1>1, <2>1, <2>2
  <1>3. \A v, w \in S : creds[v].leaf_index = creds[w].leaf_index => v = w
    BY DEF Indexed
  <1>4. \A i \in 1 .. n : \E w \in S : creds[w].leaf_index = i - 1
    <2>1. index \in Injection(S, 0 .. n - 1)
      BY <1>2, <1>3 DEF Injection, IsInjective
    <2> HIDE DEF index
    <2>2. IsFiniteSet(0 .. n - 1) /\ Cardinality(0 .. n - 1) = n
      <3>1. /\ IsFiniteSet(0 .. n - 1)
            /\ Cardinality(0 .. n - 1) = IF 0 > n - 1 THEN 0 ELSE (n - 1) - 0 + 1
        BY <1>1, FS_Interval
      <3>2. QED
        BY <1>1, <3>1
    <2>3. index \in Surjection(S, 0 .. n - 1)
      BY <1>1, <2>1, <2>2, FS_Injection
    <2>4. \A v \in 0 .. n - 1 : \E w \in S : index[w] = v
      BY <2>3 DEF Surjection
    <2>5. SUFFICES ASSUME NEW i \in 1 .. n
                   PROVE  \E w \in S : creds[w].leaf_index = i - 1
      OBVIOUS
    <2>6. i - 1 \in 0 .. n - 1
      BY <1>1
    <2>7. QED
      BY <2>4, <2>6 DEF index
  <1>5. \E q \in [1 .. n -> S] : Sorted(q)
    <2> DEFINE q == [i \in 1 .. n |-> CHOOSE w \in S : creds[w].leaf_index = i - 1]
    <2>1. /\ q \in [1 .. n -> S]
          /\ \A i \in 1 .. n : creds[q[i]].leaf_index = i - 1
      BY <1>4
    <2> HIDE DEF q
    <2>2. IsInjective(q)
      <3>1. SUFFICES ASSUME NEW i \in 1 .. n, NEW j \in 1 .. n, q[i] = q[j]
                     PROVE  i = j
        BY <2>1 DEF IsInjective
      <3>2. i - 1 = j - 1
        BY <2>1, <3>1
      <3>3. QED
        BY <1>1, <3>2
    <2>3. \A i, j \in 1 .. n : i < j =>
             creds[q[i]].leaf_index <= creds[q[j]].leaf_index
      BY <1>1, <2>1
    <2>4. QED
      BY <2>1, <2>2, <2>3
  <1> DEFINE s == SortedRecords(creds)
  <1>6. s \in [1 .. n -> S] /\ Sorted(s)
    BY <1>5 DEF SortedRecords
  <1> HIDE DEF s
  <1> DEFINE f == [i \in 1 .. n |-> creds[s[i]].leaf_index]
  <1>7. f \in [1 .. n -> 0 .. n - 1]
    BY <1>2, <1>6
  <1>8. ASSUME NEW i \in 1 .. n, NEW j \in 1 .. n, i < j PROVE f[i] < f[j]
    <2>1. s[i] \in S /\ s[j] \in S /\ i \in Int /\ j \in Int
      BY <1>1, <1>6
    <2>2. s[i] # s[j]
      BY <1>6, <1>8, <2>1 DEF IsInjective
    <2>3. /\ creds[s[i]].leaf_index # creds[s[j]].leaf_index
          /\ creds[s[i]].leaf_index <= creds[s[j]].leaf_index
      BY <1>3, <1>6, <1>8, <2>1, <2>2
    <2>4. creds[s[i]].leaf_index \in Int /\ creds[s[j]].leaf_index \in Int
      BY <1>1, <1>2, <2>1
    <2>5. QED
      BY <2>3, <2>4
  <1>9. \A i \in 1 .. n : f[i] = i - 1
    <2> HIDE DEF f
    <2>1. QED
      BY <1>1, <1>7, <1>8, IncreasingIsIdentity
  <1>10. QED
    BY <1>1, <1>6, <1>9 DEF s

\* persist::load rebuilds the leaves of the records.
LEMMA LoadRebuilds ==
    ASSUME NEW creds, Indexed(creds)
    PROVE  LeavesOf(Load(creds), creds)
  <1> DEFINE n == Cardinality(DOMAIN creds)
             s == SortedRecords(creds)
  <1>1. /\ n \in Nat
        /\ s \in [1 .. n -> DOMAIN creds]
        /\ \A i \in 1 .. n : creds[s[i]].leaf_index = i - 1
    BY SortedByIndex
  <1>2. Load(creds) = [i \in 1 .. n |-> IF creds[s[i]].revoked THEN ZeroLeaf ELSE s[i]]
    BY <1>1 DEF Load
  <1> HIDE DEF s, n
  <1>3. DOMAIN creds \subseteq Wallets
    BY DEF Indexed
  <1>4. Load(creds) \in [1 .. n -> Wallets \cup {ZeroLeaf}]
    BY <1>1, <1>2, <1>3
  <1>5. Load(creds) \in Seq(Wallets \cup {ZeroLeaf}) /\ Len(Load(creds)) = n
    <2>1. Load(creds) \in Seq(Wallets \cup {ZeroLeaf})
      BY <1>1, <1>4, SeqDef
    <2>2. Len(Load(creds)) \in Nat /\ DOMAIN Load(creds) = 1 .. Len(Load(creds))
      BY <2>1, LenProperties
    <2>3. 1 .. Len(Load(creds)) = 1 .. n
      BY <1>4, <2>2
    <2>4. QED
      BY <1>1, <2>1, <2>2, <2>3
  <1>6. ASSUME NEW w \in DOMAIN creds
        PROVE  Load(creds)[creds[w].leaf_index + 1]
                  = IF creds[w].revoked THEN ZeroLeaf ELSE w
    <2> DEFINE i == creds[w].leaf_index + 1
    <2>1. creds[w].leaf_index \in Nat /\ creds[w].leaf_index < n
      BY DEF Indexed, CredentialRecord, n
    <2>2. i \in 1 .. n /\ i - 1 = creds[w].leaf_index
      BY <1>1, <2>1
    <2>3. s[i] \in DOMAIN creds /\ creds[s[i]].leaf_index = creds[w].leaf_index
      BY <1>1, <2>2
    <2>4. s[i] = w
      BY <2>3 DEF Indexed
    <2>5. QED
      BY <1>2, <2>2, <2>4
  <1>7. QED
    BY <1>5, <1>6 DEF LeavesOf, n

-----------------------------------------------------------------------------
(* The store: what is in memory, on disk and promised to clients.          *)

HasFile == disk \notin {NoFile, NoPath}

\* What clients were told is on disk, if there is a state_path.
AckedOnDisk ==
    disk # NoPath => \A a \in acked :
        /\ disk # NoFile
        /\ a[1] \in DOMAIN disk
        /\ a[2] => disk[a[1]].revoked

StoreInv ==
    /\ Indexed(credentials)
    /\ LeavesOf(tree, credentials)
    /\ HasFile => Indexed(disk)
    /\ AckedOnDisk
    /\ AckedIsDurable

\* A new credential takes the next leaf.
LEMMA IssuedIndexed ==
    ASSUME NEW creds, NEW leaves, Indexed(creds), LeavesOf(leaves, creds),
           NEW w \in Wallets, w \notin DOMAIN creds, NEW new,
           new = With(creds, w, [leaf_index |-> Cardinality(DOMAIN creds),
                                 revoked |-> FALSE])
    PROVE  Indexed(new) /\ LeavesOf(Append(leaves, w), new)
  <1> DEFINE S == DOMAIN creds
             n == Cardinality(S)
             cred == [leaf_index |-> n, revoked |-> FALSE]
  <1>1. IsFiniteSet(S) /\ n \in Nat
    BY FS_CardinalityType DEF Indexed
  <1>2. /\ DOMAIN new = S \cup {w}
        /\ new[w] = cred
        /\ \A v \in S : v # w /\ new[v] = creds[v]
        /\ new = [v \in S \cup {w} |-> IF v = w THEN cred ELSE creds[v]]
    BY DEF With
  <1>3. IsFiniteSet(DOMAIN new) /\ Cardinality(DOMAIN new) = n + 1
    BY <1>1, <1>2, FS_AddElement
  <1>4. \A v \in S : /\ creds[v] \in CredentialRecord
                     /\ creds[v].leaf_index \in Nat
                     /\ creds[v].leaf_index < n
    BY DEF Indexed, CredentialRecord
  <1>5. cred \in CredentialRecord /\ cred.leaf_index = n /\ ~cred.revoked
    BY <1>1 DEF CredentialRecord
  <1>6. Indexed(new)
    <2>1. new \in [DOMAIN new -> CredentialRecord]
      BY <1>2, <1>4, <1>5
    <2>2. DOMAIN new \subseteq Wallets
      BY <1>2 DEF Indexed
    <2>3. \A v \in DOMAIN new : new[v].leaf_index < Cardinality(DOMAIN new)
      <3>1. \A v \in S : creds[v].leaf_index < n + 1
        BY <1>1, <1>4
      <3>2. \A v \in S : new[v].leaf_index < n + 1
        BY <1>2, <3>1
      <3>3. new[w].leaf_index < n + 1
        BY <1>1, <1>2, <1>5
      <3>4. QED
        BY <1>2, <1>3, <3>2, <3>3
    <2>4. \A v, u \in DOMAIN new :
             new[v].leaf_index = new[u].leaf_index => v = u
      <3>1. \A v, u \in S : creds[v].leaf_index = creds[u].leaf_index => v = u
        BY DEF Indexed
      <3>2. \A v \in S : creds[v].leaf_index # n
        BY <1>1, <1>4
      <3>3. QED
        <4>1. \A v \in S : new[v].leaf_index = creds[v].leaf_index
          BY <1>2
        <4>2. new[w].leaf_index = n
          BY <1>2, <1>5
        <4> SUFFICES ASSUME NEW v \in S \cup {w}, NEW u \in S \cup {w},
                            new[v].leaf_index = new[u].leaf_index
                     PROVE  v = u
          BY <1>2
        <4>3. CASE v \in S /\ u \in S
          BY <3>1, <4>1, <4>3
        <4>4. CASE v = w /\ u \in S
          BY <3>2, <4>1, <4>2, <4>4
        <4>5. CASE v \in S /\ u = w
          BY <3>2, <4>1, <4>2, <4>5
        <4>6. QED
          BY <4>3, <4>4, <4>5
    <2>5. QED
      BY <1>3, <2>1, <2>2, <2>3, <2>4 DEF Indexed
  <1>7. /\ leaves \in Seq(Wallets \cup {ZeroLeaf})
        /\ Len(leaves) = n
        /\ \A v \in S : leaves[creds[v].leaf_index + 1]
                           = IF creds[v].revoked THEN ZeroLeaf ELSE v
    BY DEF LeavesOf
  <1>8. /\ Append(leaves, w) \in Seq(Wallets \cup {ZeroLeaf})
        /\ Len(Append(leaves, w)) = n + 1
        /\ \A i \in 1 .. n : Append(leaves, w)[i] = leaves[i]
        /\ Append(leaves, w)[n + 1] = w
    BY <1>1, <1>7, AppendProperties
  <1>9. ASSUME NEW v \in DOMAIN new
        PROVE  Append(leaves, w)[new[v].leaf_index + 1]
                  = IF new[v].revoked THEN ZeroLeaf ELSE v
    <2>1. CASE v = w
      BY <1>2, <1>5, <1>8, <2>1
    <2>2. CASE v \in S
      <3>1. creds[v].leaf_index + 1 \in 1 .. n
        BY <1>1, <1>4, <2>2
      <3>2. QED
        BY <1>2, <1>7, <1>8, <2>2, <3>1
    <2>3. QED
      BY <1>2, <2>1, <2>2
  <1>10. QED
    BY <1>3, <1>6, <1>8, <1>9 DEF LeavesOf

\* What revoke_credential makes of the records and of the leaves.
Revoked(creds, w) == [creds EXCEPT ![w].revoked = TRUE]

Zeroed(leaves, i) == [leaves EXCEPT ![i] = ZeroLeaf]

\* Revoking a credential zeroes its leaf and no other.
LEMMA RevokedIndexed ==
    ASSUME NEW creds, NEW leaves, Indexed(creds), LeavesOf(leaves, creds),
           NEW w \in DOMAIN creds
    PROVE  /\ Indexed(Revoked(creds, w))
           /\ LeavesOf(Zeroed(leaves, creds[w].leaf_index + 1), Revoked(creds, w))
           /\ DOMAIN Revoked(creds, w) = DOMAIN creds
           /\ Revoked(creds, w)[w].revoked
           /\ \A v \in DOMAIN creds :
                 creds[v].revoked => Revoked(creds, w)[v].revoked
  <1> DEFINE S == DOMAIN creds
             new == Revoked(creds, w)
             n == Cardinality(S)
             i == creds[w].leaf_index + 1
             zeroed == Zeroed(leaves, i)
  <1>1. IsFiniteSet(S) /\ n \in Nat
    BY FS_CardinalityType DEF Indexed
  <1>2. creds \in [S -> CredentialRecord]
    BY DEF Indexed
  <1>3. /\ DOMAIN new = S
        /\ \A v \in S \ {w} : new[v] = creds[v]
        /\ new[w] = [creds[w] EXCEPT !.revoked = TRUE]
        /\ new \in [S -> CredentialRecord]
    BY <1>2 DEF CredentialRecord, Revoked
  <1> HIDE DEF new
  <1>4. new[w].leaf_index = creds[w].leaf_index /\ new[w].revoked
    BY <1>2, <1>3 DEF CredentialRecord
  <1>5. \A v \in S : new[v].leaf_index = creds[v].leaf_index
    BY <1>3, <1>4
  <1>6. Indexed(new)
    BY <1>3, <1>5 DEF Indexed
  <1>7. \A v \in S : creds[v].leaf_index \in Nat /\ creds[v].leaf_index < n
    BY <1>2 DEF Indexed, CredentialRecord
  <1>8. /\ leaves \in Seq(Wallets \cup {ZeroLeaf})
        /\ Len(leaves) = n
        /\ \A v \in S : leaves[creds[v].leaf_index + 1]
                           = IF creds[v].revoked THEN ZeroLeaf ELSE v
    BY DEF LeavesOf
  <1>9. i \in 1 .. n
    BY <1>1, <1>7
  <1>10. /\ zeroed \in Seq(Wallets \cup {ZeroLeaf})
         /\ Len(zeroed) = n
         /\ \A j \in 1 .. n : zeroed[j] = IF j = i THEN ZeroLeaf ELSE leaves[j]
    <2>1. DOMAIN leaves = 1 .. n /\ ZeroLeaf \in Wallets \cup {ZeroLeaf}
      BY <1>8, LenProperties
    <2>2. /\ zeroed \in Seq(Wallets \cup {ZeroLeaf})
          /\ Len(zeroed) = Len(leaves)
      BY <1>8, <1>9, <2>1, ExceptSeq DEF Zeroed
    <2>3. QED
      BY <1>8, <1>9, <2>1, <2>2 DEF Zeroed
  <1> HIDE DEF zeroed, i
  <1>11. ASSUME NEW v \in S
         PROVE  zeroed[new[v].leaf_index + 1]
                   = IF new[v].revoked THEN ZeroLeaf ELSE v
    <2>1. new[v].leaf_index + 1 \in 1 .. n
      BY <1>1, <1>5, <1>7
    <2>2. CASE v = w
      BY <1>4, <1>10, <2>1, <2>2 DEF i
    <2>3. CASE v # w
      <3>1. creds[v].leaf_index # creds[w].leaf_index
        BY <2>3 DEF Indexed
      <3>2. new[v].leaf_index + 1 # i
        BY <1>5, <1>7, <3>1 DEF i
      <3>3. QED
        BY <1>3, <1>5, <1>8, <1>10, <2>1, <2>3, <3>2
    <2>4. QED
      BY <2>2, <2>3
  <1>12. LeavesOf(zeroed, new)
    BY <1>3, <1>10, <1>11 DEF LeavesOf
  <1>13. QED
    BY <1>3, <1>4, <1>6, <1>12 DEF zeroed, i, new

\* Records are never mistaken for the absence of a file.
LEMMA RecordsAreAFile ==
    ASSUME NEW creds, Indexed(creds)
    PROVE  creds \notin {NoFile, NoPath}
  BY PublicationNames DEF Indexed

\* issue_credential and add_wallet: a credential that could not be saved stays
\* in memory, and nothing is promised.
LEMMA IssueStore ==
    ASSUME StoreInv, NEW w \in Wallets, NEW saved \in BOOLEAN,
           IssueCredential(w, saved)
    PROVE  StoreInv'
  <1> DEFINE creds == With(credentials, w,
                          [leaf_index |-> Cardinality(DOMAIN credentials),
                           revoked |-> FALSE])
  <1>1. /\ w \notin DOMAIN credentials
        /\ tree' = Append(tree, w)
        /\ credentials' = creds
        /\ disk' = IF saved THEN Saved(creds) ELSE disk
        /\ acked' = IF saved THEN acked \cup {<<w, FALSE>>} ELSE acked
    BY DEF IssueCredential
  <1>2. Indexed(creds) /\ LeavesOf(Append(tree, w), creds)
    BY <1>1, IssuedIndexed DEF StoreInv
  <1>3. /\ DOMAIN creds = DOMAIN credentials \cup {w}
        /\ \A v \in DOMAIN credentials : creds[v] = credentials[v]
    BY <1>1 DEF With
  <1> HIDE DEF creds
  <1>4. AckedIsDurable'
    <2>1. \A a \in acked : /\ a[1] \in DOMAIN creds
                           /\ a[2] => creds[a[1]].revoked
      BY <1>3 DEF StoreInv, AckedIsDurable
    <2>2. <<w, FALSE>>[1] \in DOMAIN creds /\ ~<<w, FALSE>>[2]
      BY <1>3
    <2>3. QED
      BY <1>1, <2>1, <2>2 DEF AckedIsDurable
  <1>5. AckedOnDisk'
    <2>1. CASE saved
      BY <1>1, <1>2, <1>4, <2>1, RecordsAreAFile
         DEF Saved, AckedIsDurable, AckedOnDisk
    <2>2. CASE ~saved
      BY <1>1, <2>2 DEF StoreInv, AckedOnDisk
    <2>3. QED
      BY <2>1, <2>2
  <1>6. HasFile' => Indexed(disk')
    BY <1>1, <1>2 DEF StoreInv, HasFile, Saved
  <1>7. QED
    BY <1>1, <1>2, <1>4, <1>5, <1>6 DEF StoreInv, Indexed, LeavesOf

\* A revocation is kept or rolled back as a whole.
LEMMA RevokeStore ==
    ASSUME StoreInv, NEW w \in Wallets, NEW saved \in BOOLEAN,
           RevokeCredential(w, saved)
    PROVE  StoreInv'
  <1> DEFINE creds == Revoked(credentials, w)
             zeroed == Zeroed(tree, credentials[w].leaf_index + 1)
  <1>1. CASE saved
    <2>1. /\ w \in DOMAIN credentials
          /\ tree' = zeroed
          /\ credentials' = creds
          /\ disk' = Saved(creds)
          /\ acked' = acked \cup {<<w, TRUE>>}
      BY <1>1 DEF RevokeCredential, Revoked, Zeroed
    <2>2. /\ Indexed(creds) /\ LeavesOf(zeroed, creds)
          /\ DOMAIN creds = DOMAIN credentials
          /\ creds[w].revoked
          /\ \A v \in DOMAIN credentials : credentials[v].revoked => creds[v].revoked
      BY <2>1, RevokedIndexed DEF StoreInv
    <2> HIDE DEF creds, zeroed
    <2>3. AckedIsDurable'
      <3>1. \A a \in acked : /\ a[1] \in DOMAIN creds
                             /\ a[2] => creds[a[1]].revoked
        BY <2>2 DEF StoreInv, AckedIsDurable
      <3>2. <<w, TRUE>>[1] \in DOMAIN creds /\ creds[<<w, TRUE>>[1]].revoked
        BY <2>1, <2>2
      <3>3. QED
        BY <2>1, <3>1, <3>2 DEF AckedIsDurable
    <2>4. AckedOnDisk'
      BY <2>1, <2>2, <2>3, RecordsAreAFile DEF Saved, AckedIsDurable, AckedOnDisk
    <2>5. HasFile' => Indexed(disk')
      BY <2>1, <2>2 DEF HasFile, Saved
    <2>6. QED
      BY <2>1, <2>2, <2>3, <2>4, <2>5 DEF StoreInv, Indexed, LeavesOf
  <1>2. CASE ~saved
    <2>1. UNCHANGED <<credentials, tree, disk, acked>>
      BY <1>2 DEF RevokeCredential
    <2>2. QED
      BY <2>1 DEF StoreInv, HasFile, Indexed, LeavesOf, AckedOnDisk, AckedIsDurable
  <1>3. QED
    BY <1>1, <1>2

\* No records and no leaves.
LEMMA EmptyStore == Indexed(<<>>) /\ LeavesOf(<<>>, <<>>)
  <1>1. DOMAIN <<>> = {} /\ <<>> \in [DOMAIN <<>> -> CredentialRecord]
    OBVIOUS
  <1>2. IsFiniteSet({}) /\ Cardinality({}) = 0
    BY FS_EmptySet
  <1>3. <<>> \in Seq(Wallets \cup {ZeroLeaf}) /\ Len(<<>>) = 0
    BY EmptySeq
  <1>4. QED
    BY <1>1, <1>2, <1>3 DEF Indexed, LeavesOf

\* A restart goes back to what is on disk, and clients were told no more, or
\* it starts from nothing.
LEMMA RestartStore ==
    ASSUME StoreInv, NEW probed \in BOOLEAN, NEW loaded \in BOOLEAN,
           Restart(probed, loaded)
    PROVE  StoreInv'
  <1> DEFINE creds == IF loaded THEN disk ELSE <<>>
  <1>1. /\ credentials' = creds
        /\ tree' = Load(creds)
        /\ disk' = disk
        /\ loaded => HasFile
        /\ acked' = IF loaded THEN acked ELSE {}
    BY DEF Restart, HasFile
  <1>2. Indexed(creds)
    BY <1>1, EmptyStore DEF StoreInv
  <1>3. LeavesOf(Load(creds), creds)
    BY <1>2, LoadRebuilds
  <1>4. AckedIsDurable' /\ AckedOnDisk'
    BY <1>1 DEF StoreInv, HasFile, AckedOnDisk, AckedIsDurable
  <1> HIDE DEF creds
  <1>5. QED
    BY <1>1, <1>2, <1>3, <1>4 DEF StoreInv, HasFile, Indexed, LeavesOf

\* Every step preserves the store.
LEMMA NextStore == StoreInv /\ [Next]_vars => StoreInv'
  <1>1. SUFFICES ASSUME StoreInv, [Next]_vars PROVE StoreInv'
    OBVIOUS
  <1>2. ASSUME NEW w \in Wallets, NEW saved \in BOOLEAN,
               IssueCredential(w, saved) \/ RevokeCredential(w, saved)
        PROVE  StoreInv'
    BY <1>1, <1>2, IssueStore, RevokeStore
  <1>3. ASSUME NEW probed \in BOOLEAN, NEW loaded \in BOOLEAN,
               Restart(probed, loaded)
        PROVE  StoreInv'
    BY <1>1, <1>3, RestartStore
  <1>4. ASSUME UNCHANGED <<credentials, tree, disk, acked>> PROVE StoreInv'
    BY <1>1, <1>4
       DEF StoreInv, HasFile, Indexed, LeavesOf, AckedOnDisk, AckedIsDurable
  <1>5. ASSUME NEW s \in Senders, Answered(s) \/ RpcError(s) PROVE StoreInv'
    BY <1>4, <1>5 DEF Answered, TxLands, TxRefused, RpcError, service
  <1>6. ASSUME NEW tx \in detached, DetachedLands(tx) PROVE StoreInv'
    BY <1>4, <1>6 DEF DetachedLands, service
  <1>7. ASSUME NEW p \in Publishers, StartPublish(p) \/ FinishPublish(p)
        PROVE  StoreInv'
    BY <1>4, <1>7 DEF StartPublish, FinishPublish, service
  <1>8. CASE \/ ClientGone \/ UpdaterDone
             \/ \E list \in Lists : UpdaterTick(list)
             \/ \E probed \in BOOLEAN : UpdaterRestart(probed)
    BY <1>4, <1>8 DEF ClientGone, UpdaterDone, UpdaterTick, UpdaterRestart, service
  <1>9. CASE UNCHANGED vars
    BY <1>4, <1>9 DEF vars, service
  <1>10. QED
    BY <1>1, <1>2, <1>3, <1>5, <1>6, <1>7, <1>8, <1>9 DEF Next

\* The store is consistent throughout.
THEOREM StoreConsistent == Spec => []StoreInv
  <1>1. Init => StoreInv
    BY EmptyStore DEF Init, StoreInv, HasFile, AckedOnDisk, AckedIsDurable
  <1>2. StoreInv /\ [Next]_vars => StoreInv'
    BY NextStore
  <1>3. QED
    BY <1>1, <1>2, PTL DEF Spec

\* The tree is the tree of the credentials, however many saves failed and
\* however often the service was restarted.
THEOREM TreeRight == Spec => []TreeMatchesCredentials
  <1>1. StoreInv => TreeMatchesCredentials
    <2>1. SUFFICES ASSUME StoreInv PROVE TreeMatchesCredentials
      OBVIOUS
    <2>2. Len(tree) = Cardinality(DOMAIN credentials)
      BY <2>1 DEF StoreInv, LeavesOf
    <2>3. ASSUME NEW w \in DOMAIN credentials
          PROVE  credentials[w].leaf_index + 1 \in DOMAIN tree
      <3>1. /\ credentials[w].leaf_index \in Nat
            /\ credentials[w].leaf_index < Cardinality(DOMAIN credentials)
        BY <2>1 DEF StoreInv, Indexed, CredentialRecord
      <3>2. Len(tree) \in Nat /\ DOMAIN tree = 1 .. Len(tree)
        BY <2>1, LenProperties DEF StoreInv, LeavesOf
      <3>3. QED
        BY <2>2, <3>1, <3>2
    <2>4. QED
      BY <2>1, <2>2, <2>3 DEF StoreInv, LeavesOf, TreeMatchesCredentials
  <1>2. QED
    BY <1>1, StoreConsistent, PTL

\* What a client was told survives every restart that could read the state
\* file; a service that could not, or has none, starts from nothing and has
\* promised nothing yet (persist::load in main).
THEOREM Durable == Spec => []AckedIsDurable
  <1>1. StoreInv => AckedIsDurable
    BY DEF StoreInv
  <1>2. QED
    BY <1>1, StoreConsistent, PTL

-----------------------------------------------------------------------------
(* The order of publications.                                              *)

Leaves == Wallets \cup {ZeroLeaf}

\* A later tree: no leaf is gone, and a zeroed leaf is still zero.
Forward(old, new) ==
    /\ Len(new) >= Len(old)
    /\ \A i \in DOMAIN old : old[i] = ZeroLeaf => new[i] = ZeroLeaf

LedgerType ==
    /\ roots_dirty \in BOOLEAN /\ registered \in BOOLEAN
    /\ updaterRegistered \in BOOLEAN /\ overtaken \in BOOLEAN
    /\ lock \in Publishers \cup {NoOne}
    /\ call \in [Senders -> Call \cup {NoCall}]
    /\ detached \subseteq Transaction
    /\ \/ issuer = NoIssuer
       \/ /\ issuer \in IssuerRoots
          /\ issuer.merkle_root # ZeroRoot /\ issuer.jurisdiction_root
    /\ restarts \in Nat /\ errors \in Nat /\ disconnects \in Nat

\* Only the holder of publish_lock has a transaction under way.
CallsLocked == \A p \in Publishers : call[p] # NoCall => lock = p

\* Who believes that the account exists, or saw a transaction land, is right.
AccountKnown ==
    /\ registered \/ updaterRegistered => issuer # NoIssuer
    /\ \A s \in Senders :
          call[s] # NoCall /\ call[s].status = "landed" => issuer # NoIssuer

UpdaterSendsLists ==
    call[Updater] # NoCall => call[Updater].tx.roots.sanctions_root \in Lists

\* The account holds the roots that the service published.
OwnRoots == issuer # NoIssuer /\ issuer.sanctions_root \notin Lists

\* The tree on chain is not newer than the one under way, and that is not
\* newer than the tree.
Ordered ==
    Undisturbed =>
        /\ detached = {}
        /\ OwnRoots => Forward(issuer.merkle_root, tree)
        /\ \A p \in Publishers : call[p] # NoCall =>
              LET root == call[p].tx.roots.merkle_root IN
              /\ root \in Seq(Leaves)
              /\ Forward(root, tree)
              /\ call[p].status = "sent" /\ OwnRoots
                    => Forward(issuer.merkle_root, root)

\* The same, when no credential changes while roots are being published.
CaughtUp ==
    Undisturbed /\ ~overtaken =>
        /\ lock = NoOne /\ registered /\ ~roots_dirty /\ OwnRoots
              => issuer.merkle_root = tree
        /\ \A p \in Publishers : call[p] # NoCall =>
              /\ roots_dirty \/ ~registered
              /\ call[p].tx.roots.merkle_root = tree
              /\ call[p].status = "landed" /\ OwnRoots
                    => issuer.merkle_root = tree

OrderInv ==
    LedgerType /\ CallsLocked /\ AccountKnown /\ UpdaterSendsLists
       /\ Ordered /\ CaughtUp

LEMMA ForwardReflexive ==
    ASSUME NEW old \in Seq(Leaves)
    PROVE  Forward(old, old)
  <1>1. Len(old) \in Nat
    OBVIOUS
  <1>2. QED
    BY <1>1 DEF Forward

LEMMA ForwardTransitive ==
    ASSUME NEW old \in Seq(Leaves), NEW mid \in Seq(Leaves), NEW new \in Seq(Leaves),
           Forward(old, mid), Forward(mid, new)
    PROVE  Forward(old, new)
  <1>1. /\ DOMAIN old = 1 .. Len(old) /\ DOMAIN mid = 1 .. Len(mid)
        /\ Len(old) \in Nat /\ Len(mid) \in Nat /\ Len(new) \in Nat
    OBVIOUS
  <1>2. Len(new) >= Len(mid) /\ Len(mid) >= Len(old)
    BY DEF Forward
  <1>3. DOMAIN old \subseteq DOMAIN mid
    BY <1>1, <1>2
  <1>4. \A i \in DOMAIN old : old[i] = ZeroLeaf => new[i] = ZeroLeaf
    BY <1>3 DEF Forward
  <1>5. QED
    BY <1>1, <1>2, <1>4 DEF Forward

\* The roots that were published last are a tree, not a zero root.
LEMMA AccountTree ==
    ASSUME LedgerType, issuer # NoIssuer
    PROVE  issuer.merkle_root \in Seq(Leaves)
  BY DEF LedgerType, IssuerRoots, Leaves

\* Issuing adds a leaf and revoking zeroes one.
LEMMA TreeForward ==
    ASSUME StoreInv, NEW w \in Wallets, NEW saved \in BOOLEAN,
           IssueCredential(w, saved) \/ RevokeCredential(w, saved)
    PROVE  Forward(tree, tree')
  <1>1. tree \in Seq(Leaves)
    BY DEF StoreInv, LeavesOf, Leaves
  <1>2. CASE IssueCredential(w, saved)
    <2>1. tree' = Append(tree, w)
      BY <1>2 DEF IssueCredential
    <2>2. /\ Len(tree) \in Nat /\ DOMAIN tree = 1 .. Len(tree)
          /\ Len(tree') = Len(tree) + 1
          /\ \A i \in 1 .. Len(tree) : tree'[i] = tree[i]
      BY <1>1, <2>1, AppendProperties DEF Leaves
    <2>3. QED
      BY <2>2 DEF Forward
  <1>3. CASE RevokeCredential(w, saved)
    <2>1. CASE saved
      <3>1. /\ w \in DOMAIN credentials
            /\ tree' = [tree EXCEPT ![credentials[w].leaf_index + 1] = ZeroLeaf]
        BY <1>3, <2>1 DEF RevokeCredential
      <3>2. /\ credentials[w].leaf_index \in Nat
            /\ credentials[w].leaf_index < Len(tree)
        BY <3>1 DEF StoreInv, Indexed, LeavesOf, CredentialRecord
      <3> DEFINE j == credentials[w].leaf_index + 1
      <3>3. j \in 1 .. Len(tree) /\ ZeroLeaf \in Leaves
        BY <1>1, <3>2 DEF Leaves
      <3> HIDE DEF j
      <3>4. /\ Len(tree') = Len(tree)
            /\ \A i \in 1 .. Len(tree) :
                  tree'[i] = IF i = j THEN ZeroLeaf ELSE tree[i]
        BY <1>1, <3>1, <3>3, ExceptSeq DEF j
      <3>5. DOMAIN tree = 1 .. Len(tree) /\ Len(tree) \in Nat
        BY <1>1
      <3>6. QED
        BY <3>4, <3>5 DEF Forward
    <2>2. CASE ~saved
      <3>1. tree' = tree
        BY <1>3, <2>2 DEF RevokeCredential
      <3>2. QED
        BY <1>1, <3>1, ForwardReflexive
    <2>3. QED
      BY <2>1, <2>2
  <1>4. QED
    BY <1>2, <1>3

-----------------------------------------------------------------------------
(* What happens to the calls.                                              *)

\* A transaction was sent.
LEMMA SendCall ==
    ASSUME LedgerType, NEW s \in Senders, NEW register \in BOOLEAN,
           NEW roots \in IssuerRoots, Send(s, register, roots)
    PROVE  /\ call' \in [Senders -> Call \cup {NoCall}]
           /\ call'[s] # NoCall
           /\ call'[s].tx.roots = roots /\ call'[s].status = "sent"
           /\ \A q \in Senders : q # s => call'[q] = call[q]
  <1> DEFINE c == [tx |-> [register |-> register, roots |-> roots], status |-> "sent"]
  <1>1. c \in Call /\ c.tx.roots = roots /\ c.status = "sent"
    BY DEF Call, Transaction
  <1>2. call' = [call EXCEPT ![s] = c] /\ call \in [Senders -> Call \cup {NoCall}]
    BY DEF Send, LedgerType
  <1> HIDE DEF c
  <1>3. c # NoCall
    BY <1>1, PublicationNames
  <1>4. QED
    BY <1>1, <1>2, <1>3

\* It was answered.
LEMMA AnswerCall ==
    ASSUME LedgerType, NEW s \in Senders, call[s] # NoCall,
           NEW status \in {"sent", "landed", "failed"}, Becomes(s, status)
    PROVE  /\ call' \in [Senders -> Call \cup {NoCall}]
           /\ call'[s] # NoCall
           /\ call'[s].tx = call[s].tx /\ call'[s].status = status
           /\ \A q \in Senders : q # s => call'[q] = call[q]
  <1> DEFINE c == [tx |-> call[s].tx, status |-> status]
  <1>1. call[s] \in Call
    BY DEF LedgerType
  <1>2. c \in Call /\ c = [call[s] EXCEPT !.status = status]
    BY <1>1 DEF Call
  <1>3. c.tx = call[s].tx /\ c.status = status
    OBVIOUS
  <1> HIDE DEF c
  <1>4. call' = [call EXCEPT ![s] = c] /\ call \in [Senders -> Call \cup {NoCall}]
    <2>1. call' = [call EXCEPT ![s] = [call[s] EXCEPT !.status = status]]
      BY Zenon DEF Becomes
    <2>2. QED
      BY <1>2, <2>1 DEF LedgerType
  <1>5. c # NoCall
    BY <1>2, PublicationNames
  <1>6. QED
    BY <1>2, <1>3, <1>4, <1>5

\* Its sender is through with it.
LEMMA DropCall ==
    ASSUME LedgerType, NEW s \in Senders, call' = [call EXCEPT ![s] = NoCall]
    PROVE  /\ call' \in [Senders -> Call \cup {NoCall}]
           /\ call'[s] = NoCall
           /\ \A q \in Senders : q # s => call'[q] = call[q]
  BY DEF LedgerType

\* Calls that are under way carry transactions.
LEMMA CallType ==
    ASSUME LedgerType, NEW s \in Senders, call[s] # NoCall
    PROVE  /\ call[s].tx \in Transaction
           /\ call[s].tx.roots \in IssuerRoots
           /\ call[s].status \in {"sent", "landed", "failed"}
  <1>1. call[s] \in Call
    BY DEF LedgerType
  <1>2. QED
    BY <1>1 DEF Call, Transaction

\* What stays in flight when senders go away is transactions.
LEMMA InFlightType ==
    ASSUME LedgerType, NEW P \in SUBSET Senders
    PROVE  detached \cup InFlight(P) \subseteq Transaction
  BY CallType DEF LedgerType, InFlight

\* What landed is a well-formed account.
LEMMA LandType ==
    ASSUME LedgerType, NEW tx \in Transaction, Land(tx)
    PROVE  /\ issuer' \in IssuerRoots
           /\ issuer'.merkle_root # ZeroRoot /\ issuer'.jurisdiction_root
           /\ issuer' # NoIssuer
  BY PublicationNames DEF Land, Accepts, Transaction

-----------------------------------------------------------------------------
(* The steps.                                                              *)

\* Changing a credential while nobody publishes marks the roots; changing one
\* while somebody does is recorded.
LEMMA ChangeOrder ==
    ASSUME StoreInv, OrderInv, NEW w \in Wallets, NEW saved \in BOOLEAN,
           StoreInv',
           IssueCredential(w, saved) \/ RevokeCredential(w, saved)
    PROVE  OrderInv'
  <1>1. UNCHANGED <<registered, lock, call, issuer, detached, updaterRegistered,
                    restarts, errors, disconnects>>
    BY DEF IssueCredential, RevokeCredential, ledger, bounds
  <1>2. /\ roots_dirty' \in BOOLEAN
        /\ overtaken' = (overtaken \/ lock # NoOne)
        /\ roots_dirty' = TRUE \/ UNCHANGED <<roots_dirty, tree>>
    BY DEF IssueCredential, RevokeCredential, Change, OrderInv, LedgerType
  <1>3. Forward(tree, tree')
    BY TreeForward
  <1>4. tree \in Seq(Leaves) /\ tree' \in Seq(Leaves)
    BY DEF StoreInv, LeavesOf, Leaves
  <1>5. LedgerType'
    BY <1>1, <1>2 DEF OrderInv, LedgerType
  <1>6. CallsLocked' /\ AccountKnown' /\ UpdaterSendsLists'
    BY <1>1 DEF OrderInv, CallsLocked, AccountKnown, UpdaterSendsLists
  <1>7. Ordered'
    <2>1. SUFFICES ASSUME Undisturbed
                   PROVE  /\ OwnRoots => Forward(issuer.merkle_root, tree')
                          /\ \A p \in Publishers : call[p] # NoCall =>
                                Forward(call[p].tx.roots.merkle_root, tree')
      BY <1>1 DEF OrderInv, Ordered, Undisturbed, OwnRoots
    <2>2. ASSUME OwnRoots PROVE Forward(issuer.merkle_root, tree')
      <3>1. issuer.merkle_root \in Seq(Leaves)
        BY <2>2, AccountTree DEF OrderInv, OwnRoots
      <3>2. Forward(issuer.merkle_root, tree)
        BY <2>1, <2>2 DEF OrderInv, Ordered
      <3>3. QED
        BY <1>3, <1>4, <3>1, <3>2, ForwardTransitive
    <2>3. ASSUME NEW p \in Publishers, call[p] # NoCall
          PROVE  Forward(call[p].tx.roots.merkle_root, tree')
      <3>1. /\ call[p].tx.roots.merkle_root \in Seq(Leaves)
            /\ Forward(call[p].tx.roots.merkle_root, tree)
        BY <2>1, <2>3 DEF OrderInv, Ordered
      <3>2. QED
        BY <1>3, <1>4, <3>1, ForwardTransitive
    <2>4. QED
      BY <2>2, <2>3
  <1>8. CaughtUp'
    <2>1. SUFFICES ASSUME Undisturbed, ~overtaken, lock = NoOne
                   PROVE  /\ registered /\ ~roots_dirty' /\ OwnRoots
                                => issuer.merkle_root = tree'
                          /\ \A p \in Publishers : call[p] = NoCall
      BY <1>1, <1>2 DEF CaughtUp, Undisturbed, OwnRoots
    <2>2. \A p \in Publishers : call[p] = NoCall
      BY <2>1, PublicationNames DEF OrderInv, CallsLocked
    <2>3. ~roots_dirty' => UNCHANGED <<roots_dirty, tree>>
      BY <1>2
    <2>4. QED
      BY <2>1, <2>2, <2>3 DEF OrderInv, CaughtUp
  <1>9. QED
    BY <1>5, <1>6, <1>7, <1>8 DEF OrderInv

\* A transaction of the service replaces the account's tree by a later one;
\* one of the updater marks it with a list.
LEMMA LandsOrder ==
    ASSUME StoreInv, OrderInv, NEW s \in Senders, TxLands(s)
    PROVE  OrderInv'
  <1> DEFINE tx == call[s].tx
  <1>1. /\ call[s] # NoCall /\ call[s].status = "sent"
        /\ Land(tx) /\ issuer' = tx.roots
        /\ Becomes(s, "landed")
        /\ UNCHANGED <<credentials, tree, roots_dirty, registered, overtaken, lock,
                       detached, updaterRegistered, restarts, errors, disconnects>>
    BY DEF TxLands, Land, service, bounds
  <1>2. LedgerType
    BY DEF OrderInv
  <1>3. tx \in Transaction
    BY <1>1, <1>2, CallType
  <1>4. /\ issuer' \in IssuerRoots
        /\ issuer'.merkle_root # ZeroRoot /\ issuer'.jurisdiction_root
        /\ issuer' # NoIssuer
    BY <1>1, <1>2, <1>3, LandType
  <1>5. /\ call' \in [Senders -> Call \cup {NoCall}]
        /\ call'[s] # NoCall /\ call'[s].tx = tx /\ call'[s].status = "landed"
        /\ \A q \in Senders : q # s => call'[q] = call[q]
    BY <1>1, <1>2, AnswerCall
  <1> HIDE DEF tx
  <1>6. LedgerType'
    BY <1>1, <1>2, <1>4, <1>5 DEF LedgerType
  <1>7. CallsLocked'
    BY <1>1, <1>5 DEF OrderInv, CallsLocked, Senders
  <1>8. AccountKnown'
    BY <1>4 DEF AccountKnown
  <1>9. UpdaterSendsLists'
    BY <1>1, <1>5 DEF OrderInv, UpdaterSendsLists, Senders, tx
  <1>10. CASE s = Updater
    <2>1. ~OwnRoots'
      BY <1>1, <1>10 DEF OrderInv, UpdaterSendsLists, OwnRoots, tx
    <2>2. \A p \in Publishers : call'[p] = call[p]
      BY <1>5, <1>10, PublicationNames DEF Senders
    <2>3. Ordered'
      BY <1>1, <2>1, <2>2 DEF OrderInv, Ordered, Undisturbed
    <2>4. CaughtUp'
      BY <1>1, <2>1, <2>2 DEF OrderInv, CaughtUp, Undisturbed
    <2>5. QED
      BY <1>6, <1>7, <1>8, <1>9, <2>3, <2>4 DEF OrderInv
  <1>11. CASE s \in Publishers
    <2>1. \A p \in Publishers : p # s => call'[p] = NoCall
      BY <1>1, <1>5, <1>11, PublicationNames DEF OrderInv, CallsLocked, Senders
    <2>2. lock # NoOne
      BY <1>1, <1>11, PublicationNames DEF OrderInv, CallsLocked
    <2>3. Ordered'
      <3>1. SUFFICES ASSUME Undisturbed
                     PROVE  /\ detached = {}
                            /\ Forward(tx.roots.merkle_root, tree)
                            /\ tx.roots.merkle_root \in Seq(Leaves)
        BY <1>1, <1>5, <1>11, <2>1 DEF Ordered, Undisturbed
      <3>2. QED
        BY <1>1, <1>11, <3>1 DEF OrderInv, Ordered, tx
    <2>4. CaughtUp'
      <3>1. SUFFICES ASSUME Undisturbed, ~overtaken
                     PROVE  /\ roots_dirty \/ ~registered
                            /\ tx.roots.merkle_root = tree
        BY <1>1, <1>5, <1>11, <2>1, <2>2 DEF CaughtUp, Undisturbed
      <3>2. QED
        BY <1>1, <1>11, <3>1 DEF OrderInv, CaughtUp, tx
    <2>5. QED
      BY <1>6, <1>7, <1>8, <1>9, <2>3, <2>4 DEF OrderInv
  <1>12. QED
    BY <1>10, <1>11 DEF Senders

\* A refused transaction, or a call that failed, changes nothing on chain; one
\* that may still land disturbs.
LEMMA FailsOrder ==
    ASSUME StoreInv, OrderInv, NEW s \in Senders, TxRefused(s) \/ RpcError(s)
    PROVE  OrderInv'
  <1>1. /\ call[s] # NoCall
        /\ Becomes(s, "failed")
        /\ UNCHANGED <<credentials, tree, roots_dirty, registered, overtaken, lock,
                       issuer, updaterRegistered, restarts, disconnects>>
    BY DEF TxRefused, RpcError, service, ledger, bounds
  <1>2. LedgerType
    BY DEF OrderInv
  <1>3. /\ call' \in [Senders -> Call \cup {NoCall}]
        /\ call'[s] # NoCall /\ call'[s].tx = call[s].tx
        /\ call'[s].status = "failed"
        /\ \A q \in Senders : q # s => call'[q] = call[q]
    BY <1>1, <1>2, AnswerCall
  <1>4. errors' \in Nat /\ (errors' = errors \/ errors' = errors + 1)
    BY <1>2 DEF TxRefused, RpcError, bounds, LedgerType
  <1>5. detached' \subseteq Transaction
    <2>1. call[s].tx \in Transaction
      BY <1>1, <1>2, CallType
    <2>2. detached' \subseteq detached \cup {call[s].tx}
      BY DEF TxRefused, RpcError, ledger
    <2>3. QED
      BY <1>2, <2>1, <2>2 DEF LedgerType
  <1>6. ASSUME Undisturbed' PROVE Undisturbed /\ detached' = detached
    <2>1. CASE TxRefused(s)
      BY <1>6, <2>1 DEF TxRefused, Undisturbed, bounds, ledger
    <2>2. CASE RpcError(s)
      <3>1. errors' = errors + 1 /\ errors \in Nat
        BY <1>2, <2>2 DEF RpcError, LedgerType
      <3>2. ~LateErrors
        BY <1>6, <3>1 DEF Undisturbed
      <3>3. detached' = detached
        BY <2>2, <3>2 DEF RpcError
      <3>4. QED
        BY <1>1, <1>6, <3>2, <3>3 DEF Undisturbed
    <2>3. QED
      BY <2>1, <2>2
  <1>7. LedgerType'
    BY <1>1, <1>2, <1>3, <1>4, <1>5 DEF LedgerType
  <1>8. CallsLocked'
    BY <1>1, <1>3 DEF OrderInv, CallsLocked, Senders
  <1>9. AccountKnown'
    BY <1>1, <1>3 DEF OrderInv, AccountKnown
  <1>10. UpdaterSendsLists'
    BY <1>1, <1>3 DEF OrderInv, UpdaterSendsLists, Senders
  <1>11. \A p \in Publishers : call'[p] # NoCall =>
            /\ call[p] # NoCall
            /\ call'[p].tx = call[p].tx
            /\ call'[p].status = call[p].status \/ call'[p].status = "failed"
    BY <1>1, <1>3 DEF Senders
  <1>12. Ordered'
    BY <1>1, <1>6, <1>11 DEF OrderInv, Ordered, OwnRoots
  <1>13. CaughtUp'
    BY <1>1, <1>6, <1>11 DEF OrderInv, CaughtUp, OwnRoots
  <1>14. QED
    BY <1>7, <1>8, <1>9, <1>10, <1>12, <1>13 DEF OrderInv

\* A transaction that nobody waits for only lands when somebody went away or
\* gave up.
LEMMA DetachedOrder ==
    ASSUME StoreInv, OrderInv, NEW tx \in detached, DetachedLands(tx)
    PROVE  OrderInv'
  <1>1. /\ Land(tx)
        /\ detached' = detached \ {tx}
        /\ UNCHANGED <<credentials, tree, roots_dirty, registered, overtaken, lock,
                       call, updaterRegistered, restarts, errors, disconnects>>
    BY DEF DetachedLands, service, bounds
  <1>2. LedgerType /\ tx \in Transaction
    BY DEF OrderInv, LedgerType
  <1>3. /\ issuer' \in IssuerRoots
        /\ issuer'.merkle_root # ZeroRoot /\ issuer'.jurisdiction_root
        /\ issuer' # NoIssuer
    BY <1>1, <1>2, LandType
  <1>4. LedgerType'
    BY <1>1, <1>2, <1>3 DEF LedgerType
  <1>5. CallsLocked' /\ AccountKnown' /\ UpdaterSendsLists'
    BY <1>1, <1>3 DEF OrderInv, CallsLocked, AccountKnown, UpdaterSendsLists
  <1>6. ~Undisturbed'
    <2>1. ~Undisturbed
      BY DEF OrderInv, Ordered
    <2>2. QED
      BY <1>1, <2>1 DEF Undisturbed
  <1>7. Ordered' /\ CaughtUp'
    BY <1>6 DEF Ordered, CaughtUp
  <1>8. QED
    BY <1>4, <1>5, <1>7 DEF OrderInv

\* Publishing starts from the tree as it is.
LEMMA StartOrder ==
    ASSUME StoreInv, OrderInv, NEW p \in Publishers, StartPublish(p)
    PROVE  OrderInv'
  <1>1. /\ lock = NoOne /\ call[p] = NoCall
        /\ roots_dirty \/ ~registered
        /\ lock' = p
        /\ Send(p, ~registered, RootsAsBytes)
        /\ UNCHANGED <<credentials, tree, roots_dirty, registered, overtaken,
                       issuer, detached, updaterRegistered, restarts, errors,
                       disconnects>>
    BY DEF StartPublish, service, ledger, bounds
  <1>2. LedgerType /\ p \in Senders
    BY DEF OrderInv, Senders
  <1>3. tree \in Seq(Leaves)
    BY DEF StoreInv, LeavesOf, Leaves
  <1>4. RootsAsBytes \in IssuerRoots /\ RootsAsBytes.merkle_root = tree
    BY <1>3 DEF RootsAsBytes, IssuerRoots, Leaves
  <1>5. /\ call' \in [Senders -> Call \cup {NoCall}]
        /\ call'[p] # NoCall
        /\ call'[p].tx.roots = RootsAsBytes /\ call'[p].status = "sent"
        /\ \A q \in Senders : q # p => call'[q] = call[q]
    <2>1. (~registered) \in BOOLEAN
      OBVIOUS
    <2>2. QED
      BY <1>1, <1>2, <1>4, <2>1, SendCall
  <1>6. \A q \in Publishers : q # p => call'[q] = NoCall
    BY <1>1, <1>5, PublicationNames DEF OrderInv, CallsLocked, Senders
  <1>7. call'[Updater] = call[Updater]
    BY <1>5, PublicationNames DEF Senders
  <1>8. LedgerType'
    BY <1>1, <1>2, <1>5 DEF LedgerType
  <1>9. CallsLocked'
    BY <1>1, <1>6 DEF CallsLocked
  <1>10. AccountKnown' /\ UpdaterSendsLists'
    BY <1>1, <1>5, <1>7 DEF OrderInv, AccountKnown, UpdaterSendsLists
  <1>11. Ordered'
    <2>1. Forward(tree, tree)
      BY <1>3, ForwardReflexive
    <2>2. QED
      BY <1>1, <1>3, <1>4, <1>5, <1>6, <2>1
         DEF OrderInv, Ordered, Undisturbed, OwnRoots
  <1>12. CaughtUp'
    <2>1. lock' # NoOne
      BY <1>1, PublicationNames
    <2>2. QED
      BY <1>1, <1>4, <1>5, <1>6, <2>1 DEF OrderInv, CaughtUp, Undisturbed, OwnRoots
  <1>13. QED
    BY <1>8, <1>9, <1>10, <1>11, <1>12 DEF OrderInv

\* Clearing the flag is right when no credential changed meanwhile.
LEMMA FinishOrder ==
    ASSUME StoreInv, OrderInv, NEW p \in Publishers, FinishPublish(p)
    PROVE  OrderInv'
  <1>1. /\ call[p] # NoCall /\ call[p].status # "sent"
        /\ lock' = NoOne
        /\ call' = [call EXCEPT ![p] = NoCall]
        /\ UNCHANGED <<credentials, tree, overtaken, issuer, detached,
                       updaterRegistered, restarts, errors, disconnects>>
    BY DEF FinishPublish, ledger, bounds
  <1>2. LedgerType /\ p \in Senders
    BY DEF OrderInv, Senders
  <1>3. /\ call' \in [Senders -> Call \cup {NoCall}]
        /\ call'[p] = NoCall
        /\ \A q \in Senders : q # p => call'[q] = call[q]
    BY <1>1, <1>2, DropCall
  <1>4. /\ registered' \in BOOLEAN /\ roots_dirty' \in BOOLEAN
        /\ call[p].status # "landed" => UNCHANGED <<registered, roots_dirty>>
    BY <1>2 DEF FinishPublish, LedgerType
  <1>5. \A q \in Publishers : call'[q] = NoCall
    <2>1. SUFFICES ASSUME NEW q \in Publishers, q # p PROVE call[q] = NoCall
      BY <1>3 DEF Senders
    <2>2. QED
      BY <1>1, <2>1 DEF OrderInv, CallsLocked
  <1>6. call'[Updater] = call[Updater]
    BY <1>3, PublicationNames DEF Senders
  <1>7. LedgerType'
    BY <1>1, <1>2, <1>3, <1>4 DEF LedgerType
  <1>8. CallsLocked'
    BY <1>5 DEF CallsLocked
  <1>9. AccountKnown'
    <2>1. call[p].status = "landed" => issuer # NoIssuer
      BY <1>1, <1>2 DEF OrderInv, AccountKnown
    <2>2. registered' \/ updaterRegistered' => issuer # NoIssuer
      BY <1>1, <1>4, <2>1 DEF OrderInv, AccountKnown
    <2>3. QED
      BY <1>1, <1>3, <2>2 DEF OrderInv, AccountKnown
  <1>10. UpdaterSendsLists'
    BY <1>6 DEF OrderInv, UpdaterSendsLists
  <1>11. Ordered'
    BY <1>1, <1>5 DEF OrderInv, Ordered, Undisturbed, OwnRoots
  <1>12. CaughtUp'
    <2>1. SUFFICES ASSUME Undisturbed, ~overtaken, registered', ~roots_dirty',
                          OwnRoots
                   PROVE  issuer.merkle_root = tree
      BY <1>1, <1>5 DEF CaughtUp, Undisturbed, OwnRoots
    <2>2. CASE call[p].status = "landed"
      BY <1>1, <2>1, <2>2 DEF OrderInv, CaughtUp
    <2>3. CASE call[p].status # "landed"
      <3>1. registered /\ ~roots_dirty
        <4>1. registered' = registered /\ roots_dirty' = roots_dirty
          BY <1>4, <2>3
        <4>2. QED
          BY <2>1, <4>1
      <3>2. roots_dirty \/ ~registered
        BY <1>1, <2>1 DEF OrderInv, CaughtUp
      <3>3. QED
        BY <3>1, <3>2
    <2>4. QED
      BY <2>2, <2>3
  <1>13. QED
    BY <1>7, <1>8, <1>9, <1>10, <1>11, <1>12 DEF OrderInv

\* A client that goes away, or a process that starts again, disturbs.
LEMMA GoneOrder ==
    ASSUME StoreInv, OrderInv,
           \/ ClientGone
           \/ \E probed, loaded \in BOOLEAN : Restart(probed, loaded)
           \/ \E probed \in BOOLEAN : UpdaterRestart(probed)
    PROVE  OrderInv'
  <1>1. LedgerType
    BY DEF OrderInv
  <1>2. ~Undisturbed'
    <2>1. restarts' = restarts + 1 \/ disconnects' = disconnects + 1
      BY DEF ClientGone, Restart, UpdaterRestart
    <2>2. QED
      BY <1>1, <2>1 DEF LedgerType, Undisturbed
  <1>3. Ordered' /\ CaughtUp'
    BY <1>2 DEF Ordered, CaughtUp
  <1>4. Http \in Senders /\ Updater \in Senders /\ Http # Updater
        /\ {Http} \in SUBSET Senders /\ {Updater} \in SUBSET Senders
        /\ Publishers \in SUBSET Senders
    BY PublicationNames DEF Senders, Publishers
  <1>5. CASE ClientGone
    <2>1. /\ call' = [call EXCEPT ![Http] = NoCall]
          /\ lock' = NoOne
          /\ detached' = detached \cup InFlight({Http})
          /\ disconnects' = disconnects + 1
          /\ call[Http] # NoCall
          /\ UNCHANGED <<roots_dirty, registered, overtaken, issuer,
                         updaterRegistered, restarts, errors>>
      BY <1>5 DEF ClientGone, service
    <2>2. /\ call' \in [Senders -> Call \cup {NoCall}]
          /\ call'[Http] = NoCall
          /\ \A q \in Senders : q # Http => call'[q] = call[q]
      BY <1>1, <1>4, <2>1, DropCall
    <2>3. detached' \subseteq Transaction
      BY <1>1, <1>4, <2>1, InFlightType
    <2>4. LedgerType'
      BY <1>1, <2>1, <2>2, <2>3 DEF LedgerType
    <2>5. CallsLocked'
      <3>1. SUFFICES ASSUME NEW q \in Publishers, q # Http PROVE call[q] = NoCall
        BY <2>2 DEF CallsLocked, Senders
      <3>2. QED
        BY <2>1, <3>1 DEF OrderInv, CallsLocked, Publishers
    <2>6. AccountKnown' /\ UpdaterSendsLists'
      BY <1>4, <2>1, <2>2 DEF OrderInv, AccountKnown, UpdaterSendsLists
    <2>7. QED
      BY <1>3, <2>4, <2>5, <2>6 DEF OrderInv
  <1>6. CASE \E probed, loaded \in BOOLEAN : Restart(probed, loaded)
    <2>1. PICK probed \in BOOLEAN, loaded \in BOOLEAN : Restart(probed, loaded)
      BY <1>6
    <2>2. /\ call' = [s \in Senders |-> IF s = Updater THEN call[s] ELSE NoCall]
          /\ lock' = NoOne
          /\ detached' = detached \cup InFlight(Publishers)
          /\ roots_dirty' = FALSE
          /\ registered' = (probed /\ issuer # NoIssuer)
          /\ restarts' = restarts + 1
          /\ UNCHANGED <<overtaken, issuer, updaterRegistered, disconnects>>
      BY <2>1 DEF Restart
    <2>3. errors' \in Nat
      BY <1>1, <2>1 DEF Restart, LedgerType
    <2>4. /\ call' \in [Senders -> Call \cup {NoCall}]
          /\ \A q \in Publishers : call'[q] = NoCall
          /\ call'[Updater] = call[Updater]
      BY <1>1, <1>4, <2>2, PublicationNames DEF LedgerType
    <2>5. detached' \subseteq Transaction
      BY <1>1, <1>4, <2>2, InFlightType
    <2>6. LedgerType'
      <3>1. registered' \in BOOLEAN /\ roots_dirty' \in BOOLEAN
        BY <2>2
      <3>2. QED
        BY <1>1, <2>2, <2>3, <2>4, <2>5, <3>1 DEF LedgerType
    <2>7. CallsLocked' /\ UpdaterSendsLists'
      BY <2>4 DEF OrderInv, CallsLocked, UpdaterSendsLists
    <2>8. AccountKnown'
      BY <2>2, <2>4 DEF OrderInv, AccountKnown, Senders
    <2>9. QED
      BY <1>3, <2>6, <2>7, <2>8 DEF OrderInv
  <1>7. CASE \E probed \in BOOLEAN : UpdaterRestart(probed)
    <2>1. PICK probed \in BOOLEAN : UpdaterRestart(probed)
      BY <1>7
    <2>2. /\ call' = [call EXCEPT ![Updater] = NoCall]
          /\ detached' = detached \cup InFlight({Updater})
          /\ updaterRegistered' = (probed /\ issuer # NoIssuer)
          /\ restarts' = restarts + 1
          /\ UNCHANGED <<roots_dirty, registered, overtaken, lock, issuer,
                         disconnects>>
      BY <2>1 DEF UpdaterRestart, service
    <2>3. errors' \in Nat
      BY <1>1, <2>1 DEF UpdaterRestart, LedgerType
    <2>4. /\ call' \in [Senders -> Call \cup {NoCall}]
          /\ call'[Updater] = NoCall
          /\ \A q \in Senders : q # Updater => call'[q] = call[q]
      BY <1>1, <1>4, <2>2, DropCall
    <2>5. detached' \subseteq Transaction
      BY <1>1, <1>4, <2>2, InFlightType
    <2>6. LedgerType'
      <3>1. updaterRegistered' \in BOOLEAN
        BY <2>2
      <3>2. QED
        BY <1>1, <2>2, <2>3, <2>4, <2>5, <3>1 DEF LedgerType
    <2>7. CallsLocked' /\ UpdaterSendsLists'
      BY <2>2, <2>4, PublicationNames
         DEF OrderInv, CallsLocked, UpdaterSendsLists, Senders
    <2>8. AccountKnown'
      BY <2>2, <2>4 DEF OrderInv, AccountKnown
    <2>9. QED
      BY <1>3, <2>6, <2>7, <2>8 DEF OrderInv
  <1>8. QED
    BY <1>5, <1>6, <1>7

\* The updater takes no lock, but its transactions carry a list, and one that
\* registers an account carries zero roots and is refused.
LEMMA TickOrder ==
    ASSUME StoreInv, OrderInv, NEW list \in Lists, UpdaterTick(list)
    PROVE  OrderInv'
  <1>1. /\ call[Updater] = NoCall
        /\ Send(Updater, ~updaterRegistered, RootsWith(list))
        /\ UNCHANGED <<credentials, tree, roots_dirty, registered, overtaken, lock,
                       issuer, detached, updaterRegistered, restarts, errors,
                       disconnects>>
    BY DEF UpdaterTick, service, ledger, bounds
  <1>2. LedgerType /\ Updater \in Senders
    BY DEF OrderInv, Senders
  <1>3. RootsWith(list) \in IssuerRoots /\ RootsWith(list).sanctions_root = list
    <2>1. CASE updaterRegistered
      <3>1. issuer \in IssuerRoots
        BY <1>2, <2>1 DEF OrderInv, AccountKnown, LedgerType
      <3>2. RootsWith(list) = [issuer EXCEPT !.sanctions_root = list]
        BY <2>1 DEF RootsWith
      <3>3. QED
        BY <3>1, <3>2 DEF IssuerRoots
    <2>2. CASE ~updaterRegistered
      BY <2>2 DEF RootsWith, IssuerRoots
    <2>3. QED
      BY <2>1, <2>2
  <1>4. /\ call' \in [Senders -> Call \cup {NoCall}]
        /\ call'[Updater].tx.roots = RootsWith(list)
        /\ call'[Updater].status = "sent"
        /\ \A q \in Senders : q # Updater => call'[q] = call[q]
    <2>1. (~updaterRegistered) \in BOOLEAN
      OBVIOUS
    <2>2. QED
      BY <1>1, <1>2, <1>3, <2>1, SendCall
  <1>5. \A q \in Publishers : call'[q] = call[q]
    BY <1>4, PublicationNames DEF Senders
  <1>6. LedgerType'
    BY <1>1, <1>2, <1>4 DEF LedgerType
  <1>7. CallsLocked'
    BY <1>1, <1>5 DEF OrderInv, CallsLocked
  <1>8. AccountKnown'
    BY <1>1, <1>4 DEF OrderInv, AccountKnown
  <1>9. UpdaterSendsLists'
    BY <1>3, <1>4 DEF UpdaterSendsLists
  <1>10. Ordered'
    BY <1>1, <1>5 DEF OrderInv, Ordered, Undisturbed, OwnRoots
  <1>11. CaughtUp'
    BY <1>1, <1>5 DEF OrderInv, CaughtUp, Undisturbed, OwnRoots
  <1>12. QED
    BY <1>6, <1>7, <1>8, <1>9, <1>10, <1>11 DEF OrderInv

LEMMA DoneOrder ==
    ASSUME StoreInv, OrderInv, UpdaterDone
    PROVE  OrderInv'
  <1>1. /\ call[Updater] # NoCall
        /\ call' = [call EXCEPT ![Updater] = NoCall]
        /\ updaterRegistered' =
              (updaterRegistered \/ /\ call[Updater].status = "landed"
                                    /\ call[Updater].tx.register)
        /\ UNCHANGED <<credentials, tree, roots_dirty, registered, overtaken, lock,
                       issuer, detached, restarts, errors, disconnects>>
    BY DEF UpdaterDone, service, ledger, bounds
  <1>2. LedgerType /\ Updater \in Senders
    BY DEF OrderInv, Senders
  <1>3. /\ call' \in [Senders -> Call \cup {NoCall}]
        /\ call'[Updater] = NoCall
        /\ \A q \in Senders : q # Updater => call'[q] = call[q]
    BY <1>1, <1>2, DropCall
  <1>4. \A q \in Publishers : call'[q] = call[q]
    BY <1>3, PublicationNames DEF Senders
  <1>5. updaterRegistered' \in BOOLEAN
    BY <1>1
  <1>6. LedgerType'
    BY <1>1, <1>2, <1>3, <1>5 DEF LedgerType
  <1>7. CallsLocked' /\ UpdaterSendsLists'
    BY <1>1, <1>3, <1>4 DEF OrderInv, CallsLocked, UpdaterSendsLists
  <1>8. AccountKnown'
    <2>1. call[Updater].status = "landed" => issuer # NoIssuer
      BY <1>1, <1>2 DEF OrderInv, AccountKnown
    <2>2. registered \/ updaterRegistered => issuer # NoIssuer
      BY DEF OrderInv, AccountKnown
    <2>3. registered' \/ updaterRegistered' => issuer' # NoIssuer
      BY <1>1, <2>1, <2>2
    <2>4. \A s \in Senders :
             call'[s] # NoCall /\ call'[s].status = "landed" => issuer' # NoIssuer
      BY <1>1, <1>3 DEF OrderInv, AccountKnown
    <2>5. QED
      BY <2>3, <2>4 DEF AccountKnown
  <1>9. Ordered'
    BY <1>1, <1>4 DEF OrderInv, Ordered, Undisturbed, OwnRoots
  <1>10. CaughtUp'
    BY <1>1, <1>4 DEF OrderInv, CaughtUp, Undisturbed, OwnRoots
  <1>11. QED
    BY <1>6, <1>7, <1>8, <1>9, <1>10 DEF OrderInv

LEMMA NextOrder == StoreInv /\ OrderInv /\ StoreInv' /\ [Next]_vars => OrderInv'
  <1>1. SUFFICES ASSUME StoreInv, OrderInv, StoreInv', [Next]_vars PROVE OrderInv'
    OBVIOUS
  <1>2. ASSUME NEW w \in Wallets, NEW saved \in BOOLEAN,
               IssueCredential(w, saved) \/ RevokeCredential(w, saved)
        PROVE  OrderInv'
    BY <1>1, <1>2, ChangeOrder
  <1>3. ASSUME NEW s \in Senders, Answered(s) \/ RpcError(s) PROVE OrderInv'
    BY <1>1, <1>3, LandsOrder, FailsOrder DEF Answered
  <1>4. ASSUME NEW tx \in detached, DetachedLands(tx) PROVE OrderInv'
    BY <1>1, <1>4, DetachedOrder
  <1>5. ASSUME NEW p \in Publishers, StartPublish(p) \/ FinishPublish(p)
        PROVE  OrderInv'
    BY <1>1, <1>5, StartOrder, FinishOrder
  <1>6. CASE \/ ClientGone
             \/ \E probed, loaded \in BOOLEAN : Restart(probed, loaded)
             \/ \E probed \in BOOLEAN : UpdaterRestart(probed)
    BY <1>1, <1>6, GoneOrder
  <1>7. ASSUME NEW list \in Lists, UpdaterTick(list) PROVE OrderInv'
    BY <1>1, <1>7, TickOrder
  <1>8. CASE UpdaterDone
    BY <1>1, <1>8, DoneOrder
  <1>9. CASE UNCHANGED vars
    BY <1>1, <1>9
       DEF vars, service, ledger, bounds, OrderInv, LedgerType, CallsLocked,
           AccountKnown, UpdaterSendsLists, Ordered, CaughtUp, Undisturbed,
           OwnRoots
  <1>10. QED
    BY <1>1, <1>2, <1>3, <1>4, <1>5, <1>6, <1>7, <1>8, <1>9 DEF Next

\* The order of publications holds throughout.
THEOREM PublicationOrder == Spec => []OrderInv
  <1>1. Init => OrderInv
    <2>1. SUFFICES ASSUME Init PROVE OrderInv
      OBVIOUS
    <2>2. LedgerType
      BY <2>1 DEF Init, LedgerType
    <2>3. CallsLocked /\ AccountKnown /\ UpdaterSendsLists /\ Ordered /\ CaughtUp
      BY <2>1 DEF Init, CallsLocked, AccountKnown, UpdaterSendsLists, Ordered,
                  CaughtUp, OwnRoots, Senders
    <2>4. QED
      BY <2>2, <2>3 DEF OrderInv
  <1>2. StoreInv /\ StoreInv' /\ OrderInv /\ [Next]_vars => OrderInv'
    BY NextOrder
  <1>3. QED
    BY <1>1, <1>2, StoreConsistent, PTL DEF Spec

\* Every variable has its type; the account never holds a zero root, although
\* the updater sends them.
THEOREM TypeCorrect == Spec => []TypeOK
  <1>1. StoreInv /\ OrderInv => TypeOK
    BY DEF StoreInv, Indexed, LeavesOf, OrderInv, LedgerType, TypeOK
  <1>2. QED
    BY <1>1, StoreConsistent, PublicationOrder, PTL

\* A service with nothing to publish has its tree on chain, as long as no
\* credential changed under publish_lock and nobody went away.
THEOREM CleanIsPublished == Spec => []CleanMeansPublished
  <1>1. OrderInv => CleanMeansPublished
    BY DEF OrderInv, AccountKnown, CaughtUp, OwnRoots, CleanMeansPublished
  <1>2. QED
    BY <1>1, PublicationOrder, PTL

\* While only the service writes the account its tree never goes back: no
\* zeroed leaf reappears, whichever of the two publishers is faster.
THEOREM MovesForward == Spec => RootsMoveForward
  <1> DEFINE Moves ==
          Undisturbed /\ issuer # NoIssuer
             /\ {issuer.sanctions_root, issuer'.sanctions_root} \cap Lists = {}
          => LET old == issuer.merkle_root  new == issuer'.merkle_root IN
             /\ Len(new) >= Len(old)
             /\ \A i \in DOMAIN old : old[i] = ZeroLeaf => new[i] = ZeroLeaf
  <1>1. ASSUME StoreInv, OrderInv, Next PROVE Moves
    <2>1. SUFFICES ASSUME Undisturbed, OwnRoots, issuer'.sanctions_root \notin Lists
                   PROVE  Forward(issuer.merkle_root, issuer'.merkle_root)
      BY DEF OwnRoots, Forward
    <2>2. issuer.merkle_root \in Seq(Leaves)
      BY <1>1, <2>1, AccountTree DEF OrderInv, OwnRoots
    <2>3. CASE issuer' = issuer
      BY <2>2, <2>3, ForwardReflexive
    <2>4. CASE \E s \in Senders : TxLands(s)
      <3>1. PICK s \in Senders : TxLands(s)
        BY <2>4
      <3>2. /\ call[s] # NoCall /\ call[s].status = "sent"
            /\ issuer' = call[s].tx.roots
        BY <3>1 DEF TxLands, Land
      <3>3. s # Updater
        BY <1>1, <2>1, <3>2 DEF OrderInv, UpdaterSendsLists
      <3>4. s \in Publishers
        BY <3>3 DEF Senders
      <3>5. QED
        BY <1>1, <2>1, <3>2, <3>4 DEF OrderInv, Ordered
    <2>5. CASE \E tx \in detached : DetachedLands(tx)
      BY <1>1, <2>1, <2>5 DEF OrderInv, Ordered
    <2>6. CASE \/ \E w \in Wallets, saved \in BOOLEAN :
                     IssueCredential(w, saved) \/ RevokeCredential(w, saved)
               \/ \E s \in Senders : TxRefused(s) \/ RpcError(s)
               \/ \E p \in Publishers : StartPublish(p) \/ FinishPublish(p)
               \/ ClientGone
               \/ \E probed, loaded \in BOOLEAN : Restart(probed, loaded)
               \/ \E probed \in BOOLEAN : UpdaterRestart(probed)
               \/ \E list \in Lists : UpdaterTick(list)
               \/ UpdaterDone
      <3>1. issuer' = issuer
        BY <2>6 DEF IssueCredential, RevokeCredential, TxRefused, RpcError,
                    StartPublish, FinishPublish, ClientGone, Restart,
                    UpdaterRestart, UpdaterTick, UpdaterDone, ledger
      <3>2. QED
        BY <2>3, <3>1
    <2>7. QED
      BY <1>1, <2>4, <2>5, <2>6 DEF Next, Answered
  <1>2. StoreInv /\ OrderInv /\ [Next]_vars => [Moves]_vars
    BY <1>1
  <1>3. QED
    BY <1>2, StoreConsistent, PublicationOrder, PTL DEF Spec, RootsMoveForward
=============================================================================
