----------------------------- MODULE UtilsProofs -----------------------------
(***************************************************************************)
(* Two of the utilities.  The multiplexer: whatever patterns are           *)
(* registered, in whatever order, a path is routed to the longest pattern  *)
(* that fits it.  TypeOK is inductive: the array stays sorted because      *)
(* sort.Search finds the place of every new pattern; and the first prefix  *)
(* in a sorted array is the longest.  Both searches find something because *)
(* a set of naturals has a least member.  And however a request spells the *)
(* path of a pattern, clean turns it into that path.  The timer: for any   *)
(* number of callers, starts and resets, COMPLETE is dispatched at most    *)
(* once for every time the counter is set to zero.                         *)
(***************************************************************************)
EXTENDS Mux, Timer, Induction, FiniteSetTheorems, SequenceTheorems, TLAPS

-----------------------------------------------------------------------------
(* The multiplexer.                                                        *)

\* A prefix is no longer than what it begins.
LEMMA PrefixIsShorter ==
    ASSUME NEW s, NEW t, IsPrefix(s, t)
    PROVE  Len(s) <= Len(t)
    BY DEF IsPrefix

\* sort.Search finds a position for every new pattern.
LEMMA PositionFound ==
    ASSUME NEW arr \in Seq(Path), NEW p \in Path
    PROVE  IsPosition(arr, p, Position(arr, p))
<1> DEFINE Shorter == {i \in 1..Len(arr) : Len(arr[i]) < Len(p)}
<1>0. Len(arr) \in Nat /\ Len(p) \in Nat /\ \A i \in 1..Len(arr) : Len(arr[i]) \in Nat
    BY DEF Path
<1>1. CASE Shorter = {}
    <2>1. IsPosition(arr, p, Len(arr) + 1)
        BY <1>0, <1>1 DEF IsPosition
    <2> QED
        BY <1>0, <2>1 DEF Position
<1>2. CASE Shorter # {}
    <2>1. PICK m \in Shorter : \A k \in Shorter : m <= k
        <3>1. Shorter \in SUBSET Nat
            BY <1>0
        <3> HIDE DEF Shorter
        <3> QED
            BY <1>2, <3>1, HasLeast
    <2>2. m \in 1..(Len(arr) + 1)
        BY <1>0, <2>1
    <2>3. IsPosition(arr, p, m)
        BY <1>0, <2>1 DEF IsPosition
    <2> QED
        BY <2>2, <2>3 DEF Position
<1> QED
    BY <1>1, <1>2

\* What appendOnSort makes of the array: the patterns behind the new one move
\* up by one.
LEMMA Inserted ==
    ASSUME NEW S, NEW arr \in Seq(S), NEW p \in S, NEW i \in 1..(Len(arr) + 1), i = Position(arr, p)
    PROVE  /\ AppendOnSort(arr, p) \in Seq(S)
           /\ Len(AppendOnSort(arr, p)) = Len(arr) + 1
           /\ \A j \in 1..(Len(arr) + 1) :
                AppendOnSort(arr, p)[j] = IF j < i THEN arr[j] ELSE IF j = i THEN p ELSE arr[j - 1]
<1> DEFINE a == SubSeq(arr, 1, i - 1)
           b == SubSeq(arr, i, Len(arr))
<1>1. Len(arr) \in Nat /\ i \in Int
    OBVIOUS
<1>2. /\ a \in Seq(S) /\ Len(a) = i - 1
      /\ \A j \in 1..(i - 1) : a[j] = arr[j]
    BY <1>1, SubSeqProperties
<1>3. /\ b \in Seq(S) /\ Len(b) = Len(arr) - i + 1
      /\ \A j \in 1..(Len(arr) - i + 1) : b[j] = arr[i + j - 1]
    BY <1>1, SubSeqProperties
<1> HIDE DEF a, b
<1>4. /\ a \o <<p>> \in Seq(S) /\ Len(a \o <<p>>) = i
      /\ \A j \in 1..i : (a \o <<p>>)[j] = IF j < i THEN arr[j] ELSE p
    BY <1>1, <1>2
<1> DEFINE c == a \o <<p>>
<1>5. AppendOnSort(arr, p) = c \o b
    BY DEF AppendOnSort, a, b
<1>6. /\ c \in Seq(S) /\ Len(c) = i
      /\ \A j \in 1..i : c[j] = IF j < i THEN arr[j] ELSE p
    BY <1>4
<1> HIDE DEF c
<1>7. /\ c \o b \in Seq(S) /\ Len(c \o b) = Len(c) + Len(b)
      /\ \A j \in 1..(Len(c) + Len(b)) : (c \o b)[j] = IF j <= Len(c) THEN c[j] ELSE b[j - Len(c)]
    BY <1>3, <1>6, ConcatProperties
<1>8. Len(c) + Len(b) = Len(arr) + 1
    BY <1>1, <1>3, <1>6
<1>9. ASSUME NEW j \in 1..(Len(arr) + 1)
      PROVE  (c \o b)[j] = IF j < i THEN arr[j] ELSE IF j = i THEN p ELSE arr[j - 1]
    <2>1. CASE j <= i
        BY <1>1, <1>6, <1>7, <1>8, <2>1
    <2>2. CASE j > i
        <3>1. j - i \in 1..(Len(arr) - i + 1) /\ i + (j - i) - 1 = j - 1
            BY <1>1, <2>2
        <3>2. b[j - i] = arr[j - 1]
            BY <1>3, <3>1
        <3> QED
            BY <1>1, <1>6, <1>7, <1>8, <2>2, <3>2
    <2>3. j <= i \/ j > i
        BY <1>1
    <2> QED
        BY <2>1, <2>2, <2>3
<1> QED
    BY <1>5, <1>7, <1>8, <1>9

\* Handle keeps the array sorted, without duplicates and in step with the
\* table.
LEMMA TypeStep ==
    ASSUME TypeOK, NEW p \in Patterns, Handle(p)
    PROVE  TypeOK'
<1>1. p \in Path /\ Patterns \subseteq Path /\ table \subseteq Path /\ array \in Seq(Path)
    BY MuxAssumption DEF MuxAssumption, TypeOK
<1>2. table' = table \cup {p} /\ p \notin table
    BY DEF Handle
<1>3. CASE ~IsSubtree(p)
    <2>1. array' = array
        BY <1>3 DEF Handle
    <2>2. array \in Seq(table')
        BY <1>2 DEF TypeOK
    <2>3. {q \in table' : IsSubtree(q)} = {q \in table : IsSubtree(q)}
        BY <1>2, <1>3
    <2> QED
        BY <1>2, <2>1, <2>2, <2>3 DEF TypeOK
<1>4. CASE IsSubtree(p)
    <2> DEFINE i == Position(array, p)
    <2>1. IsPosition(array, p, i)
        BY <1>1, PositionFound
    <2>2. i \in 1..(Len(array) + 1)
        BY <2>1 DEF IsPosition
    <2>3. array \in Seq(table') /\ p \in table'
        BY <1>2 DEF TypeOK
    <2>4. array' = AppendOnSort(array, p)
        BY <1>4 DEF Handle
    <2> HIDE DEF i
    <2>5. /\ array' \in Seq(table') /\ Len(array') = Len(array) + 1
          /\ \A j \in 1..(Len(array) + 1) :
                array'[j] = IF j < i THEN array[j] ELSE IF j = i THEN p ELSE array[j - 1]
        BY <2>2, <2>3, <2>4, Inserted DEF i
    <2>6. Len(array) \in Nat /\ DOMAIN array = 1..Len(array) /\ DOMAIN array' = 1..(Len(array) + 1)
        BY <2>3, <2>5
    <2>7. {array'[j] : j \in DOMAIN array'} = {q \in table' : IsSubtree(q)}
        <3>1. {array[j] : j \in DOMAIN array} = {q \in table : IsSubtree(q)}
            BY DEF TypeOK
        <3>2. ASSUME NEW j \in DOMAIN array' PROVE array'[j] \in {array[k] : k \in DOMAIN array} \cup {p}
            BY <2>2, <2>5, <2>6
        <3>3. ASSUME NEW k \in DOMAIN array PROVE array[k] \in {array'[j] : j \in DOMAIN array'}
            <4>1. CASE k < i
                BY <2>2, <2>5, <2>6, <4>1
            <4>2. CASE k >= i
                <5>1. k + 1 \in DOMAIN array' /\ array'[k + 1] = array[k]
                    BY <2>2, <2>5, <2>6, <4>2
                <5> QED
                    BY <5>1
            <4> QED
                BY <2>2, <2>6, <4>1, <4>2
        <3>4. p \in {array'[j] : j \in DOMAIN array'}
            BY <2>2, <2>5, <2>6
        <3> QED
            BY <1>2, <1>4, <3>1, <3>2, <3>3, <3>4
    <2>8. ASSUME NEW j \in DOMAIN array', NEW k \in DOMAIN array', j < k
          PROVE  array'[j] # array'[k] /\ Len(array'[j]) >= Len(array'[k])
        <3>1. \A l, m \in DOMAIN array :
                l < m => array[l] # array[m] /\ Len(array[l]) >= Len(array[m])
            BY DEF TypeOK
        <3>2. \A m \in DOMAIN array : array[m] # p /\ Len(array[m]) \in Nat
            BY <1>1, <1>2 DEF TypeOK
        <3>3. Len(p) \in Nat
            BY <1>1 DEF Path
        <3>4. \A m \in DOMAIN array : m < i => Len(array[m]) >= Len(p)
            BY <2>1, <2>2, <2>6 DEF IsPosition
        <3>5. ASSUME NEW m \in DOMAIN array, m >= i PROVE Len(array[m]) <= Len(p)
            <4>1. Len(array[i]) < Len(p) /\ i \in DOMAIN array
                BY <2>1, <2>2, <2>6, <3>5 DEF IsPosition
            <4>2. Len(array[m]) <= Len(array[i])
                BY <2>2, <2>6, <3>1, <3>2, <3>5, <4>1
            <4> QED
                BY <3>2, <3>3, <4>1, <4>2
        <3>6. CASE j # i /\ k # i
            <4> DEFINE Old(m) == IF m < i THEN m ELSE m - 1
            <4>1. \A m \in {j, k} : Old(m) \in DOMAIN array /\ array'[m] = array[Old(m)]
                BY <2>2, <2>5, <2>6, <3>6
            <4>2. Old(j) < Old(k)
                BY <2>2, <2>6, <2>8, <3>6
            <4> QED
                BY <3>1, <4>1, <4>2
        <3>7. CASE j = i
            <4>1. k - 1 \in DOMAIN array /\ k - 1 >= i /\ array'[k] = array[k - 1] /\ array'[j] = p
                BY <2>2, <2>5, <2>6, <2>8, <3>7
            <4> QED
                BY <3>2, <3>3, <3>5, <4>1
        <3>8. CASE k = i
            <4>1. j \in DOMAIN array /\ j < i /\ array'[j] = array[j] /\ array'[k] = p
                BY <2>2, <2>5, <2>6, <2>8, <3>8
            <4> QED
                BY <3>2, <3>4, <4>1
        <3> QED
            BY <3>6, <3>7, <3>8
    <2>9. table' \subseteq Patterns
        BY <1>2 DEF TypeOK
    <2> QED
        BY <2>5, <2>7, <2>8, <2>9 DEF TypeOK
<1> QED
    BY <1>3, <1>4

\* The array holds every registered pattern that ends in a slash, once, from
\* longest to shortest, in whatever order they were registered (appendOnSort).
THEOREM ArrayStaysSorted == Spec => []TypeOK
<1>1. Init => TypeOK
    BY DEF Init, TypeOK
<1>2. TypeOK /\ [Next]_vars => TypeOK'
    BY TypeStep DEF Next, vars, TypeOK
<1> QED
    BY <1>1, <1>2, PTL DEF Spec

\* If some pattern of the array is a prefix of the path, one of them is the
\* first.
LEMMA FirstFound ==
    ASSUME TypeOK, NEW path, NEW j \in 1..Len(array), IsPrefix(array[j], path)
    PROVE  \E i \in 1..Len(array) : IsFirstPrefix(path, i)
<1> DEFINE MatchingPrefixes == {i \in 1..Len(array) : IsPrefix(array[i], path)}
<1>1. MatchingPrefixes \in SUBSET Nat /\ MatchingPrefixes # {}
    OBVIOUS
<1> HIDE DEF MatchingPrefixes
<1>2. PICK i \in MatchingPrefixes : \A k \in MatchingPrefixes : i <= k
    BY <1>1, HasLeast
<1>3. i \in 1..Len(array) /\ IsFirstPrefix(path, i)
    BY <1>2 DEF MatchingPrefixes, IsFirstPrefix, TypeOK
<1> QED
    BY <1>3

\* Match returns the longest pattern that fits, or none if none does.
LEMMA Longest ==
    ASSUME TypeOK, NEW path
    PROVE  MostSpecific(path)
<1>1. table \subseteq Path /\ array \in Seq(table)
    BY MuxAssumption DEF MuxAssumption, TypeOK
<1>2. CASE path \in table
    <2>1. Match(path) = path
        BY <1>2 DEF Match
    <2>2. \A p \in table : Fits(p, path) => Len(p) <= Len(path)
        BY <1>1, <1>2, PrefixIsShorter DEF Fits, Path
    <2> QED
        BY <1>2, <2>1, <2>2 DEF MostSpecific, Fits
<1>3. CASE path \notin table /\ \E j \in 1..Len(array) : IsPrefix(array[j], path)
    <2>1. PICK i \in 1..Len(array) : IsFirstPrefix(path, i) /\ Match(path) = array[i]
        BY <1>3, FirstFound DEF Match
    <2>2. array[i] \in table /\ IsSubtree(array[i]) /\ IsPrefix(array[i], path)
        BY <1>1, <2>1 DEF TypeOK, IsFirstPrefix
    <2>3. ASSUME NEW p \in table, Fits(p, path) PROVE Len(p) <= Len(array[i])
        <3>1. IsSubtree(p) /\ IsPrefix(p, path)
            BY <1>3, <2>3 DEF Fits
        <3>2. PICK k \in 1..Len(array) : p = array[k]
            BY <1>1, <3>1 DEF TypeOK
        <3>3. i <= k
            BY <1>1, <2>1, <3>1, <3>2 DEF IsFirstPrefix
        <3> QED
            BY <1>1, <2>1, <3>2, <3>3 DEF TypeOK, Path
    <2> QED
        BY <2>1, <2>2, <2>3 DEF MostSpecific, Fits
<1>4. CASE path \notin table /\ \A j \in 1..Len(array) : ~IsPrefix(array[j], path)
    <2>1. Match(path) = NoPattern
        BY <1>4 DEF Match, IsFirstPrefix
    <2>2. ~\E p \in table : Fits(p, path)
        BY <1>1, <1>4 DEF TypeOK, Fits
    <2> QED
        BY <2>1, <2>2 DEF MostSpecific
<1> QED
    BY <1>2, <1>3, <1>4

\* mux.go:103: the longest of the patterns that fit a path wins, for any
\* patterns and requests.
THEOREM MostSpecificWins == Spec => []LongestWins
<1>1. TypeOK => LongestWins
    BY Longest DEF LongestWins
<1> QED
    BY ArrayStaysSorted, <1>1, PTL

\* A path has a handler if and only if some pattern fits it.
Answered == \A path : Match(path) # NoPattern <=> \E p \in table : Fits(p, path)

\* match answers a pattern if and only if one fits.
LEMMA MatchAnswers == TypeOK => Answered
<1> SUFFICES ASSUME TypeOK, NEW path
             PROVE  Match(path) # NoPattern <=> \E p \in table : Fits(p, path)
    BY DEF Answered
<1>1. MostSpecific(path)
    BY Longest
<1>2. NoPattern \notin table
    BY MuxAssumption DEF MuxAssumption, TypeOK
<1> QED
    BY <1>1, <1>2 DEF MostSpecific

\* The same behind a step.
LEMMA MatchAnswersNext == TypeOK' => Answered'
    BY MatchAnswers, PTL

\* A prefix of a path is a prefix of the path with a slash behind.
LEMMA PrefixOfSlashed ==
    ASSUME NEW p \in Path, NEW path \in Path, IsPrefix(p, path)
    PROVE  IsPrefix(p, Append(path, Slash))
<1>1. Len(p) \in Nat /\ Len(path) \in Nat /\ Len(p) <= Len(path)
    BY DEF Path, IsPrefix
<1>2. Len(Append(path, Slash)) = Len(path) + 1
    BY DEF Path
<1>3. \A i \in 1..Len(p) : Append(path, Slash)[i] = path[i]
    BY <1>1 DEF Path
<1>4. SubSeq(Append(path, Slash), 1, Len(p)) = SubSeq(path, 1, Len(p))
    BY <1>1, <1>2, <1>3 DEF Path
<1> QED
    BY <1>1, <1>2, <1>4 DEF IsPrefix

\* One more pattern takes no handler away from a path, but that of the path
\* with its host.
LEMMA HandlerStays ==
    ASSUME TypeOK, TypeOK', table \subseteq table',
           NEW h \in Hosts, NEW path \in Path, Handler(h, path) # NoPattern,
           Handler(h, path)' = NoPattern
    PROVE  h \o path \in table' \ table
<1> DEFINE slashed == Append(path, Slash)
<1>1. table \subseteq Path /\ table' \subseteq Path
    BY MuxAssumption DEF TypeOK, MuxAssumption
<1>2. Answered /\ Answered'
    BY MatchAnswers, MatchAnswersNext
<1>3. CASE ShouldRedirect(h, path)
    <2>1. \E p \in table : Fits(p, slashed)
        BY <1>2, <1>3 DEF Handler, Answered
    <2>2. CASE ShouldRedirect(h, path)'
        <3>1. Match(slashed)' # NoPattern
            BY <1>2, <2>1 DEF Answered
        <3> QED
            BY <2>2, <3>1 DEF Handler
    <2>3. CASE ~ShouldRedirect(h, path)'
        <3>1. Match(path)' = NoPattern
            BY <2>3 DEF Handler
        <3>2. path \notin table'
            BY <1>2, <3>1 DEF Answered, Fits
        <3> QED
            BY <1>3, <2>3, <3>2 DEF ShouldRedirect
    <2> QED
        BY <2>2, <2>3
<1>4. CASE ~ShouldRedirect(h, path)
    <2>1. PICK p \in table : Fits(p, path)
        BY <1>2, <1>4 DEF Handler, Answered
    <2>2. CASE ShouldRedirect(h, path)'
        <3>1. p # path
            BY <2>1, <2>2 DEF ShouldRedirect
        <3>2. Fits(p, slashed)
            BY <1>1, <2>1, <3>1, PrefixOfSlashed DEF Fits
        <3>3. Match(slashed)' # NoPattern
            BY <1>2, <2>1, <3>2 DEF Answered
        <3> QED
            BY <2>2, <3>3 DEF Handler
    <2>3. CASE ~ShouldRedirect(h, path)'
        <3>1. Match(path)' # NoPattern
            BY <1>2, <2>1 DEF Answered
        <3> QED
            BY <2>3, <3>1 DEF Handler
    <2> QED
        BY <2>2, <2>3
<1> QED
    BY <1>3, <1>4

-----------------------------------------------------------------------------
(* clean, by induction on a path token by token.                           *)

\* What is kept of a path is names.
LEMMA KeepNames ==
    ASSUME NEW s \in Seq(Names), NEW tok
    PROVE  Keep(s, tok) \in Seq(Names)
<1>1. ASSUME s # <<>> PROVE Front(s) \in Seq(Names)
    BY <1>1, EmptySeq, LenProperties DEF Front
<1> QED
    BY <1>1 DEF Keep

\* Segments is computed token by token.
LEMMA SegmentsKept ==
    ASSUME NEW path \in Path
    PROVE  \E f \in [0..Len(path) -> Seq(Names)] :
             /\ f[0] = <<>> /\ \A i \in 1..Len(path) : f[i] = Keep(f[i - 1], path[i])
             /\ Segments(path) = f[Len(path)]
<1> DEFINE len == Len(path)
           g == [i \in 1..len |-> [s \in Seq(Names) |-> Keep(s, path[i])]]
<1>1. len \in Nat /\ <<>> \in Seq(Names)
    BY DEF Path
<1>2. g \in [1..len -> [Seq(Names) -> Seq(Names)]]
    BY KeepNames
<1>3. PICK f \in [0..len -> Seq(Names)] : f[0] = <<>> /\ \A i \in 1..len : f[i] = g[i][f[i - 1]]
    <2>1. AreSteps(g, len, Seq(Names))
        BY <1>2 DEF AreSteps
    <2> HIDE DEF g, len
    <2>2. \E f : Solves(f, g, len, Seq(Names), <<>>)
        BY <1>1, <2>1, Recursion
    <2> QED
        BY <2>2 DEF Solves
<1>4. \A i \in 1..len : f[i] = Keep(f[i - 1], path[i])
    <2> SUFFICES ASSUME NEW i \in 1..len PROVE f[i] = Keep(f[i - 1], path[i])
        OBVIOUS
    <2>1. i - 1 \in 0..len /\ f[i - 1] \in Seq(Names)
        BY <1>1
    <2>2. g[i] = [s \in Seq(Names) |-> Keep(s, path[i])]
        OBVIOUS
    <2> HIDE DEF g
    <2> QED
        BY <1>3, <2>1, <2>2
<1> DEFINE Kept(h) == h = [i \in 0..len |-> IF i = 0 THEN <<>> ELSE Keep(h[i - 1], path[i])]
<1>5. \A i \in 0..len : f[i] = IF i = 0 THEN <<>> ELSE Keep(f[i - 1], path[i])
    <2> HIDE DEF g
    <2> QED
        BY <1>1, <1>3, <1>4
<1>6. Kept(f)
    <2>1. f = [i \in 0..len |-> f[i]]
        OBVIOUS
    <2> QED
        BY <1>5, <2>1, Zenon
<1> DEFINE kept == CHOOSE h : Kept(h)
<1>7. Kept(kept)
    BY <1>6
<1>8. Segments(path) = kept[len]
    BY DEF Segments
<1>9. \A i \in 0..len : kept[i] = IF i = 0 THEN <<>> ELSE Keep(kept[i - 1], path[i])
    BY <1>7, Zenon
<1> HIDE DEF kept, Kept, g
<1> DEFINE Differ == {i \in 0..len : kept[i] # f[i]}
<1>10. Differ = {}
    <2>1. ASSUME Differ # {} PROVE FALSE
        <3>1. PICK i \in Differ : \A k \in Differ : i <= k
            <4>1. Differ \in SUBSET Nat
                BY <1>1
            <4> HIDE DEF Differ
            <4> QED
                BY <2>1, <4>1, HasLeast
        <3>2. i # 0 /\ i - 1 \in 0..len /\ i - 1 \notin Differ
            BY <1>1, <1>5, <1>9, <3>1
        <3> QED
            BY <1>1, <1>5, <1>9, <3>1, <3>2
    <2> QED
        BY <2>1
<1>11. kept[len] = f[len]
    BY <1>1, <1>10
<1> QED
    BY <1>3, <1>4, <1>8, <1>11

LEMMA SegmentsType ==
    ASSUME NEW path \in Path
    PROVE  Segments(path) \in Seq(Names)
<1>1. PICK f \in [0..Len(path) -> Seq(Names)] : Segments(path) = f[Len(path)]
    BY SegmentsKept
<1>2. Len(path) \in 0..Len(path)
    BY DEF Path
<1> QED
    BY <1>1, <1>2

LEMMA SegmentsEmpty == Segments(<<>>) = <<>>
<1>1. <<>> \in Path /\ Len(<<>>) = 0
    BY DEF Path
<1>2. PICK f \in [0..Len(<<>>) -> Seq(Names)] : f[0] = <<>> /\ Segments(<<>>) = f[Len(<<>>)]
    BY <1>1, SegmentsKept
<1> QED
    BY <1>1, <1>2

\* One more token.
LEMMA SegmentsAppend ==
    ASSUME NEW path \in Path, NEW tok \in Token
    PROVE  Segments(Append(path, tok)) = Keep(Segments(path), tok)
<1> DEFINE len == Len(path)
           longer == Append(path, tok)
<1>1. /\ len \in Nat /\ longer \in Path /\ Len(longer) = len + 1
      /\ longer[len + 1] = tok /\ \A i \in 1..len : longer[i] = path[i]
    BY AppendProperties DEF Path
<1>2. PICK f \in [0..len -> Seq(Names)] :
             /\ f[0] = <<>> /\ \A i \in 1..len : f[i] = Keep(f[i - 1], path[i])
             /\ Segments(path) = f[len]
    BY SegmentsKept
<1> HIDE DEF longer
<1>3. PICK h \in [0..Len(longer) -> Seq(Names)] :
             /\ h[0] = <<>> /\ \A i \in 1..Len(longer) : h[i] = Keep(h[i - 1], longer[i])
             /\ Segments(longer) = h[Len(longer)]
    BY <1>1, SegmentsKept
<1> HIDE DEF len
<1> DEFINE Differ == {i \in 0..len : h[i] # f[i]}
<1>4. Differ = {}
    <2>1. ASSUME Differ # {} PROVE FALSE
        <3>1. PICK i \in Differ : \A k \in Differ : i <= k
            <4>1. Differ \in SUBSET Nat
                BY <1>1
            <4> HIDE DEF Differ
            <4> QED
                BY <2>1, <4>1, HasLeast
        <3>2. i \in 1..len /\ i \in 1..(len + 1) /\ i - 1 \in 0..len /\ i - 1 \notin Differ
            BY <1>1, <1>2, <1>3, <3>1
        <3>3. h[i] = Keep(h[i - 1], longer[i]) /\ f[i] = Keep(f[i - 1], path[i])
            BY <1>1, <1>2, <1>3, <3>2
        <3> QED
            BY <1>1, <3>1, <3>2, <3>3
    <2> QED
        BY <2>1
<1>5. h[len] = f[len]
    <2>1. len \in 0..len /\ len \notin Differ
        <3> HIDE DEF Differ
        <3> QED
            BY <1>1, <1>4
    <2> QED
        BY <2>1
<1>6. h[len + 1] = Keep(h[len], tok)
    <2>1. len + 1 \in 1..Len(longer) /\ (len + 1) - 1 = len
        BY <1>1
    <2> QED
        BY <1>1, <1>3, <2>1
<1>7. Segments(longer) = Keep(Segments(path), tok)
    BY <1>1, <1>2, <1>3, <1>5, <1>6
<1> QED
    BY <1>7 DEF longer

\* A slash changes nothing, and a name is kept.
LEMMA SegmentsSlash ==
    ASSUME NEW path \in Path
    PROVE  Segments(Append(path, Slash)) = Segments(path)
    BY SegmentsAppend, MuxAssumption DEF MuxAssumption, Token, Keep

LEMMA SegmentsName ==
    ASSUME NEW path \in Path, NEW a \in Names
    PROVE  Segments(Append(path, a)) = Append(Segments(path), a)
    BY SegmentsAppend DEF Token, Keep

\* The shape of a joined path: a slash before each name.
LEMMA JoinShape ==
    ASSUME NEW s \in Seq(Names)
    PROVE  /\ Join(s) \in Path /\ Len(Join(s)) = 2 * Len(s)
           /\ \A i \in 1..(2 * Len(s)) :
                IF i % 2 = 1 THEN Join(s)[i] = Slash
                             ELSE i \div 2 \in 1..Len(s) /\ Join(s)[i] = s[i \div 2]
<1>1. Len(s) \in Nat /\ 2 * Len(s) \in Nat
    OBVIOUS
<1>2. ASSUME NEW i \in 1..(2 * Len(s)), i % 2 # 1
      PROVE  i \div 2 \in 1..Len(s) /\ s[i \div 2] \in Names
    <2>1. i \div 2 \in 1..Len(s)
        BY <1>1, <1>2
    <2> QED
        BY <2>1
<1>3. Join(s) \in [1..(2 * Len(s)) -> Token]
    BY <1>2 DEF Join, Token
<1>4. Join(s) \in Path /\ Len(Join(s)) = 2 * Len(s)
    BY <1>1, <1>3 DEF Path
<1> QED
    BY <1>2, <1>4 DEF Join

\* One more name is two tokens more.
LEMMA JoinAppend ==
    ASSUME NEW s \in Seq(Names), NEW a \in Names
    PROVE  Join(Append(s, a)) = Append(Append(Join(s), Slash), a)
<1> DEFINE t == Append(s, a)
           u == Append(Append(Join(s), Slash), a)
           len == Len(s)
<1>1. /\ len \in Nat /\ t \in Seq(Names) /\ Len(t) = len + 1
      /\ t[len + 1] = a /\ \A i \in 1..len : t[i] = s[i]
    BY AppendProperties
<1>2. /\ Join(s) \in Seq(Token) /\ Len(Join(s)) = 2 * len
      /\ \A i \in 1..(2 * len) : IF i % 2 = 1 THEN Join(s)[i] = Slash
                               ELSE i \div 2 \in 1..len /\ Join(s)[i] = s[i \div 2]
    BY JoinShape DEF Path
<1>3. /\ u \in Seq(Token) /\ Len(u) = 2 * len + 2
      /\ u[2 * len + 1] = Slash /\ u[2 * len + 2] = a
      /\ \A i \in 1..(2 * len) : u[i] = Join(s)[i]
    <2>0. Slash \in Token
        BY DEF Token
    <2>1. /\ Append(Join(s), Slash) \in Seq(Token) /\ Len(Append(Join(s), Slash)) = 2 * len + 1
          /\ Append(Join(s), Slash)[2 * len + 1] = Slash
          /\ \A i \in 1..(2 * len) : Append(Join(s), Slash)[i] = Join(s)[i]
        <3> DEFINE j == Join(s)
        <3>1. j \in Seq(Token) /\ Len(j) = 2 * len
            BY <1>2
        <3> HIDE DEF j, len
        <3>2. /\ Append(j, Slash) \in Seq(Token) /\ Len(Append(j, Slash)) = Len(j) + 1
              /\ Append(j, Slash)[Len(j) + 1] = Slash
              /\ \A i \in 1..Len(j) : Append(j, Slash)[i] = j[i]
            BY <2>0, <3>1, AppendProperties
        <3>3. /\ Append(j, Slash) \in Seq(Token) /\ Len(Append(j, Slash)) = 2 * len + 1
              /\ Append(j, Slash)[2 * len + 1] = Slash
              /\ \A i \in 1..(2 * len) : Append(j, Slash)[i] = j[i]
            BY <3>1, <3>2
        <3> QED
            BY <3>3 DEF j
    <2> DEFINE m == Append(Join(s), Slash)
    <2> HIDE DEF m
    <2>2. a \in Token
        BY DEF Token
    <2>3. /\ Append(m, a) \in Seq(Token) /\ Len(Append(m, a)) = Len(m) + 1
          /\ Append(m, a)[Len(m) + 1] = a
          /\ \A i \in 1..Len(m) : Append(m, a)[i] = m[i]
        <3>1. m \in Seq(Token)
            BY <2>1 DEF m
        <3> QED
            BY <2>2, <3>1, AppendProperties
    <2>4. /\ m \in Seq(Token) /\ Len(m) = 2 * len + 1 /\ m[2 * len + 1] = Slash
          /\ \A i \in 1..(2 * len) : m[i] = Join(s)[i]
        BY <2>1 DEF m
    <2>5. u = Append(m, a)
        BY DEF m
    <2> HIDE DEF u
    <2> QED
        BY <1>1, <2>3, <2>4, <2>5
<1> HIDE DEF t, u, len
<1>4. /\ Join(t) \in Seq(Token) /\ Len(Join(t)) = 2 * (len + 1)
      /\ \A i \in 1..(2 * (len + 1)) : IF i % 2 = 1 THEN Join(t)[i] = Slash
                                     ELSE i \div 2 \in 1..(len + 1) /\ Join(t)[i] = t[i \div 2]
    BY <1>1, JoinShape DEF Path
<1>5. ASSUME NEW i \in 1..(2 * len + 2) PROVE Join(t)[i] = u[i]
    <2>1. CASE i = 2 * len + 2
        <3>1. i % 2 = 0 /\ i \div 2 = len + 1
            BY <1>1, <2>1
        <3> QED
            BY <1>1, <1>3, <1>4, <2>1, <3>1
    <2>2. CASE i = 2 * len + 1
        <3>1. i % 2 = 1
            BY <1>1, <2>2
        <3> QED
            BY <1>1, <1>3, <1>4, <2>2, <3>1
    <2>3. CASE i \in 1..(2 * len) /\ i % 2 = 1
        BY <1>1, <1>2, <1>3, <1>4, <2>3
    <2>4. CASE i \in 1..(2 * len) /\ i % 2 # 1
        <3>1. i \div 2 \in 1..len /\ i \in 1..(2 * (len + 1))
            BY <1>1, <1>2, <2>4
        <3>2. u[i] = Join(s)[i] /\ Join(s)[i] = s[i \div 2]
            BY <1>2, <1>3, <2>4
        <3>3. Join(t)[i] = t[i \div 2] /\ t[i \div 2] = s[i \div 2]
            BY <1>1, <1>4, <2>4, <3>1
        <3> QED
            BY <3>2, <3>3
    <2>5. i = 2 * len + 2 \/ i = 2 * len + 1 \/ i \in 1..(2 * len)
        <3>1. len \in Nat /\ i \in Int
            BY <1>1
        <3> QED
            BY <1>5, <3>1
    <2> QED
        BY <2>1, <2>2, <2>3, <2>4, <2>5
<1>6. Join(t) = u
    BY <1>1, <1>3, <1>4, <1>5, SeqEqual
<1> QED
    BY <1>6 DEF t, u

\* Joining names and taking the path apart gives them back: by induction on
\* how many there are.
LEMMA SegmentsOfJoin ==
    ASSUME NEW s \in Seq(Names)
    PROVE  Segments(Join(s)) = s
<1> DEFINE Comes(t) == Segments(Join(t)) = t
           Lost == {len \in Nat : \E t \in Seq(Names) : Len(t) = len /\ ~Comes(t)}
<1>1. Lost = {}
    <2>1. ASSUME Lost # {} PROVE FALSE
        <3>1. PICK len \in Lost : \A k \in Lost : len <= k
            <4>1. Lost \in SUBSET Nat
                OBVIOUS
            <4> HIDE DEF Lost
            <4> QED
                BY <2>1, <4>1, HasLeast
        <3>2. PICK t \in Seq(Names) : Len(t) = len /\ ~Comes(t)
            OBVIOUS
        <3>3. CASE t = <<>>
            <4>1. Join(t) \in Path /\ Len(Join(t)) = 0
                <5>1. Len(t) = 0 /\ 2 * Len(t) = 0
                    BY <3>3
                <5> QED
                    BY <5>1, JoinShape
            <4>2. Join(t) = <<>>
                BY <4>1 DEF Path
            <4> QED
                BY <3>2, <3>3, <4>2, SegmentsEmpty
        <3>4. CASE t # <<>>
            <4>1. PICK u \in Seq(Names), a \in Names : t = Append(u, a)
                BY <3>4, SequenceEmptyOrAppend
            <4>2. Len(u) \in Nat /\ Len(u) < len
                BY <3>2, <4>1
            <4>3. Comes(u)
                <5>1. Len(u) \notin Lost
                    <6>1. ~(len <= Len(u))
                        BY <4>2
                    <6> HIDE DEF Lost
                    <6> QED
                        BY <3>1, <6>1
                <5> QED
                    BY <4>2, <5>1
            <4>4. Join(u) \in Path /\ Append(Join(u), Slash) \in Path
                BY JoinShape DEF Path, Token
            <4>5. Segments(Join(t)) = Append(Segments(Join(u)), a)
                BY <4>1, <4>4, JoinAppend, SegmentsName, SegmentsSlash
            <4> QED
                BY <3>2, <4>1, <4>3, <4>5
        <3> QED
            BY <3>3, <3>4
    <2> QED
        BY <2>1
<1>2. Len(s) \notin Lost
    <2> HIDE DEF Lost
    <2> QED
        BY <1>1
<1> QED
    BY <1>2

\* The names that are left of a clean path are those it was made of, and it
\* ends in a slash only if it is the root or the request did.
LEMMA CleanShape ==
    ASSUME NEW path \in Path
    PROVE  LET s == Segments(path)
               slashed == path # <<>> /\ IsSubtree(path)
           IN  /\ s \in Seq(Names)
               /\ s = <<>> => Clean(path) = <<Slash>>
               /\ s # <<>> => Clean(path) = IF slashed THEN Append(Join(s), Slash) ELSE Join(s)
<1>1. Segments(path) \in Seq(Names)
    BY SegmentsType
<1>2. ASSUME Segments(path) # <<>> PROVE path # <<>>
    BY <1>2, SegmentsEmpty
<1>3. Segments(path) = <<>> <=> Join(Segments(path)) = <<>>
    <2>1. Join(Segments(path)) \in Path /\ Len(Join(Segments(path))) = 2 * Len(Segments(path))
        BY <1>1, JoinShape
    <2> QED
        BY <1>1, <2>1, EmptySeq, LenProperties DEF Path
<1> QED
    BY <1>1, <1>2, <1>3 DEF Clean

LEMMA CleanType ==
    ASSUME NEW path \in Path
    PROVE  Clean(path) \in Path /\ Clean(path) # <<>>
<1> DEFINE s == Segments(path)
<1>1. s \in Seq(Names) /\ Join(s) \in Path /\ Len(Join(s)) = 2 * Len(s)
    BY CleanShape, JoinShape
<1>2. CASE s = <<>>
    <2>1. Clean(path) = <<Slash>>
        BY <1>2, CleanShape
    <2>2. <<Slash>> \in Path /\ <<Slash>> # <<>>
        BY DEF Path, Token
    <2> QED
        BY <2>1, <2>2
<1>3. CASE s # <<>>
    <2>1. Join(s) # <<>> /\ Append(Join(s), Slash) \in Path /\ Append(Join(s), Slash) # <<>>
        <3>1. Len(s) # 0
            BY <1>1, <1>3, EmptySeq, LenProperties
        <3> QED
            BY <1>1, <3>1 DEF Path, Token
    <2>2. Clean(path) \in {Append(Join(s), Slash), Join(s)}
        BY <1>3, CleanShape
    <2> HIDE DEF s
    <2> QED
        BY <1>1, <2>1, <2>2
<1> QED
    BY <1>2, <1>3

\* Two requests with the same names left, and the same slash behind if there
\* are any, have one clean form.
LEMMA CleanIsUnique ==
    ASSUME NEW p \in Path, NEW q \in Path, Segments(p) = Segments(q),
           Segments(p) = <<>> \/ (p # <<>> /\ IsSubtree(p) <=> q # <<>> /\ IsSubtree(q))
    PROVE  Clean(p) = Clean(q)
    BY CleanShape

\* Cleaning a clean path changes nothing.
LEMMA CleanTwice ==
    ASSUME NEW path \in Path
    PROVE  Clean(Clean(path)) = Clean(path) /\ Segments(Clean(path)) = Segments(path)
<1> DEFINE s == Segments(path)
           c == Clean(path)
<1>1. /\ s \in Seq(Names) /\ Join(s) \in Path /\ Len(Join(s)) = 2 * Len(s)
      /\ c \in Path
    BY CleanShape, JoinShape, CleanType
<1>2. CASE s = <<>>
    <2>1. c = <<Slash>>
        BY <1>2, CleanShape
    <2>2. <<>> \in Path /\ Append(<<>>, Slash) = <<Slash>>
        BY DEF Path
    <2>3. Segments(<<Slash>>) = <<>>
        BY <2>2, SegmentsSlash, SegmentsEmpty
    <2>4. Clean(c) = <<Slash>>
        BY <1>1, <2>1, <2>3, CleanShape
    <2> QED
        BY <1>2, <2>1, <2>3, <2>4
<1>3. CASE s # <<>>
    <2>1. c = IF path # <<>> /\ IsSubtree(path) THEN Append(Join(s), Slash) ELSE Join(s)
        BY <1>3, CleanShape
    <2>2. Segments(c) = s
        BY <1>1, <2>1, SegmentsOfJoin, SegmentsSlash
    <2>3. c # <<>> /\ (IsSubtree(c) <=> path # <<>> /\ IsSubtree(path))
        <3>1. c # <<>>
            BY CleanType
        <3>2. CASE path # <<>> /\ IsSubtree(path)
            BY <1>1, <2>1, <3>1, <3>2, AppendProperties DEF IsSubtree, Path, Token
        <3>3. CASE ~(path # <<>> /\ IsSubtree(path))
            <4>1. Len(s) \in Nat \ {0}
                BY <1>1, <1>3, EmptySeq, LenProperties
            <4>2. 2 * Len(s) \in 1..(2 * Len(s)) /\ (2 * Len(s)) % 2 = 0
                BY <4>1
            <4>3. (2 * Len(s)) \div 2 \in 1..Len(s) /\ c[Len(c)] = s[(2 * Len(s)) \div 2]
                BY <1>1, <2>1, <3>3, <4>2, JoinShape
            <4>4. c[Len(c)] \in Names
                BY <1>1, <4>3
            <4> QED
                BY <3>1, <3>3, <4>4, MuxAssumption DEF MuxAssumption, IsSubtree
        <3> QED
            BY <3>2, <3>3
    <2> QED
        BY <1>1, <2>2, <2>3, CleanIsUnique
<1> QED
    BY <1>2, <1>3

-----------------------------------------------------------------------------
(* Requests and their patterns.                                            *)

\* What Handler looks up is a path.
LEMMA LookupsArePaths == Lookups \subseteq Path
BY CleanType, MuxAssumption DEF MuxAssumption, Lookups

\* Registering one more pattern never takes the handler of a request away, with
\* one exception: the request's own path with its host.
THEOREM RoutesAreKept == Spec => RoutesStay
<1> DEFINE Kept ==
        \A h \in Hosts, path \in Lookups :
            Handler(h, path) # NoPattern /\ Handler(h, path)' = NoPattern => Handle(h \o path)
<1>1. TypeOK /\ [Next]_vars => TypeOK'
    BY TypeStep DEF Next, vars, TypeOK
<1>2. ASSUME TypeOK, [Next]_vars PROVE Kept \/ UNCHANGED vars
    <2> SUFFICES ASSUME NEW q \in Patterns, Handle(q), NEW h \in Hosts, NEW path \in Lookups,
                        Handler(h, path) # NoPattern, Handler(h, path)' = NoPattern
                 PROVE  Handle(h \o path)
        BY <1>2 DEF Next
    <2>1. table' = table \cup {q}
        BY DEF Handle
    <2>2. h \o path \in table' \ table
        BY <1>1, <1>2, <2>1, HandlerStays, LookupsArePaths
    <2>3. h \o path = q
        BY <2>1, <2>2
    <2> QED
        BY <2>3
<1> QED
    BY <1>2, ArrayStaysSorted, PTL DEF Spec, RoutesStay

\* What a request is looked up by is rooted, has no dots and no two slashes in a
\* row, and is not changed by another clean.
LEMMA CleanIsCanonical ==
    ASSUME NEW path \in Path
    PROVE  IsCanonical(Clean(path))
<1> DEFINE s == Segments(path)
           c == Clean(path)
           len == 2 * Len(s)
<1>1. /\ s \in Seq(Names) /\ Join(s) \in Path /\ Len(Join(s)) = len /\ len \in Nat
      /\ \A i \in 1..len : IF i % 2 = 1 THEN Join(s)[i] = Slash
                         ELSE i \div 2 \in 1..Len(s) /\ Join(s)[i] = s[i \div 2]
    BY CleanShape, JoinShape
<1>2. Clean(c) = c
    BY CleanTwice
<1>3. CASE s = <<>>
    <2>1. c = <<Slash>>
        BY <1>3, CleanShape
    <2>2. Len(c) = 1 /\ c[1] = Slash
        BY <2>1
    <2> QED
        BY <1>2, <2>2, MuxAssumption DEF IsCanonical, MuxAssumption
<1>4. CASE s # <<>>
    <2>1. c = Append(Join(s), Slash) \/ c = Join(s)
        BY <1>4, CleanShape
    <2>2. Len(s) \in Nat \ {0}
        BY <1>1, <1>4, EmptySeq, LenProperties
    <2>3. /\ Len(c) \in {len, len + 1}
          /\ \A i \in 1..len : c[i] = Join(s)[i]
          /\ Len(c) = len + 1 => c[len + 1] = Slash
        <3> HIDE DEF c, len, s
        <3> DEFINE j == Join(s)
        <3>1. j \in Seq(Token) /\ Len(j) = len /\ len \in Nat /\ Slash \in Token
            BY <1>1 DEF Path, Token
        <3> HIDE DEF j
        <3>2. /\ Len(Append(j, Slash)) = len + 1 /\ Append(j, Slash)[len + 1] = Slash
              /\ \A i \in 1..len : Append(j, Slash)[i] = j[i]
            BY <3>1, AppendProperties
        <3>3. c = Append(j, Slash) \/ c = j
            BY <2>1 DEF j
        <3>4. /\ Len(c) \in {len, len + 1}
              /\ \A i \in 1..len : c[i] = j[i]
              /\ Len(c) = len + 1 => c[len + 1] = Slash
            BY <3>1, <3>2, <3>3
        <3> QED
            BY <3>4 DEF j
    <2> HIDE DEF c
    <2>4. ASSUME NEW i \in 1..Len(c)
          PROVE  IF i % 2 = 1 THEN c[i] = Slash ELSE c[i] \in Names
        <3>1. CASE i = len + 1
            <4>1. i % 2 = 1
                BY <1>1, <2>2, <3>1
            <4> QED
                BY <2>3, <3>1, <4>1
        <3>2. CASE i \in 1..len
            <4>1. c[i] = Join(s)[i]
                BY <2>3, <3>2
            <4>2. i % 2 # 1 => i \div 2 \in 1..Len(s) /\ c[i] = s[i \div 2]
                BY <1>1, <3>2, <4>1
            <4>3. \A k \in 1..Len(s) : s[k] \in Names
                BY <1>1
            <4> HIDE DEF s, len
            <4> QED
                BY <1>1, <3>2, <4>1, <4>2, <4>3
        <3> QED
            BY <1>1, <2>3, <3>1, <3>2
    <2>5. Len(c) \in Nat \ {0} /\ c[1] = Slash
        <3>1. Len(c) \in Nat \ {0} /\ 1 \in 1..Len(c) /\ 1 % 2 = 1
            BY <1>1, <2>2, <2>3
        <3> QED
            BY <2>4, <3>1
    <2>6. \A i \in 1..Len(c) : c[i] \notin {Dot, DotDot}
        BY <2>4, MuxAssumption DEF MuxAssumption
    <2>7. ASSUME NEW i \in 1..(Len(c) - 1)
          PROVE  ~(c[i] = Slash /\ c[i + 1] = Slash)
        <3>1. i \in 1..Len(c) /\ i + 1 \in 1..Len(c)
            BY <2>5
        <3>2. i % 2 # 1 \/ (i + 1) % 2 # 1
            BY <2>5
        <3> QED
            BY <2>4, <3>1, <3>2, MuxAssumption DEF MuxAssumption
    <2> QED
        BY <1>2, <2>5, <2>6, <2>7 DEF IsCanonical, c
<1> QED
    BY <1>3, <1>4

\* A request that spells a registered pattern is routed to it.
LEMMA SpelledIsFound ==
    ASSUME NEW h \in Hosts, NEW r \in Path, NEW p \in Path, p \in table, p # <<>>, Spells(r, p)
    PROVE  Handler(h, Clean(r)) = p
<1>1. Segments(p) = <<>> => p = <<Slash>>
    BY CleanShape DEF Spells
<1>2. p = <<Slash>> => Segments(p) = <<>>
    <2>1. <<>> \in Path /\ Append(<<>>, Slash) = <<Slash>>
        BY DEF Path
    <2> QED
        BY <2>1, SegmentsSlash, SegmentsEmpty
<1>3. Clean(r) = Clean(p)
    BY <1>1, <1>2, CleanIsUnique DEF Spells
<1>4. Clean(r) = p
    BY <1>3 DEF Spells
<1> QED
    BY <1>4 DEF Handler, ShouldRedirect, Match

\* For any requests and any patterns, registered in any order: every request is
\* looked up by a canonical path, and however it spells a clean pattern that is
\* registered, it reaches that one (mux.go:156).
THEOREM SpelledPatternsAreReached == Spec => []RequestsReachTheirPattern
<1>1. TypeOK => RequestsReachTheirPattern
    <2> SUFFICES ASSUME TypeOK, NEW h \in Hosts, NEW r \in Requests
                 PROVE  /\ IsCanonical(Clean(r))
                        /\ \A p \in table : Spells(r, p) => Handler(h, Clean(r)) = p
        BY DEF RequestsReachTheirPattern
    <2>1. r \in Path /\ \A p \in table : p \in Path /\ p # <<>>
        BY MuxAssumption DEF MuxAssumption, TypeOK
    <2> QED
        BY <2>1, CleanIsCanonical, SpelledIsFound
<1> QED
    BY <1>1, ArrayStaysSorted, PTL

-----------------------------------------------------------------------------
(* The timer.                                                              *)

\* The goroutines that have reached the last count and have yet to dispatch
\* COMPLETE.
Pending ==
    {w \in Waiters :
       \/ wait[w] = "last"
       \/ repeatCount > 0 /\ n[w] = repeatCount /\ wait[w] \in {"dispatch", "timer"}}

\* The run since the last reset has reached its last count.
Reached == IF currentCount >= repeatCount THEN 1 ELSE 0

Counters ==
    /\ repeatCount \in Nat
    /\ currentCount \in Nat /\ resets \in Nat /\ completes \in Nat
    /\ wait \in [Waiters -> WaitStates]
    /\ n \in [Waiters -> Nat]

\* Every COMPLETE, dispatched or pending, is paid for by the reset that began
\* its run; the run under way pays for one once it has reached its last count.
Paid == completes + Cardinality(Pending) <= resets + Reached

IInv == Counters /\ Paid

\* There are finitely many goroutines, hence pending ones.
LEMMA PendingFinite == IsFiniteSet(Pending) /\ Cardinality(Pending) \in Nat
<1>1. IsFiniteSet(Waiters)
    BY TimerAssumption, FS_Interval DEF Waiters
<1>2. IsFiniteSet(Pending)
    BY <1>1, FS_Subset DEF Pending
<1> QED BY <1>2, FS_CardinalityType

\* The same in the next state.
LEMMA PendingFinite2 == IsFiniteSet(Pending') /\ Cardinality(Pending') \in Nat
<1>1. IsFiniteSet(Waiters)
    BY TimerAssumption, FS_Interval DEF Waiters
<1>2. IsFiniteSet(Pending')
    BY <1>1, FS_Subset DEF Pending
<1> QED BY <1>2, FS_CardinalityType

\* Nothing is pending at first.
LEMMA IInvInit == TimerInit => IInv
<1> SUFFICES ASSUME TimerInit PROVE IInv
    OBVIOUS
<1>1. Counters
    BY TimerAssumption DEF TimerInit, Counters, WaitStates
<1>2. Pending = {}
    BY DEF TimerInit, Pending
<1>3. Paid
    BY <1>2, FS_EmptySet, TimerAssumption DEF TimerInit, Paid, Reached, IInv
<1> QED BY <1>1, <1>3 DEF IInv

\* A step that leaves the counters alone and adds no pending goroutine.
LEMMA QuietStep ==
    ASSUME IInv, UNCHANGED <<repeatCount, currentCount, resets, completes>>, Pending' \subseteq Pending
    PROVE  Paid'
<1>1. Cardinality(Pending') <= Cardinality(Pending)
    BY PendingFinite, FS_Subset
<1>2. Reached' = Reached /\ Reached \in Nat
    BY DEF Reached
<1> QED BY <1>1, <1>2, PendingFinite, PendingFinite2 DEF IInv, Paid, Counters

\* Calls of Start, Stop and Reset, and the ticker.
LEMMA CallStep ==
    ASSUME IInv, UNCHANGED repeatCount, NEW t \in Threads,
           StartTimer(t) \/ Stop(t) \/ Reset(t) \/ StopTicker(t)
    PROVE  IInv'
<1>1. UNCHANGED <<repeatCount, currentCount, resets, completes, wait, n>>
    BY DEF StartTimer, Stop, Reset, Swap, StopTicker, waiters
<1>2. Counters'
    BY <1>1 DEF IInv, Counters
<1>3. Pending' = Pending
    BY <1>1 DEF Pending
<1> QED BY <1>1, <1>2, <1>3, QuietStep DEF IInv

\* The ticker puts a tick into its channel.
LEMMA TickStep == ASSUME IInv, UNCHANGED repeatCount, NEW k \in Waiters, Tick(k) PROVE IInv'
<1>1. UNCHANGED <<repeatCount, currentCount, resets, completes, wait, n>>
    BY DEF Tick, waiters, calls
<1>2. Counters'
    BY <1>1 DEF IInv, Counters
<1>3. Pending' = Pending
    BY <1>1 DEF Pending
<1> QED BY <1>1, <1>2, <1>3, QuietStep DEF IInv

\* The goroutine of a new ticker is not pending.
LEMMA NewTickerStep == ASSUME IInv, UNCHANGED repeatCount, NEW t \in Threads, NewTicker(t) PROVE IInv'
<1>1. /\ UNCHANGED <<repeatCount, currentCount, resets, completes, n>>
      /\ wait' = [wait EXCEPT ![starts + 1] = "select"]
    BY DEF NewTicker
<1>2. Counters'
    BY <1>1 DEF IInv, Counters, WaitStates
<1>3. Pending' \subseteq Pending
    BY <1>1 DEF Pending, IInv, Counters
<1> QED BY <1>1, <1>2, <1>3, QuietStep DEF IInv

\* The counter goes back to zero: the run that ends pays for what is pending.
LEMMA ClearStep == ASSUME IInv, UNCHANGED repeatCount, NEW t \in Threads, Clear(t) PROVE IInv'
<1>1. /\ UNCHANGED <<repeatCount, completes, wait, n>>
      /\ currentCount' = 0 /\ resets' = resets + 1
    BY DEF Clear, waiters
<1>2. Counters'
    BY <1>1 DEF IInv, Counters
<1>3. Pending' = Pending
    BY <1>1 DEF Pending
<1>4. Reached \in 0..1 /\ Reached' \in 0..1
    BY DEF Reached
<1> QED BY <1>1, <1>2, <1>3, <1>4, PendingFinite DEF IInv, Paid, Counters

\* The steps of wait in which no goroutine becomes pending.
LEMMA WaitStep ==
    ASSUME IInv, UNCHANGED repeatCount, NEW w \in Waiters,
           \/ Select(w) \/ Receive(w) \/ CheckState(w) \/ DispatchTimer(w)
           \/ TimerHandled(w) \/ CompleteHandled(w) \/ StopSelf(w)
    PROVE  IInv'
<1>1. UNCHANGED <<repeatCount, currentCount, resets, completes, n>>
    BY DEF Select, Receive, CheckState, DispatchTimer, TimerHandled, CompleteHandled,
           StopSelf, calls
<1>2. \E s \in WaitStates :
        /\ wait' = [wait EXCEPT ![w] = s]
        /\ s = "last" => wait[w] = "timer" /\ repeatCount > 0 /\ n[w] = repeatCount
        /\ s \in {"dispatch", "timer"} => wait[w] = "dispatch"
    BY DEF Select, Receive, CheckState, DispatchTimer, TimerHandled, CompleteHandled,
           StopSelf, WaitStates
<1>3. PICK s \in WaitStates :
        /\ wait' = [wait EXCEPT ![w] = s]
        /\ s = "last" => wait[w] = "timer" /\ repeatCount > 0 /\ n[w] = repeatCount
        /\ s \in {"dispatch", "timer"} => wait[w] = "dispatch"
    BY <1>2
<1>4. Counters'
    BY <1>1, <1>3 DEF IInv, Counters
<1>5. Pending' \subseteq Pending
    BY <1>1, <1>3 DEF Pending, IInv, Counters
<1> QED BY <1>1, <1>4, <1>5, QuietStep DEF IInv

\* A count: the one that reaches repeatCount makes its goroutine pending, and
\* the run that pays for it reaches its last count in the same step.
LEMMA CountStep == ASSUME IInv, UNCHANGED repeatCount, NEW w \in Waiters, Count(w) PROVE IInv'
<1>1. /\ UNCHANGED <<repeatCount, resets, completes>>
      /\ currentCount' = currentCount + 1
      /\ n' = [n EXCEPT ![w] = currentCount + 1]
      /\ wait' = [wait EXCEPT ![w] = "dispatch"]
    BY DEF Count, calls
<1>2. Counters'
    BY <1>1 DEF IInv, Counters, WaitStates
<1>3. CASE currentCount + 1 # repeatCount
  <2>1. Pending' \subseteq Pending
    BY <1>1, <1>3 DEF Pending, IInv, Counters
  <2>2. Cardinality(Pending') <= Cardinality(Pending)
    BY <2>1, PendingFinite, FS_Subset
  <2>3. Reached \in Nat /\ Reached' \in Nat /\ Reached <= Reached'
    BY <1>1, TimerAssumption DEF Reached, IInv, Counters
  <2> QED BY <1>1, <1>2, <2>2, <2>3, PendingFinite, PendingFinite2 DEF IInv, Paid, Counters
<1>4. CASE currentCount + 1 = repeatCount
  <2>1. Pending' \subseteq Pending \cup {w}
    BY <1>1 DEF Pending, IInv, Counters
  <2>2. Cardinality(Pending') <= Cardinality(Pending) + 1
    <3>1. CASE w \in Pending
      <4>1. Pending' \subseteq Pending
        BY <2>1, <3>1
      <4>2. Cardinality(Pending') <= Cardinality(Pending)
        BY <4>1, PendingFinite, FS_Subset
      <4> QED BY <4>2, PendingFinite, PendingFinite2
    <3>2. CASE w \notin Pending
      <4>1. /\ IsFiniteSet(Pending \cup {w})
            /\ Cardinality(Pending \cup {w}) = Cardinality(Pending) + 1
        BY <3>2, PendingFinite, FS_AddElement
      <4>2. Cardinality(Pending') <= Cardinality(Pending \cup {w})
        BY <2>1, <4>1, FS_Subset
      <4> QED BY <4>1, <4>2
    <3> QED BY <3>1, <3>2
  <2>4. Reached = 0 /\ Reached' = 1
    BY <1>1, <1>4, TimerAssumption DEF Reached, IInv, Counters
  <2> QED BY <1>1, <1>2, <2>2, <2>4, PendingFinite, PendingFinite2 DEF IInv, Paid, Counters
<1> QED BY <1>3, <1>4

\* COMPLETE: what was pending is dispatched.
LEMMA CompleteStep == ASSUME IInv, UNCHANGED repeatCount, NEW w \in Waiters, DispatchComplete(w) PROVE IInv'
<1>1. /\ UNCHANGED <<repeatCount, currentCount, resets, n>>
      /\ completes' = completes + 1
      /\ wait[w] = "last"
      /\ wait' = [wait EXCEPT ![w] = "complete"]
    BY DEF DispatchComplete, calls
<1>2. Counters'
    BY <1>1 DEF IInv, Counters, WaitStates
<1>3. w \in Pending /\ Pending' \subseteq Pending \ {w}
    BY <1>1 DEF Pending, IInv, Counters
<1>4. /\ IsFiniteSet(Pending \ {w})
      /\ Cardinality(Pending \ {w}) = Cardinality(Pending) - 1
    BY <1>3, PendingFinite, FS_RemoveElement
<1>5. Cardinality(Pending') <= Cardinality(Pending) - 1
    BY <1>3, <1>4, FS_Subset
<1>6. Reached' = Reached /\ Reached \in Nat
    BY <1>1 DEF Reached
<1> QED BY <1>1, <1>2, <1>5, <1>6, PendingFinite, PendingFinite2 DEF IInv, Paid, Counters

\* Every step keeps what is pending paid for.
LEMMA IInvStep == IInv /\ [TimerNext]_timerVars => IInv'
<1> SUFFICES ASSUME IInv, [TimerNext]_timerVars PROVE IInv'
    OBVIOUS
<1>1. ASSUME NEW t \in Threads, Begin(t) \/ Continue(t) PROVE IInv'
    BY <1>1, CallStep, NewTickerStep, ClearStep DEF Begin, Continue, fixed
<1>2. ASSUME NEW w \in Waiters, TickerTicks(w) \/ Wait(w) PROVE IInv'
    BY <1>2, TickStep, WaitStep, CountStep, CompleteStep DEF TickerTicks, Wait, fixed
<1>3. ASSUME UNCHANGED timerVars PROVE IInv'
  <2>1. UNCHANGED <<repeatCount, currentCount, resets, completes, wait, n>>
    BY <1>3 DEF timerVars, fixed, calls, waiters
  <2>2. Counters' /\ Pending' = Pending
    BY <2>1 DEF IInv, Counters, Pending
  <2> QED BY <2>1, <2>2, QuietStep DEF IInv
<1> QED BY <1>1, <1>2, <1>3 DEF TimerNext

\* COMPLETE is dispatched at most once per reset, whatever the interleaving
\* of ticks, restarts, resets and listeners that make such calls themselves.
THEOREM CompleteIsUnique == TimerSpec => []CompletesOncePerReset
<1>1. IInv => CompletesOncePerReset
  <2> SUFFICES ASSUME IInv PROVE CompletesOncePerReset
      OBVIOUS
  <2>1. Reached \in 0..1
      BY DEF Reached
  <2> QED BY <2>1, PendingFinite DEF IInv, Paid, Counters, CompletesOncePerReset
<1> QED BY <1>1, IInvInit, IInvStep, PTL DEF TimerSpec
=============================================================================
